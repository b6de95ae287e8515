------------------------------ MODULE Network ------------------------------
(***************************************************************************)
(* The interfaces of discover/network.c: what netlink and udev say of      *)
(* them, in either order, how they are brought up and configured, and the  *)
(* DHCP clients that run for them.  The kernel is external: it keeps the   *)
(* flags of an interface and queues a message for every change.            *)
(*                                                                         *)
(* DeviceHandler has the devices.  Here a device is its UUID, which is the *)
(* MAC address its interface had when it was created.                      *)
(***************************************************************************)
EXTENDS Naturals, Sequences, Functions

CONSTANTS
    NIfs,        \* number of interfaces
    Lo,          \* indices of loopback interfaces
    Macs,        \* MAC addresses
    Mac,         \* the address that an interface starts with
    Confs,       \* configurations: per address "dhcp", "static", "ignore" or "none"
    MaxClients,  \* bound on the DHCP clients ever started
    MaxEvents,   \* bound on the changes that the kernel reports
    MaxFaults    \* bound on commands that fail

Ifs == 1..NIfs  \* interface indices

ASSUME NetAssumption ==
    /\ NIfs \in Nat /\ Mac \in [Ifs -> Macs]
    /\ {"null", "stale"} \cap Macs = {}
    /\ Confs \subseteq [Macs -> {"dhcp", "static", "ignore", "none"}]

VARIABLES
    fate,     \* "run", or what the process has died of
    conf,     \* the interfaces of config_get()
    kernel,   \* what the kernel has of each interface
    udev,     \* interfaces that udev is still to report
    inbox,    \* netlink messages not read yet
    deaf,     \* the netlink waiter has been removed
    net,      \* network->interfaces
    client,   \* DHCP clients: the interface they run for, whether they run,
              \* whether exit_cb is set and the interface's reference held
    devs,     \* UUIDs of the handler's network devices
    timer,    \* those with a requery_waiter
    changed,  \* the address of some interface has been changed
    events, faults

nvars == <<fate, conf, kernel, udev, inbox, deaf, net, client, devs, timer, changed, events, faults>>

Manual == \E m \in Macs : conf[m] # "none"
Clients == 1..MaxClients

NetInit ==
    /\ fate = "run" /\ conf \in Confs
    /\ kernel = [i \in Ifs |-> [st |-> "absent", up |-> FALSE, link |-> FALSE,
                                mac |-> Mac[i], name |-> 0]]
    /\ udev = {} /\ inbox = <<>> /\ deaf = FALSE /\ net = <<>>
    /\ client = [c \in Clients |-> [own |-> 0, st |-> "unused", cb |-> FALSE,
                                    held |-> FALSE]]
    /\ devs = {} /\ timer = {} /\ changed = FALSE /\ events = 0 /\ faults = 0

(* find_interface_by_ifindex(), find_interface_by_uuid(): the first         *)
(* position in the list, or 0                                               *)
First(ps) == IF \E p \in ps : \A q \in ps : p <= q
             THEN CHOOSE p \in ps : \A q \in ps : p <= q ELSE 0
ByIndex(n, i) == First({p \in DOMAIN n : n[p].if = i})
ByMac(n, m) == First({p \in DOMAIN n : n[p].mac = m})

(* The struct process of a client that has exited and been released *)
Freed(c) == client[c].st = "done" /\ ~client[c].held

Free == {c \in Clients : client[c].st = "unused"}

Room == \E c, d \in Free : c # d

Message(i, k) == [if |-> i, del |-> k[i].st = "gone", up |-> k[i].up, link |-> k[i].link,
                  mac |-> k[i].mac, name |-> k[i].name]

-----------------------------------------------------------------------------
Outcome(s, do) == [state |-> s, do |-> do]

(* Mutant: an interface that waits for its link goes on waiting. *)
ConfigureWaits(r, up, link) ==
    LET was == IF r.state # "configured" THEN r.state
               ELSE IF ~up THEN "new" ELSE IF ~link THEN "waiting" ELSE "configured"
    IN  IF was \in {"ignored", "configured", "waiting"} THEN Outcome(was, "nothing")
        ELSE IF r.if \in Lo
        THEN Outcome("configured", IF was = "new" THEN "up" ELSE "nothing")
        ELSE IF conf[r.mac] = "ignore" \/ (Manual /\ conf[r.mac] = "none")
        THEN Outcome("ignored", "nothing")
        ELSE IF was = "new" /\ ~up THEN Outcome("new", "up")
        ELSE IF ~link THEN Outcome("waiting", "nothing")
        ELSE Outcome("configured", IF conf[r.mac] = "static" THEN "static" ELSE "dhcp")

(* configure_interface(): the state that an interface gets, and what is     *)
(* done with it                                                             *)
Configure(r, up, link) ==
    LET was == IF r.state # "configured" THEN r.state
               ELSE IF ~up THEN "new" ELSE IF ~link THEN "waiting" ELSE "configured"
    IN  IF was \in {"ignored", "configured"} THEN Outcome(was, "nothing")
        ELSE IF r.if \in Lo
        THEN Outcome("configured", IF was = "new" THEN "up" ELSE "nothing")
        ELSE IF conf[r.mac] = "ignore" \/ (Manual /\ conf[r.mac] = "none")
        THEN Outcome("ignored", "nothing")
        ELSE IF was = "new" /\ ~up THEN Outcome("new", "up")
        ELSE IF ~link THEN Outcome("waiting", "nothing")
        ELSE Outcome("configured", IF conf[r.mac] = "static" THEN "static" ELSE "dhcp")

(* interface_up(): ip(8) sets the flag, and the kernel queues a message if  *)
(* that changes it.                                                         *)
SetUp(i, ok, q) ==
    IF ok /\ kernel[i].st = "here" /\ ~kernel[i].up
    THEN /\ kernel' = [kernel EXCEPT ![i].up = TRUE]
         /\ inbox' = Append(q, Message(i, kernel'))
    ELSE UNCHANGED kernel /\ inbox' = q

(* configure_interface_dhcp(): a client for each protocol; the pointer to   *)
(* one that cannot be started is left as it is.                             *)
StartDhcp(n, at, cl, ok4, ok6) ==
    LET four == CHOOSE c \in Free : TRUE
        six == IF ok4 THEN CHOOSE c \in Free \ {four} : TRUE ELSE four
        new == [own |-> n[at].if, st |-> "running", cb |-> TRUE, held |-> TRUE]
    IN  /\ client' = [c \in Clients |-> IF (ok4 /\ c = four) \/ (ok6 /\ c = six)
                                        THEN new ELSE cl[c]]
        /\ net' = [n EXCEPT ![at] = [n[at] EXCEPT !.p4 = IF ok4 THEN four ELSE @,
                                                 !.p6 = IF ok6 THEN six ELSE @]]

(* configure_interface() of the interface at position `at' of the list n.   *)
(* A static interface gets its address, is brought up, and its URL is read. *)
Apply(n, at, up, link, q, ok, ok4, ok6) ==
    LET o == Configure(n[at], up, link)
        m == [n EXCEPT ![at].state = o.state]
        dhcp == o.do = "dhcp"
        ip == o.do \in {"up", "static"}
    IN  /\ ~ok => ip
        /\ ~(ok4 /\ ok6) => dhcp
        /\ faults' = IF ok /\ ok4 /\ ok6 THEN faults ELSE faults + 1
        /\ faults' <= MaxFaults
        /\ fate' = IF n[at].dev = "stale" /\ o.do \in {"dhcp", "static"}
                    THEN "stale_dev" ELSE "run"
        /\ IF ip THEN SetUp(n[at].if, ok, q) ELSE UNCHANGED kernel /\ inbox' = q
        /\ timer' = IF o.do = "static" /\ ok THEN timer \cup {n[at].dev} ELSE timer
        /\ IF dhcp
           THEN Room /\ StartDhcp(m, at, client, ok4, ok6)
           ELSE net' = m /\ UNCHANGED client

NewInterface(i, m, name) ==
    [if |-> i, state |-> "new", ready |-> FALSE, mac |-> m, name |-> name,
     dev |-> m, p4 |-> 0, p6 |-> 0]

(* Mutant: an interface keeps its pointer to a device that is removed. *)
UnregisterKeeps(n, m) ==
    [at \in 1..Len(n) |-> [n[at] EXCEPT !.dev = IF @ = m THEN "stale" ELSE @]]

(* network_unregister_device() forgets the device at the first interface    *)
(* that has the address; other pointers to it are left.                     *)
Unregister(n, m) ==
    [at \in 1..Len(n) |->
        [n[at] EXCEPT !.dev = IF at = ByMac(n, m) THEN "null"
                              ELSE IF @ = m THEN "stale" ELSE @]]

Without(n, at) == SubSeq(n, 1, at - 1) \o SubSeq(n, at + 1, Len(n))

(* remove_interface(): the device is removed and the interface freed, under *)
(* the clients that run for it.                                             *)
RemoveInterface(at) ==
    LET d == net[at].dev
    IN  /\ net' = Without(IF d \in Macs THEN Unregister(net, d) ELSE net, at)
        /\ devs' = devs \ {d}
        /\ timer' = timer \ {d}
        /\ client' = [c \in Clients |-> IF client[c].own = net[at].if
                                        THEN [client[c] EXCEPT !.own = 0] ELSE client[c]]
        /\ fate' = IF d = "stale" THEN "stale_dev" ELSE "run"

-----------------------------------------------------------------------------
(* network_handle_nlmsg() *)
LinkDeleted ==
    /\ fate = "run" /\ ~deaf /\ inbox # <<>> /\ Head(inbox).del
    /\ inbox' = Tail(inbox)
    /\ IF ByIndex(net, Head(inbox).if) = 0
       THEN UNCHANGED <<net, client, devs, timer, fate>>
       ELSE RemoveInterface(ByIndex(net, Head(inbox).if))
    /\ UNCHANGED <<kernel, udev, deaf, changed, events, faults>>

(* Mutant: an interface is configured before udev has named it. *)
NotReadyIgnored(r) == FALSE

NotReady(r) == ~r.ready /\ r.if \notin Lo

Newlink(ok, ok4, ok6) ==
    LET msg == Head(inbox)
        old == ByIndex(net, msg.if)
        n == IF old = 0 THEN Append(net, NewInterface(msg.if, msg.mac, msg.name)) ELSE net
        at == ByIndex(n, msg.if)
        rename == n[at].name # msg.name
        r == [n[at] EXCEPT !.mac = msg.mac, !.name = msg.name,
                           !.dev = IF @ = "null" THEN msg.mac ELSE @]
        upd == [n EXCEPT ![at] = r]
    IN  /\ fate = "run" /\ ~deaf /\ inbox # <<>> /\ ~msg.del
        /\ devs' = IF \/ old = 0 /\ ByMac(net, msg.mac) = 0
                      \/ old # 0 /\ n[at].dev = "null" /\ ~rename
                   THEN devs \cup {msg.mac} ELSE devs
        /\ IF old = 0 /\ ByMac(net, msg.mac) # 0
           THEN /\ ok /\ ok4 /\ ok6 /\ inbox' = Tail(inbox)
                /\ UNCHANGED <<fate, kernel, net, client, timer, faults>>
           ELSE IF rename /\ n[at].dev \notin Macs
           THEN /\ ok /\ ok4 /\ ok6 /\ inbox' = Tail(inbox)
                /\ fate' = IF n[at].dev = "null" THEN "null_dev" ELSE "stale_dev"
                /\ UNCHANGED <<kernel, net, client, timer, faults>>
           ELSE IF NotReady(r)
           THEN /\ ok /\ ok4 /\ ok6 /\ inbox' = Tail(inbox) /\ net' = upd
                /\ UNCHANGED <<fate, kernel, client, timer, faults>>
           ELSE Apply(upd, at, msg.up, msg.link, Tail(inbox), ok, ok4, ok6)
        /\ UNCHANGED <<udev, deaf, changed, events>>

(* network_mark_interface_ready(), called when udev reports the interface *)
MarkReady(i, ok) ==
    LET k == kernel[i]
        old == ByIndex(net, i)
        n == IF old = 0 THEN Append(net, NewInterface(i, k.mac, k.name)) ELSE net
        at == ByIndex(n, i)
        r == n[at]
        upd == [n EXCEPT ![at].ready = TRUE, ![at].name = k.name]
    IN  /\ fate = "run" /\ i \in udev
        /\ udev' = udev \ {i}
        /\ devs' = IF i \notin Lo /\ old = 0 /\ ByMac(net, k.mac) = 0
                   THEN devs \cup {k.mac} ELSE devs
        /\ IF i \in Lo \/ (old = 0 /\ ByMac(net, k.mac) # 0) \/ r.ready
           THEN ok /\ UNCHANGED <<fate, kernel, inbox, net, client, timer, faults>>
           ELSE IF r.name # k.name /\ r.dev \notin Macs
           THEN /\ ok
                /\ fate' = IF r.dev = "null" THEN "null_dev" ELSE "stale_dev"
                /\ UNCHANGED <<kernel, inbox, net, client, timer, faults>>
           ELSE Apply(upd, at, FALSE, FALSE, inbox, ok, TRUE, TRUE)
        /\ UNCHANGED <<deaf, changed, events>>

(* recvmsg() fails: the callback's error removes the waiter for good. *)
Overflow ==
    /\ fate = "run" /\ ~deaf /\ faults < MaxFaults
    /\ deaf' = TRUE /\ faults' = faults + 1
    /\ UNCHANGED <<fate, kernel, udev, inbox, net, client, devs, timer, changed, events>>

-----------------------------------------------------------------------------
(* process_stop_async() and process_release() of the clients ps, whose      *)
(* callbacks are dropped first                                              *)
Released(ps) == [c \in Clients |-> IF c \in ps
                                   THEN [client[c] EXCEPT !.cb = FALSE, !.held = FALSE]
                                   ELSE client[c]]

(* The timer of the device m has fired: network_requery_device().  The      *)
(* timer is set again by the next lease, or at once for a static interface. *)
Requery(m, ok4, ok6) ==
    LET at == ByMac(net, m)
        ps == IF at = 0 THEN {} ELSE {net[at].p4, net[at].p6} \ {0}
    IN  /\ fate = "run" /\ m \in timer
        /\ timer' = IF at # 0 /\ conf[m] = "static" THEN timer ELSE timer \ {m}
        /\ ~(ok4 /\ ok6) => at # 0 /\ conf[m] \in {"none", "dhcp"}
        /\ faults' = IF ok4 /\ ok6 THEN faults ELSE faults + 1
        /\ faults' <= MaxFaults
        /\ IF \E c \in ps : Freed(c)
           THEN fate' = "stale_process" /\ UNCHANGED <<net, client>>
           ELSE /\ fate' = "run"
                /\ IF at # 0 /\ conf[m] \in {"none", "dhcp"}
                   THEN Room /\ StartDhcp(net, at, Released(ps), ok4, ok6)
                   ELSE client' = Released(ps) /\ UNCHANGED net
        /\ UNCHANGED <<kernel, udev, inbox, deaf, devs, changed, events>>

(* udhcpc_process_exit(): a client that is not the interface's IPv4 client  *)
(* is taken to be its IPv6 client.                                          *)
ClientExit(c) ==
    LET at == ByIndex(net, client[c].own)
    IN  /\ fate = "run" /\ client[c].st = "running"
        /\ client' = [client EXCEPT ![c] = [@ EXCEPT !.st = "done", !.held = FALSE,
                                                     !.own = 0, !.cb = FALSE]]
        /\ IF client[c].cb /\ at = 0
           THEN fate' = "stale_interface" /\ UNCHANGED net
           ELSE /\ fate' = "run"
                /\ net' = IF ~client[c].cb THEN net
                          ELSE IF net[at].p4 = c THEN [net EXCEPT ![at].p4 = 0]
                          ELSE [net EXCEPT ![at].p6 = 0]
        /\ UNCHANGED <<kernel, udev, inbox, deaf, devs, timer, changed, events, faults>>

(* A user removes the device, as the script of udhcpc does when it starts;  *)
(* network_unregister_device() is called.                                   *)
DeviceRemoved(m) ==
    /\ fate = "run" /\ m \in devs
    /\ net' = Unregister(net, m)
    /\ devs' = devs \ {m}
    /\ timer' = timer \ {m}
    /\ UNCHANGED <<fate, kernel, udev, inbox, deaf, client, changed, events, faults>>

(* The client has a lease: its script has the daemon make the device, for   *)
(* which network_register_device() is called, and set the timer.            *)
Leased(m, arm) ==
    LET at == ByMac(net, m)
    IN  /\ fate = "run" /\ at # 0
        /\ \E c \in Clients : client[c].st = "running" /\ client[c].own = net[at].if
        /\ net' = IF m \in devs THEN net ELSE [net EXCEPT ![at].dev = m]
        /\ devs' = devs \cup {m}
        /\ timer' = IF arm THEN timer \cup {m} ELSE timer
        /\ UNCHANGED <<fate, kernel, udev, inbox, deaf, client, changed, events, faults>>

(* network_shutdown() and network_init(), after process_stop_async_all():   *)
(* interfaces that are not ignored are brought down, and the kernel is      *)
(* asked for all of them.  udev reports them again; the configuration may   *)
(* be the reason and be another one.                                        *)
NetReinit ==
    LET down == {i \in Ifs \ Lo : \E r \in Range(net) : r.if = i /\ r.state # "ignored"}
        there == {i \in Ifs : kernel[i].st = "here"}
        ps == UNION {{r.p4, r.p6} : r \in {q \in Range(net) : q.if \in down}} \ {0}
    IN  /\ fate = "run" /\ events < MaxEvents /\ events' = events + 1
        /\ fate' = IF \E c \in ps : Freed(c) THEN "stale_process" ELSE "run"
        /\ kernel' = [i \in Ifs |-> IF i \in down
                                    THEN [kernel[i] EXCEPT !.up = FALSE, !.link = FALSE]
                                    ELSE kernel[i]]
        /\ \E n \in 0..NIfs : \E order \in Bijection(1..n, there) :
              inbox' = [x \in 1..n |-> Message(order[x], kernel')]
        /\ udev' = there \ Lo
        /\ deaf' = FALSE /\ net' = <<>>
        /\ client' = [c \in Clients |-> [client[c] EXCEPT !.cb = FALSE, !.held = FALSE,
                                                          !.own = 0]]
        /\ devs' = {} /\ timer' = {}
        /\ conf' \in Confs /\ UNCHANGED <<changed, faults>>

-----------------------------------------------------------------------------
(* What the kernel does on its own: an interface appears or goes, its link  *)
(* comes and goes, its name and its address are set.                        *)
Kernel(i, k, u) ==
    /\ fate = "run" /\ events < MaxEvents /\ events' = events + 1
    /\ k # kernel[i] /\ kernel' = [kernel EXCEPT ![i] = k]
    /\ inbox' = IF deaf THEN inbox ELSE Append(inbox, Message(i, kernel'))
    /\ udev' = u
    /\ changed' = (changed \/ k.mac # kernel[i].mac)
    /\ UNCHANGED <<fate, deaf, net, client, devs, timer, faults>>

KernelNext(i) ==
    LET k == kernel[i]
        here == k.st = "here"
    IN  \/ k.st = "absent" /\ Kernel(i, [k EXCEPT !.st = "here"],
                                     IF i \in Lo THEN udev ELSE udev \cup {i})
        \/ here /\ i \notin Lo /\ Kernel(i, [k EXCEPT !.st = "gone", !.up = FALSE,
                                                        !.link = FALSE], udev \ {i})
        \/ k.up /\ Kernel(i, [k EXCEPT !.link = ~@], udev)
        \/ here /\ Kernel(i, [k EXCEPT !.name = 1], udev)
        \/ here /\ i \notin Lo /\ \E m \in {Mac[j] : j \in Ifs \ Lo} : Kernel(i, [k EXCEPT !.mac = m], udev)

(* A message with an MTU of zero is taken for the end of the interface. *)
MtuZero(i) ==
    /\ fate = "run" /\ kernel[i].st = "here" /\ faults < MaxFaults /\ ~deaf
    /\ faults' = faults + 1
    /\ inbox' = Append(inbox, [Message(i, kernel) EXCEPT !.del = TRUE])
    /\ UNCHANGED <<fate, kernel, udev, deaf, net, client, devs, timer, changed, events>>

Netlink == LinkDeleted \/ \E ok, ok4, ok6 \in BOOLEAN : Newlink(ok, ok4, ok6)

Udev == \E i \in Ifs, ok \in BOOLEAN : MarkReady(i, ok)

Step ==
    \/ Netlink
    \/ Udev
    \/ Overflow
    \/ \E m \in Macs : \/ \E ok4, ok6 \in BOOLEAN : Requery(m, ok4, ok6)
                       \/ DeviceRemoved(m)
                       \/ \E arm \in BOOLEAN : Leased(m, arm)
    \/ \E c \in Clients : ClientExit(c)
    \/ \E i \in Ifs : KernelNext(i) \/ MtuZero(i)

NetNext == NetReinit \/ (Step /\ UNCHANGED conf)

NetSpec == NetInit /\ [][NetNext]_nvars

-----------------------------------------------------------------------------
(* udev names the interfaces: until it has, network.c neither brings one up *)
(* nor starts DHCP on it, whatever netlink says of it, whatever the order   *)
(* of the two, and whichever devices are queried again meanwhile, as long   *)
(* as addresses do not change.                                              *)
ReadyFirst ==
    fate = "run" /\ ~changed => \A r \in Range(net) :
        r.if \notin Lo /\ (r.state # "new" \/ r.p4 # 0 \/ r.p6 # 0) => r.ready

(* Whichever of netlink and udev comes first, and whatever happens to the   *)
(* link in between: when all they have to say has been read, an interface   *)
(* is ignored, or is up and configured as soon as it has a link, and does   *)
(* not wait for an event that will never come.  Left out are an interface   *)
(* whose address is also that of another one, commands or netlink that have *)
(* failed, and addresses that have changed.                                 *)
InterfaceConfigured ==
    fate = "run" /\ faults = 0 /\ ~changed /\ inbox = <<>> =>
        \A i \in Ifs \ (Lo \cup udev) :
            kernel[i].st = "here" /\ (\A j \in Ifs : Mac[j] = Mac[i] => j = i) =>
                \E r \in Range(net) :
                    /\ r.if = i
                    /\ \/ r.state = "ignored"
                       \/ kernel[i].up /\ (kernel[i].link => r.state = "configured")

(* As long as no interface changes its address, the device that an          *)
(* interface points to is one the handler has: it is forgotten when it is   *)
(* removed, by udev, a user or the interface's own end.                     *)
DevicePointers ==
    fate = "run" /\ ~changed => \A r \in Range(net) : r.dev # "stale"
=============================================================================
