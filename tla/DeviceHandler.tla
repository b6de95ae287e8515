--------------------------- MODULE DeviceHandler ---------------------------
(***************************************************************************)
(* The registry of devices and boot options of discover/device-handler.c,  *)
(* the events of udev, the network and users that change it, the           *)
(* notifications of discover-server.c, and what a client that reads them   *)
(* (ui/common/discover-client.c) holds.                                    *)
(*                                                                         *)
(* The stream to a client is reliable and ordered, so `view' is the        *)
(* client's state once it has read everything sent so far.  A device is    *)
(* named by its id; Autoboot has the default option and the countdown.     *)
(***************************************************************************)
EXTENDS Naturals, Sequences, FiniteSets, Functions

CONSTANTS
    Block,    \* block devices that are mounted and parsed
    Crypt,    \* LUKS devices
    Inner,    \* the block device that an opened LUKS device maps to
    Net,      \* network interfaces, known by their MAC address
    Local,    \* the id "local", which has no UUID
    Options,  \* boot options that parsers may find
    Owner,    \* the device an option is found on
    Needs,    \* the devices its resources are on, in the order of resolution
    MaxDevices  \* bound on the length of handler->devices

ASSUME OptionAssumption ==
    /\ Block \cap (Crypt \cup Net \cup Local) = {} /\ Crypt \cap (Net \cup Local) = {}
    /\ Inner \in [Crypt -> Block]
    /\ Owner \in [Options -> Block \cup Net \cup Local]
    /\ Needs \in [Options -> Seq(Block)]
    /\ \A o \in Options : Owner[o] \notin Block => Needs[o] = <<>>
    /\ MaxDevices \in Nat

Device == Block \cup Crypt \cup Net \cup Local
Mapped == {Inner[c] : c \in Crypt}

VARIABLES
    phase,       \* "run", or what the process has died of
    devices,     \* handler->devices
    notified,    \* those with device->notified
    found,       \* options on the lists device->boot_options
    unresolved,  \* handler->unresolved_boot_options
    got,         \* how many resources of an option have been resolved
    network,     \* those of Local whose type is DEVICE_TYPE_NETWORK, by default
    ifaces,      \* interfaces in network->interfaces
    requery,     \* devices with device->requery_waiter
    loading,     \* devices whose PXE configuration is being loaded
    url,         \* a configuration URL is being loaded
    stale_load,  \* the same, for devices that have been freed since
    crypts,      \* source devices in handler->crypt_devices
    stale_crypt, \* the same, for devices that have been freed since
    connected,   \* there is a client
    view         \* the entries of its array for a device, and their options

registry == <<devices, notified, found, unresolved, got>>
async == <<network, ifaces, requery, loading, url, stale_load, crypts, stale_crypt>>
vars == <<phase, registry, async, connected, view>>

Present == Range(devices)
Times(d) == Cardinality({i \in DOMAIN devices : devices[i] = d})
OptionsOf(d) == {o \in Options : Owner[o] = d}

Init ==
    /\ phase = "run"
    /\ devices = <<>> /\ notified = {} /\ found = {} /\ unresolved = {}
    /\ got = [o \in Options |-> 0]
    /\ network = {} /\ ifaces = {} /\ requery = {}
    /\ loading = {} /\ stale_load = {} /\ url = FALSE
    /\ crypts = {} /\ stale_crypt = {}
    /\ connected = FALSE /\ view = [d \in Device |-> <<>>]

-----------------------------------------------------------------------------
(* The client: device_add(), device_remove(), boot_option_add()             *)

(* find_device() takes the first entry for a device, so only the order of   *)
(* the entries for one device matters.                                      *)
ViewAdd(v, ds) == [d \in Device |-> IF d \in ds THEN Append(v[d], {}) ELSE v[d]]

ViewRemove(v, d) == IF v[d] = <<>> THEN v ELSE [v EXCEPT ![d] = Tail(@)]

ViewOptions(v, os) ==
    [d \in Device |-> IF v[d] = <<>> THEN v[d]
                     ELSE [v[d] EXCEPT ![1] = @ \cup (os \cap OptionsOf(d))]]

(* assert(dev) in boot_option_add() *)
ViewHas(v, os) == \A o \in os : v[Owner[o]] # <<>>

ToldAdd(v, ds) == IF connected THEN ViewAdd(v, ds) ELSE v
ToldRemove(v, d) == IF connected THEN ViewRemove(v, d) ELSE v

-----------------------------------------------------------------------------
(* Mutant: options of a device that clients do not know are sent alone. *)
NotifyAlone(os, told, v) ==
    /\ notified' = told \cup {Owner[o] : o \in os}
    /\ view' = IF connected THEN ViewOptions(v, os) ELSE v
    /\ phase' = IF connected /\ ~ViewHas(v, os) THEN "client_assert" ELSE "run"

(* notify_boot_option() for every option of os: a device that clients have  *)
(* not been told of goes first.                                             *)
Notify(os, told, v) ==
    LET new == {Owner[o] : o \in os} \ told
    IN  /\ notified' = told \cup new
        /\ view' = IF connected THEN ViewOptions(ToldAdd(v, new), os) ELSE v
        /\ phase' = IF connected /\ ~ViewHas(ToldAdd(v, new), os)
                    THEN "client_assert" ELSE "run"

(* boot_option_resolve(): resources are resolved one after the other, and   *)
(* one that has been resolved stays so.                                     *)
Resolve(o, have) ==
    LET ok(n) == \A i \in got[o] + 1 .. n : Needs[o][i] \in have
    IN  CHOOSE n \in got[o] .. Len(Needs[o]) :
            ok(n) /\ \A m \in n + 1 .. Len(Needs[o]) : ~ok(m)

(* The options of `try' are resolved as far as possible with the devices    *)
(* ds; those that are complete move to their device and are sent to the     *)
(* clients, the others go to the queue.                                     *)
Offer(try, ds, told, v) ==
    /\ got' = [o \in Options |-> IF o \in try THEN Resolve(o, Range(ds)) ELSE got[o]]
    /\ found' = found \cup {o \in try : got'[o] = Len(Needs[o])}
    /\ unresolved' = (unresolved \cup try) \ found'
    /\ Notify(try \cap found', told, v)

(* Options of d that a parser may create now *)
Fresh(d) == SUBSET (OptionsOf(d) \ (found \cup unresolved))

(* The test of device_handler_discover_context_commit(): only a UUID tells  *)
(* that the device is there already.                                        *)
Add(ds, d) == IF d \in Range(ds) \ Local THEN ds ELSE Append(ds, d)

(* network_register_device() and network_unregister_device() compare the    *)
(* label or the UUID of a device, neither of which a device created from a  *)
(* bare name has, with every interface.                                     *)
NullName(d, nets) == d \in nets /\ ifaces # {}

(* device_handler_discover_context_commit(), n times for the same device    *)
Commit(d, os, n, nets) ==
    LET ds == IF n = 1 THEN Add(devices, d) ELSE Add(Add(devices, d), d)
    IN  IF NullName(d, nets)
        THEN phase' = "null_name" /\ UNCHANGED <<registry, view>>
        ELSE /\ Len(ds) <= MaxDevices
             /\ devices' = ds
             /\ Offer(os, ds, notified, view)

(* Mutant: the queue is left alone. *)
DiscoverNoQueue(d, os, ds, told, v) ==
    /\ Len(Add(ds, d)) <= MaxDevices
    /\ devices' = Add(ds, d)
    /\ Offer(os, Add(ds, d), told, v)

(* device_handler_discover() of a device that could be mounted: a commit,   *)
(* then process_boot_option_queue()                                         *)
Discover(d, os, ds, told, v) ==
    /\ Len(Add(ds, d)) <= MaxDevices
    /\ devices' = Add(ds, d)
    /\ Offer(os \cup unresolved, Add(ds, d), told, v)

(* The options of a device are freed, resolved or not. *)
Forget(d) ==
    /\ found' = found \ OptionsOf(d)
    /\ got' = [o \in Options |-> IF Owner[o] = d THEN 0 ELSE got[o]]
    /\ unresolved' = unresolved \ OptionsOf(d)

(* Mutant: the timer of the device is left alone. *)
AbandonKeepsTimer(d) ==
    /\ requery' = requery
    /\ loading' = loading \ {d}
    /\ stale_load' = stale_load \cup (loading \cap {d})
    /\ crypts' = crypts \ {d}
    /\ stale_crypt' = stale_crypt \cup (crypts \cap {d})
    /\ network' = network \ {d}

(* The device is freed and its timer removed; whoever else points to it     *)
(* does not hear of it.                                                     *)
Abandon(d) ==
    /\ requery' = requery \ {d}
    /\ loading' = loading \ {d}
    /\ stale_load' = stale_load \cup (loading \cap {d})
    /\ crypts' = crypts \ {d}
    /\ stale_crypt' = stale_crypt \cup (crypts \cap {d})
    /\ network' = network \ {d}

(* The first entry for the device is taken out and the rest moved down. *)
Without(ds, d) ==
    LET at == {i \in DOMAIN ds : ds[i] = d}
        i  == CHOOSE n \in at : \A m \in at : n <= m
    IN  IF at = {} THEN ds ELSE SubSeq(ds, 1, i - 1) \o SubSeq(ds, i + 1, Len(ds))

(* device_handler_remove() of a device that is in the array.  An entry that *)
(* is left there for the same device is read by the next lookup.            *)
Drop(d) ==
    /\ devices' = Without(devices, d)
    /\ Forget(d)
    /\ Abandon(d)
    /\ notified' = notified \ {d}
    /\ view' = IF d \in notified THEN ToldRemove(view, d) ELSE view
    /\ phase' = IF NullName(d, network) THEN "null_name"
                ELSE IF d \in Range(devices') THEN "dangling" ELSE "run"

-----------------------------------------------------------------------------
(* udev_handle_block_add() of a device that can be mounted and parsed; one  *)
(* that is known already is skipped, and one that cannot be mounted changes *)
(* nothing.                                                                 *)
BlockAdd(d, os) ==
    /\ phase = "run" /\ d \notin Present \cup Mapped
    /\ Discover(d, os, devices, notified, view)
    /\ UNCHANGED <<async, connected>>

(* udev_handle_block_add() of an encrypted device *)
CryptAdd(d) ==
    /\ phase = "run" /\ d \notin Present
    /\ Len(devices) < MaxDevices
    /\ devices' = Append(devices, d)
    /\ notified' = notified \cup {d}
    /\ view' = ToldAdd(view, {d})
    /\ UNCHANGED <<phase, found, unresolved, got, async, connected>>

(* device_handler_open_encrypted_dev(); one attempt per device at a time *)
OpenEncrypted(d) ==
    /\ phase = "run" /\ d \in Present \ crypts
    /\ crypts' = crypts \cup {d}
    /\ UNCHANGED <<phase, registry, network, ifaces, requery, loading, url,
                   stale_load, stale_crypt, connected, view>>

(* cryptsetup_cb() of a cryptsetup that failed *)
OpenFailed(d) ==
    /\ phase = "run" /\ d \in crypts \cup stale_crypt
    /\ IF d \in crypts THEN crypts' = crypts \ {d} /\ UNCHANGED stale_crypt
       ELSE stale_crypt' = stale_crypt \ {d} /\ UNCHANGED crypts
    /\ UNCHANGED <<phase, registry, network, ifaces, requery, loading, url,
                   stale_load, connected, view>>

(* udev_handle_block_add() of the device that cryptsetup has mapped, if it  *)
(* can be mounted: device_handler_found_crypt_device() removes the source.  *)
CryptMapped(d, os) ==
    /\ phase = "run" /\ d \in crypts /\ Inner[d] \notin Present
    /\ Discover(Inner[d], os, Without(devices, d), notified \ {d},
                ToldRemove(view, d))
    /\ crypts' = crypts \ {d}
    /\ UNCHANGED <<network, ifaces, requery, loading, url, stale_load,
                   stale_crypt, connected>>

(* The same, if it is skipped or cannot be mounted *)
CryptMappedSkip(d) ==
    /\ phase = "run" /\ d \in crypts
    /\ devices' = Without(devices, d)
    /\ notified' = notified \ {d}
    /\ view' = ToldRemove(view, d)
    /\ crypts' = crypts \ {d}
    /\ UNCHANGED <<phase, found, unresolved, got, network, ifaces, requery,
                   loading, url, stale_load, stale_crypt, connected>>

(* The same, when the source has been removed while it was being opened *)
CryptMappedStale(d) ==
    /\ phase = "run" /\ d \in stale_crypt
    /\ phase' = "stale_source"
    /\ UNCHANGED <<registry, async, connected, view>>

(* user_event_add() for a device that is known, or new: a network device by *)
(* its MAC address, any other by its bare name                              *)
UserAdd(d, os) ==
    LET nets == network \cup ({d} \cap (Local \ Present))
    IN  /\ phase = "run" /\ (d \in Block \cup Crypt => d \in Present)
        /\ network' = nets
        /\ Commit(d, os, 1, nets)
        /\ UNCHANGED <<ifaces, requery, loading, url, stale_load, crypts,
                       stale_crypt, connected>>

(* udev_handle_dev_remove(), user_event_remove().  Device mapper devices go *)
(* by another name in udev and are removed by users only.                   *)
DeviceRemove(d) ==
    /\ phase = "run" /\ d \in Present
    /\ Drop(d)
    /\ UNCHANGED <<ifaces, url, connected>>

(* A message of netlink, or network_mark_interface_ready(), for an          *)
(* interface that is new or has lost its device: create_interface_dev()     *)
(* adds the device without a look at those that are there.                  *)
InterfaceAdd(n) ==
    /\ phase = "run" /\ (n \notin ifaces \/ n \notin Present)
    /\ Len(devices) < MaxDevices
    /\ ifaces' = ifaces \cup {n}
    /\ devices' = Append(devices, n)
    /\ UNCHANGED <<phase, notified, found, unresolved, got, network, requery,
                   loading, url, stale_load, crypts, stale_crypt, connected, view>>

(* remove_interface() *)
InterfaceRemove(n) ==
    /\ phase = "run" /\ n \in ifaces
    /\ IF n \in Present THEN Drop(n)
       ELSE UNCHANGED <<phase, registry, network, requery, loading, stale_load,
                        crypts, stale_crypt, view>>
    /\ ifaces' = ifaces \ {n}
    /\ UNCHANGED <<url, connected>>

(* device_handler_dhcp(), with or without a requery timeout, and            *)
(* device_handler_process_url() for a directory: pxe_parse() starts to load *)
(* the configuration.  One load per device at a time.                       *)
Dhcp(n, arm) ==
    /\ phase = "run" /\ n \notin loading
    /\ Commit(n, {}, 1, network)
    /\ requery' = IF arm THEN requery \cup {n} ELSE requery
    /\ loading' = loading \cup {n}
    /\ UNCHANGED <<network, ifaces, url, stale_load, crypts, stale_crypt, connected>>

(* pxe_conf_parse_cb(): a configuration has been loaded *)
PxeLoaded(n, os) ==
    /\ phase = "run" /\ n \in loading
    /\ Commit(n, os, 1, network)
    /\ loading' = loading \ {n}
    /\ UNCHANGED <<network, ifaces, requery, url, stale_load, crypts,
                   stale_crypt, connected>>

(* pxe_conf_parse_cb(): no file name is left *)
PxeFailed(n) ==
    /\ phase = "run" /\ n \in loading
    /\ loading' = loading \ {n}
    /\ UNCHANGED <<phase, registry, network, ifaces, requery, url, stale_load,
                   crypts, stale_crypt, connected, view>>

(* The same callback, both ways, reads conf->dc->device, which is gone *)
PxeStale(n) ==
    /\ phase = "run" /\ n \in stale_load
    /\ phase' = "stale_device"
    /\ UNCHANGED <<registry, async, connected, view>>

(* device_handler_process_url() for a local file.  load_url_async() calls   *)
(* pxe_conf_parse_cb() at once: if the file can be read the context is      *)
(* committed there, and once more on return.                                *)
UrlLocal(d, os, read) ==
    /\ phase = "run" /\ (read \/ os = {})
    /\ network' = network \ {d}
    /\ Commit(d, os, IF read THEN 2 ELSE 1, network \ {d})
    /\ UNCHANGED <<ifaces, requery, loading, url, stale_load, crypts,
                   stale_crypt, connected>>

(* device_handler_process_url() for a remote file; one at a time *)
UrlStart ==
    /\ phase = "run" /\ ~url
    /\ url' = TRUE
    /\ UNCHANGED <<phase, registry, network, ifaces, requery, loading,
                   stale_load, crypts, stale_crypt, connected, view>>

(* process_url_cb(): the file belongs to the device of the interface it     *)
(* came from, or to "local" if there is no route to tell.  A new device has *)
(* no name that network_register_device() can compare.  The local copy is   *)
(* parsed, with the two commits of UrlLocal.                                *)
UrlLoaded(d, os) ==
    /\ phase = "run" /\ url /\ ifaces # {} /\ d \in ifaces \cup Local
    /\ url' = FALSE
    /\ IF d \in Present THEN Commit(d, os, 2, network)
       ELSE /\ phase' = IF d \in Local THEN "null_local" ELSE "null_name"
            /\ UNCHANGED <<registry, view>>
    /\ UNCHANGED <<network, ifaces, requery, loading, stale_load, crypts,
                   stale_crypt, connected>>

UrlFailed ==
    /\ phase = "run" /\ url
    /\ url' = FALSE
    /\ UNCHANGED <<phase, registry, network, ifaces, requery, loading,
                   stale_load, crypts, stale_crypt, connected, view>>

(* device_handler_requery_timeout_fn(): the options are dropped, the device *)
(* is kept.  An interface with a static configuration has its URL loaded    *)
(* `again', and the timer with it; DHCP is restarted for any other.         *)
Requery(n, again) ==
    /\ phase = "run" /\ n \in requery
    /\ again => n \in ifaces /\ ~url
    /\ Forget(n)
    /\ view' = ToldRemove(view, n)
    /\ notified' = notified \ {n}
    /\ requery' = IF again THEN requery ELSE requery \ {n}
    /\ url' = (url \/ again)
    /\ UNCHANGED <<phase, devices, network, ifaces, loading, stale_load, crypts,
                   stale_crypt, connected>>

(* device_handler_reinit(): jobs are stopped, their callbacks with them,    *)
(* and every entry of the array is freed.                                   *)
Reinit ==
    /\ phase = "run"
    /\ phase' = IF IsInjective(devices) THEN "run" ELSE "double_free"
    /\ devices' = <<>> /\ notified' = {} /\ found' = {} /\ unresolved' = {}
    /\ got' = [o \in Options |-> 0]
    /\ network' = {} /\ ifaces' = {} /\ requery' = {} /\ loading' = {}
    /\ url' = FALSE /\ stale_load' = {} /\ crypts' = {} /\ stale_crypt' = {}
    /\ view' = IF connected
               THEN [d \in Device |-> SubSeq(view[d], Times(d) + 1, Len(view[d]))]
               ELSE view
    /\ UNCHANGED connected

(* discover_server_process_connection(): a client gets every device in the  *)
(* array, whether clients have been told of it or not, and its options.     *)
Connect ==
    /\ phase = "run" /\ ~connected
    /\ connected' = TRUE
    /\ view' = ViewOptions([d \in Device |-> [i \in 1..Times(d) |-> {}]], found)
    /\ UNCHANGED <<phase, registry, async>>

Disconnect ==
    /\ phase = "run" /\ connected
    /\ connected' = FALSE
    /\ view' = [d \in Device |-> <<>>]
    /\ UNCHANGED <<phase, registry, async>>

BlockNext ==
    \/ \E d \in Block : \E os \in Fresh(d) : BlockAdd(d, os)
    \/ \E d \in Crypt : \/ CryptAdd(d)
                        \/ OpenEncrypted(d)
                        \/ OpenFailed(d)
                        \/ CryptMappedSkip(d)
                        \/ CryptMappedStale(d)
                        \/ \E os \in Fresh(Inner[d]) : CryptMapped(d, os)

NetNext ==
    \/ \E n \in Net : \/ InterfaceAdd(n)
                      \/ InterfaceRemove(n)
                      \/ PxeFailed(n)
                      \/ PxeStale(n)
                      \/ \E arm \in BOOLEAN : Dhcp(n, arm) \/ Requery(n, arm)
                      \/ \E os \in Fresh(n) : PxeLoaded(n, os)
    \/ \E d \in Local, read \in BOOLEAN : \E os \in Fresh(d) : UrlLocal(d, os, read)
    \/ UrlStart
    \/ UrlFailed
    \/ \E d \in Net \cup Local : \E os \in Fresh(d) : UrlLoaded(d, os)

Next ==
    \/ BlockNext
    \/ NetNext
    \/ \E d \in Device : DeviceRemove(d) \/ \E os \in Fresh(d) : UserAdd(d, os)
    \/ Reinit
    \/ Connect
    \/ Disconnect

Spec == Init /\ [][Next]_vars

-----------------------------------------------------------------------------
(* The state has the shape of the program's structures, and no option is    *)
(* both on a device and in the queue: list_remove() precedes every          *)
(* list_add() of device_handler_discover_context_commit() and of            *)
(* process_boot_option_queue().                                             *)
TypeOK ==
    /\ phase \in {"run", "null_name", "null_local", "dangling", "double_free",
                  "stale_device", "stale_source", "client_assert"}
    /\ devices \in Seq(Device) /\ notified \subseteq Device
    /\ found \subseteq Options /\ unresolved \subseteq Options \ found
    /\ \A o \in Options : got[o] \in 0 .. Len(Needs[o])
    /\ network \subseteq Local /\ ifaces \subseteq Net
    /\ requery \subseteq Net /\ loading \subseteq Net /\ stale_load \subseteq Net
    /\ crypts \subseteq Crypt /\ stale_crypt \subseteq Crypt
    /\ url \in BOOLEAN /\ connected \in BOOLEAN
    /\ view \in [Device -> Seq(SUBSET Options)]

(* A client gets every option after the device it is on: the assertion of   *)
(* boot_option_add() in ui/common/discover-client.c never fails, whatever   *)
(* has been added, removed and queried again since the client connected.    *)
ClientAssertion == phase # "client_assert"

(* What a client shows is what the server holds: once it has read all it    *)
(* was sent it has exactly the options on the server's devices, each under  *)
(* its own device, though devices come, go, are queried again and are told  *)
(* of twice.                                                                *)
OptionsAgree ==
    phase = "run" /\ connected =>
        \A d \in Device : UNION Range(view[d]) = found \cap OptionsOf(d)

(* The two statements above: messages reach a client in an order it can     *)
(* follow, and leave it with the options there are.                         *)
ClientsAgree == ClientAssertion /\ OptionsAgree

(* No option waits for what is there: the next resource that an option in   *)
(* the queue needs is on a device that the handler does not have, because   *)
(* process_boot_option_queue() runs whenever a block device arrives.        *)
QueueFresh ==
    phase = "run" =>
        \A o \in unresolved : Needs[o][got[o] + 1] \notin Present

(* Options do not outlive their device: device_handler_remove(), a requery  *)
(* and a reinit free those in the queue as well, which belong to the        *)
(* handler and point to the device.                                         *)
NoOrphanOption ==
    phase = "run" => \A o \in found \cup unresolved : Owner[o] \in Present

(* The timer of device_handler_requery_timeout_fn() never fires for a       *)
(* device that has been freed.                                              *)
TimerHasDevice == phase = "run" => requery \subseteq Present

(* The two statements above: whatever removes, queries again or             *)
(* reinitialises a device takes along what points to it.                    *)
PointersAlive == NoOrphanOption /\ TimerHasDevice

(* "Bad talloc magic value - double free" (lib/talloc/talloc.c) is asserted *)
(* never to happen: device_handler_reinit() frees every device once.        *)
NoDoubleFree == phase # "double_free"

(* The comment in copy_context() of pxe-parser.c: what the callback needs   *)
(* persists until the last callback completes.                              *)
CallbackContextAlive == phase # "stale_device"

(* process_url_cb() goes on with a file whose interface it cannot find,     *)
(* "pretending it was local".                                               *)
PretendLocal == phase # "null_local"

(* discover-client.h: the devices of a client are "the set of devices that  *)
(* have been added and not removed".                                        *)
NoGhostDevices ==
    phase = "run" /\ connected => \A d \in Device : view[d] # <<>> => d \in Present
=============================================================================
