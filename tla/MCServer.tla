------------------------------ MODULE MCServer ------------------------------
(* The two halves of the daemon's client interface, each explored on its own   *)
(* (side): who may change what, with two clients and two passwords, and the    *)
(* bytes of one connection, for every message of AllMessages alone and for     *)
(* short messages one after the other.                                         *)
EXTENDS ServerAuth, Sequences, FiniteSets, TLC
VARIABLES side, whole, script, next, out, chan, rx, got, closed, ended, fault

-----------------------------------------------------------------------------
(* Small sets of each kind of message.                                         *)
Ms == INSTANCE Messages WITH LittleEndian <- TRUE

S == {Ms!NoString, <<>>, <<65, 66>>}

\* Each field of fs holds a text of its own; any two of them are varied.
Base(fs) == [f \in fs |-> <<70 + Cardinality(fs)>>]
Vary(m, fs) == UNION {{[m EXCEPT ![f] = s, ![g] = t] : s \in S, t \in S} : f \in fs, g \in fs}

Of(kind, ms) == {<<kind, m>> : m \in ms}

With(m, more) == m @@ more

Hw == <<1, 2, 3, 4, 5, 6>>

Devices == {With(m, [type |-> t]) : t \in 0 .. 2,
              m \in Vary(Base({"id", "name", "description", "icon_file"}),
                         {"id", "name", "description", "icon_file"})}

Options == {With(m, [is_default |-> d, is_autoboot_default |-> ~d, type |-> 1]) : d \in BOOLEAN,
              m \in Vary(Base(Ms!Range(Ms!OptionStrings)), Ms!Range(Ms!OptionStrings))}

Commands == Vary(Base(Ms!Range(Ms!CommandStrings)), Ms!Range(Ms!CommandStrings))

Statuses == [type : {0, 1}, message : S, backlog : BOOLEAN, boot_active : BOOLEAN]

Plugins == {With(m, [executables |-> e]) :
              e \in {<<>>, <<<<65>>>>, <<<<>>, <<66>>>>},
              m \in Vary(Base(Ms!Range(Ms!PluginStrings)), Ms!Range(Ms!PluginStrings))}

Temps == [boot_type : {0}, type : 0 .. 3]

Auths == [op : {0}, password : S] \cup [op : {1}, authenticated : BOOLEAN]
         \cup [op : {2}, password : S, new_password : S]
         \cup [op : {3}, password : S, device_id : S]

Ifs == [hwaddr : {Hw}, name : S, link : BOOLEAN, address : S, address_v6 : {Ms!NoString, <<65>>}]
Bds == [name : S, uuid : S, mountpoint : {Ms!NoString, <<65>>}]

Info == [type |-> <<65>>, identifier |-> <<66>>, platform_primary |-> <<>>,
         platform_other |-> <<<<67>>>>, bmc_current |-> <<<<68>>, <<69>>>>,
         bmc_golden |-> <<>>, interfaces |-> <<>>, blockdevs |-> <<>>, bmc_mac |-> Ms!NoMac,
         stb_fw_measurement |-> TRUE, stb_fw_enforcing |-> FALSE, stb_os_enforcing |-> TRUE]
SysInfos == {[Info EXCEPT !.identifier = s, !.bmc_golden = <<s>>, !.bmc_mac = mac] :
               s \in S, mac \in {Hw, Ms!NoMac}}
            \cup {[Info EXCEPT !.interfaces = <<i>>] : i \in Ifs}
            \cup {[Info EXCEPT !.interfaces = <<i, i>>, !.blockdevs = <<d>>] :
                    i \in {j \in Ifs : j.link}, d \in Bds}
            \cup {[Info EXCEPT !.blockdevs = <<d, d>>] : d \in Bds}

IfConfs == [hwaddr : {Hw}, ignore : BOOLEAN, method : {0, 1}, address : S,
            gateway : {Ms!NoString, <<65>>}, url : {Ms!NoString, <<66>>}, override : BOOLEAN]
Config == [autoboot_enabled |-> TRUE, autoboot_timeout_sec |-> 10, safe_mode |-> FALSE,
           interfaces |-> <<>>, dns_servers |-> <<>>, http_proxy |-> Ms!NoString,
           https_proxy |-> <<65>>, autoboot_opts |-> <<>>, ipmi_bootdev |-> 5,
           ipmi_bootdev_persistent |-> FALSE, ipmi_bootdev_mailbox |-> TRUE,
           allow_writes |-> TRUE, consoles |-> <<>>, boot_console |-> <<66>>,
           manual_console |-> FALSE, lang |-> Ms!NoString, preboot_check_enabled |-> TRUE]
Opts == {[boot_type |-> 0, type |-> 2]} \cup [boot_type : {1}, uuid : S]
Configs == {[Config EXCEPT !.interfaces = <<i>>] : i \in IfConfs}
           \cup {[Config EXCEPT !.interfaces = <<i, i>>, !.dns_servers = <<s>>] :
                   i \in {j \in IfConfs : ~j.override}, s \in S}
           \cup {[Config EXCEPT !.autoboot_opts = <<o, p>>, !.safe_mode = b,
                                !.autoboot_enabled = ~b] : o \in Opts, p \in Opts, b \in BOOLEAN}
           \cup {[Config EXCEPT !.consoles = <<s, t>>, !.boot_console = s, !.lang = t,
                                !.allow_writes = b, !.manual_console = ~b,
                                !.preboot_check_enabled = b, !.ipmi_bootdev_persistent = b,
                                !.ipmi_bootdev_mailbox = ~b] :
                   s \in S, t \in S, b \in BOOLEAN}

AllMessages ==
    Of("device", Devices) \cup Of("option", Options) \cup Of("boot", Commands)
    \cup Of("status", Statuses) \cup Of("plugin", Plugins) \cup Of("temp", Temps)
    \cup Of("auth", Auths) \cup Of("sysinfo", SysInfos) \cup Of("config", Configs)
    \cup Of("url", [url : S])

MCScripts ==
    {<<m>> : m \in AllMessages}
    \cup {<<<<"url", [url |-> <<65>>]>>, <<"auth", [op |-> 1, authenticated |-> TRUE]>>,
            <<"url", [url |-> <<>>]>>>>}
Cn == INSTANCE Connection WITH
        LittleEndian <- TRUE, MaxPayload <- 120, Capacity <- 20, Scripts <- MCScripts
cvars == <<whole, script, next, out, chan, rx, got, closed, ended, fault>>

\* The connection's state while the other side is explored
Apart == /\ whole = TRUE /\ script = <<>> /\ next = 1 /\ out = <<>> /\ chan = <<>>
         /\ rx = Cn!Idle /\ got = <<>> /\ closed = FALSE /\ ended = FALSE /\ fault = "none"

MCInit ==
    \/ side = "auth" /\ Init /\ Apart
    \/ /\ side = "connection" /\ Cn!Init /\ (whole <=> Len(script) = 1)
       /\ server = "off" /\ restrict = FALSE /\ shadow = Empty /\ nvram = Null
       /\ clients = {} /\ root = {} /\ hung = {} /\ can_modify = {} /\ waiter = {}
       /\ auth_waiter = {} /\ told = {}
MCNext == /\ side' = side
          /\ \/ side = "auth" /\ Next /\ UNCHANGED cvars
             \/ side = "connection" /\ Cn!Next /\ UNCHANGED vars
MCSpec == MCInit /\ [][MCNext]_<<vars, cvars, side>>

Symmetry == Permutations(Clients) \cup Permutations(Passwords)

-----------------------------------------------------------------------------
\* Connection's property: what the reading side is told is what the writing
\* side said.
ReceivedAsSent == side = "connection" => Cn!ReceivedAsSent
=============================================================================
