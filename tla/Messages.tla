------------------------------ MODULE Messages ------------------------------
(***************************************************************************)
(* The messages of the UI protocol (lib/pb-protocol/pb-protocol.c).  Three *)
(* hand-written functions exist for each kind of message and have to       *)
(* agree: one computes the payload's length, one writes the payload and    *)
(* one reads it.  A payload is a sequence of bytes.  A string is a         *)
(* sequence of characters 1..255, and NoString the absent one.                 *)
(***************************************************************************)
EXTENDS Integers, SequencesExt

CONSTANT LittleEndian   \* the byte order of the machine

NoString == <<-1>>
Unwritten == -2         \* a payload byte that nobody wrote

StrLen(s) == IF s = NoString THEN 0 ELSE Len(s)

StrsLen(ss) == FoldLeft(LAMBDA n, s : n + 4 + StrLen(s), 0, ss)

SumOf(Op(_), s) == FoldLeft(LAMBDA n, e : n + Op(e), 0, s)

-----------------------------------------------------------------------------
(* Writing *)

Be32(n) == <<0, 0, 0, n>>

Raw32(n) == IF LittleEndian THEN <<n, 0, 0, 0>> ELSE <<0, 0, 0, n>>

ToInt(b) == IF b THEN 1 ELSE 0

Bool(b) == <<ToInt(b)>>

Str(s) == Be32(StrLen(s)) \o (IF s = NoString THEN <<>> ELSE s)

Strs(ss) == FlattenSeq([i \in DOMAIN ss |-> Str(ss[i])])

Each(Op(_), s) == FlattenSeq([i \in DOMAIN s |-> Op(s[i])])

Counted(Op(_), s) == Be32(Len(s)) \o Each(Op, s)

-----------------------------------------------------------------------------
(* Reading.  A reader is at byte pos of its payload and believes that len  *)
(* bytes are left; v is what it has read.  over: it read past the payload. *)

Reader(b) == [b |-> b, pos |-> 0, len |-> Len(b), ok |-> TRUE, over |-> FALSE,
              v |-> <<>>]

Fail(r) == [r EXCEPT !.ok = FALSE]

Byte(r, i) == r.b[r.pos + i]

Holds(r, n) == r.pos + n <= Len(r.b)

Advance(r, n, f, val) ==
    [r EXCEPT !.pos = @ + n, !.len = @ - n, !.v = (f :> val) @@ @]

\* A read that checks the length it keeps first.
Take(r, n, f, val) ==
    IF ~r.ok \/ r.len < n THEN Fail(r)
    ELSE IF ~Holds(r, n) THEN [Fail(r) EXCEPT !.over = TRUE]
    ELSE Advance(r, n, f, val)

U32(r) == Byte(r, 1) * 2^24 + Byte(r, 2) * 2^16 + Byte(r, 3) * 2^8 + Byte(r, 4)

ReadU32(r, f) == Take(r, 4, f, U32(r))

\* !! of a word that was written in the machine's own order.
ReadFlag(r, f) == Take(r, 4, f, U32(r) # 0)

\* A word read, as it was written, in the machine's own order.
ReadRaw(r, f) ==
    IF r.ok THEN Take(r, 4, f, Byte(r, IF LittleEndian THEN 1 ELSE 4)) ELSE r

\* An empty string is read as NULL.
ReadString(r, f) ==
    IF ~r.ok \/ r.len < 4 \/ ~Holds(r, 4) THEN Take(r, 4, f, NoString)
    ELSE LET n == U32(r)
         IN  Take(r, 4 + n, f,
                  IF n = 0 THEN NoString
                  ELSE SubSeq(r.b, r.pos + 5, r.pos + 4 + n))

\* Bytes read with no look at, or change of, the length.
ReadBlind(r, n, f, val) ==
    IF ~r.ok THEN r
    ELSE IF ~Holds(r, n) THEN [Fail(r) EXCEPT !.over = TRUE]
    ELSE [Advance(r, n, f, val) EXCEPT !.len = r.len]

ReadBool(r, f) ==
    IF ~r.ok THEN r
    ELSE IF ~Holds(r, 1) THEN [Fail(r) EXCEPT !.over = TRUE]
    ELSE Advance(r, 1, f, Byte(r, 1) # 0)

\* The link flag of an interface and the flags of a status message.
ReadBoolBlind(r, f) == [ReadBool(r, f) EXCEPT !.len = r.len]

ReadStrings(r, fs) == FoldLeft(ReadString, r, fs)

\* A count, then that many elements, each read by Op from an empty record.
ReadCounted(Op(_), r, f) ==
    LET c == ReadU32(r, "count")
        one(a, i) == LET e == Op([a.r EXCEPT !.v = <<>>])
                     IN  [r |-> e, vs |-> Append(a.vs, e.v)]
        all == FoldLeft(one, [r |-> c, vs |-> <<>>], [i \in 1 .. c.v["count"] |-> i])
    IN  IF ~c.ok THEN c
        ELSE [all.r EXCEPT !.v = (f :> all.vs) @@ r.v]

ReadOneString(r) == ReadString(r, "s")

StringsIn(ss) == [i \in DOMAIN ss |-> [s |-> ss[i]]]

-----------------------------------------------------------------------------
(* The kinds of message, each with its three functions *)

OptionStrings == <<"device_id", "id", "name", "description", "icon_file",
                   "boot_image_file", "initrd_file", "dtb_file", "boot_args",
                   "args_sig_file">>
CommandStrings == <<"option_id", "boot_image_file", "initrd_file", "dtb_file",
                    "boot_args", "args_sig_file", "console">>
PluginStrings == <<"id", "name", "vendor", "vendor_id", "version", "date",
                   "plugin_file">>

Fields(m, fs) == [i \in DOMAIN fs |-> m[fs[i]]]

DeviceLen(m) == StrsLen(<<m.id, m.name, m.description, m.icon_file>>) + 4
SerialiseDevice(m) ==
    Str(m.id) \o Raw32(m.type) \o Strs(<<m.name, m.description, m.icon_file>>)
DeserialiseDevice(r) ==
    ReadStrings(ReadRaw(ReadString(r, "id"), "type"), <<"name", "description", "icon_file">>)

BootOptionLen(m) == StrsLen(Fields(m, OptionStrings)) + 1 + 1 + 4
SerialiseBootOption(m) ==
    Strs(Fields(m, OptionStrings))
    \o Bool(m.is_default) \o Bool(m.is_autoboot_default) \o Be32(m.type)
DeserialiseBootOption(r) ==
    LET s == ReadStrings(r, OptionStrings)
        b == ReadBool(ReadBool(s, "is_default"), "is_autoboot_default")
    IN  IF s.ok /\ s.len < 1 THEN Fail(s) ELSE ReadU32(b, "type")

BootLen(m) == StrsLen(Fields(m, CommandStrings))
SerialiseBootCommand(m) == Strs(Fields(m, CommandStrings))
DeserialiseBootCommand(r) == ReadStrings(r, CommandStrings)

BootStatusLen(m) == 4 + 4 + StrLen(m.message) + 4 + 4
SerialiseBootStatus(m) ==
    Be32(m.type) \o Str(m.message) \o Bool(m.backlog) \o Bool(m.boot_active)
DeserialiseBootStatus(r) ==
    LET t == ReadU32(r, "type")
    IN  IF t.ok /\ t.v["type"] \notin {0, 1} THEN Fail(t)
        ELSE ReadBoolBlind(ReadBoolBlind(ReadString(t, "message"), "backlog"), "boot_active")

UrlLen(m) == 4 + StrLen(m.url)
SerialiseUrl(m) == Str(m.url)
DeserialiseUrl(r) == ReadString(r, "url")

PluginOptionLen(m) == StrsLen(Fields(m, PluginStrings)) + 4 + StrsLen(m.executables)
SerialisePluginOption(m) == Strs(Fields(m, PluginStrings)) \o Counted(Str, m.executables)
DeserialisePluginOption(r) ==
    ReadCounted(ReadOneString, ReadStrings(r, PluginStrings), "executables")

\* boot_type 0 is BOOT_DEVICE_TYPE; a UUID's length word is not counted.
TempAutobootLen(m) == 4 + (IF m.boot_type = 0 THEN 4 ELSE StrLen(m.uuid))
SerialiseTempAutoboot(m) ==
    Be32(m.boot_type) \o (IF m.boot_type = 0 THEN Be32(m.type) ELSE Str(m.uuid))
DeserialiseTempAutoboot(r) ==
    LET t == ReadU32(r, "boot_type")
    IN  CASE t.ok /\ t.v["boot_type"] = 0 -> ReadU32(t, "type")
          [] t.ok /\ t.v["boot_type"] = 1 -> ReadString(t, "uuid")
          [] OTHER -> Fail(t)

AuthStrings(op) == CASE op = 0 -> <<"password">>
                     [] op = 2 -> <<"password", "new_password">>
                     [] op = 3 -> <<"password", "device_id">>
AuthenticateLen(m) ==
    4 + (IF m.op = 1 THEN 4 ELSE StrsLen(Fields(m, AuthStrings(m.op))))
SerialiseAuthenticate(m) ==
    Raw32(m.op)
    \o (IF m.op = 1 THEN Bool(m.authenticated) ELSE Strs(Fields(m, AuthStrings(m.op))))
DeserialiseAuthenticate(r) ==
    LET t == ReadBlind(r, 4, "op", Byte(r, IF LittleEndian THEN 1 ELSE 4))
    IN  IF t.v["op"] = 1 THEN ReadBoolBlind(t, "authenticated")
        ELSE IF t.v["op"] \in {0, 2, 3} THEN ReadStrings(t, AuthStrings(t.v["op"]))
        ELSE Fail(t)

-----------------------------------------------------------------------------
(* System information *)

HwaddrSize == 6
Versions == <<"platform_primary", "platform_other", "bmc_current", "bmc_golden">>
StbFlags == <<"stb_fw_measurement", "stb_fw_enforcing", "stb_os_enforcing">>
NoMac == [i \in 1 .. HwaddrSize |-> 0]

InterfaceInfoLen(i) == 4 + Len(i.hwaddr) + StrsLen(<<i.name>>) + 1
                       + StrsLen(<<i.address, i.address_v6>>)
SerialiseInterfaceInfo(i) ==
    Be32(Len(i.hwaddr)) \o i.hwaddr \o Str(i.name) \o Bool(i.link)
    \o Strs(<<i.address, i.address_v6>>)
DeserialiseInterfaceInfo(r) ==
    LET n == ReadU32(r, "size")
        size == n.v["size"]
        mac == Take(n, size, "hwaddr", SubSeq(n.b, n.pos + 1, n.pos + size))
        link == ReadBoolBlind(ReadString(mac, "name"), "link")
    IN  IF ~n.ok THEN n
        ELSE LET e == ReadStrings(link, <<"address", "address_v6">>)
             IN  [e EXCEPT !.v = [f \in DOMAIN @ \ {"size"} |-> @[f]]]

BlockdevStrings == <<"name", "uuid", "mountpoint">>

SystemInfoLen(m) ==
    StrsLen(<<m.type, m.identifier>>) + 4 + 4
    + SumOf(LAMBDA f : 4 + StrsLen(m[f]), Versions)
    + HwaddrSize
    + SumOf(InterfaceInfoLen, m.interfaces)
    + SumOf(LAMBDA d : StrsLen(Fields(d, BlockdevStrings)), m.blockdevs)
    + 3
SerialiseSystemInfo(m) ==
    Strs(<<m.type, m.identifier>>)
    \o Each(LAMBDA f : Counted(Str, m[f]), Versions)
    \o Counted(SerialiseInterfaceInfo, m.interfaces)
    \o Counted(LAMBDA d : Strs(Fields(d, BlockdevStrings)), m.blockdevs)
    \o m.bmc_mac
    \o Each(LAMBDA f : Bool(m[f]), StbFlags)
DeserialiseSystemInfo(r) ==
    LET versions == FoldLeft(LAMBDA a, f : ReadCounted(ReadOneString, a, f),
                             ReadStrings(r, <<"type", "identifier">>), Versions)
        ifs == ReadCounted(DeserialiseInterfaceInfo, versions, "interfaces")
        bds == ReadCounted(LAMBDA a : ReadStrings(a, BlockdevStrings), ifs, "blockdevs")
        mac == ReadBlind(bds, HwaddrSize, "bmc_mac",
                         SubSeq(bds.b, bds.pos + 1, bds.pos + HwaddrSize))
    IN  FoldLeft(ReadBoolBlind, mac, StbFlags)

-----------------------------------------------------------------------------
(* The configuration *)

StaticStrings == <<"address", "gateway", "url">>

InterfaceConfigLen(c) ==
    HwaddrSize + 4
    + (IF c.ignore THEN 0
       ELSE 4 + 4 + IF c.method = 1 THEN StrsLen(Fields(c, StaticStrings)) ELSE 0)
SerialiseConfigInterface(c) ==
    c.hwaddr \o Raw32(ToInt(c.ignore))
    \o (IF c.ignore THEN <<>>
        ELSE Be32(c.method)
             \o (IF c.method = 1 THEN Strs(Fields(c, StaticStrings)) ELSE <<>>)
             \o Raw32(ToInt(c.override)))
\* The override mark is read before the addresses.
DeserialiseConfigInterfaceSwapped(r) ==
    LET mac == Take(r, HwaddrSize, "hwaddr", SubSeq(r.b, r.pos + 1, r.pos + HwaddrSize))
        ign == ReadFlag(mac, "ignore")
        how == ReadFlag(ReadU32(ign, "method"), "override")
    IN  IF ~ign.ok \/ ign.v["ignore"] \/ ~how.ok THEN how
        ELSE IF how.v["method"] = 1 THEN ReadStrings(how, StaticStrings) ELSE how

DeserialiseConfigInterface(r) ==
    LET mac == Take(r, HwaddrSize, "hwaddr", SubSeq(r.b, r.pos + 1, r.pos + HwaddrSize))
        ign == ReadFlag(mac, "ignore")
        how == ReadU32(ign, "method")
        addr == IF how.ok /\ how.v["method"] = 1 THEN ReadStrings(how, StaticStrings) ELSE how
    IN  IF ign.ok /\ ign.v["ignore"] THEN ign ELSE ReadFlag(addr, "override")

AutobootOptLen(o) == 4 + (IF o.boot_type = 0 THEN 4 ELSE 4 + StrLen(o.uuid))
SerialiseAutobootOpt(o) ==
    Be32(o.boot_type) \o (IF o.boot_type = 0 THEN Be32(o.type) ELSE Str(o.uuid))
DeserialiseAutobootOpt(r) ==
    LET t == ReadU32(r, "boot_type")
    IN  IF t.ok /\ t.v["boot_type"] = 0 THEN ReadU32(t, "type") ELSE ReadString(t, "uuid")

ConfigLen(m) ==
    4 + 4 + 4
    + 4 + SumOf(InterfaceConfigLen, m.interfaces)
    + 4 + StrsLen(m.dns_servers)
    + StrsLen(<<m.http_proxy, m.https_proxy>>)
    + 4 + SumOf(AutobootOptLen, m.autoboot_opts)
    + 4 + 4 + 4 + 4
    + 4 + StrsLen(m.consoles)
    + StrsLen(<<m.boot_console>>) + 4 + StrsLen(<<m.lang>>) + 4
Flag(b) == Raw32(ToInt(b))
SerialiseConfig(m) ==
    Flag(m.autoboot_enabled) \o Be32(m.autoboot_timeout_sec) \o Flag(m.safe_mode)
    \o Counted(SerialiseConfigInterface, m.interfaces)
    \o Counted(Str, m.dns_servers)
    \o Strs(<<m.http_proxy, m.https_proxy>>)
    \o Counted(SerialiseAutobootOpt, m.autoboot_opts)
    \o Be32(m.ipmi_bootdev) \o Flag(m.ipmi_bootdev_persistent)
    \o Flag(m.ipmi_bootdev_mailbox) \o Flag(m.allow_writes)
    \o Counted(Str, m.consoles)
    \o Str(m.boot_console) \o Flag(m.manual_console) \o Str(m.lang)
    \o Flag(m.preboot_check_enabled)
DeserialiseConfig(r) ==
    LET head == ReadFlag(ReadU32(ReadFlag(r, "autoboot_enabled"), "autoboot_timeout_sec"),
                         "safe_mode")
        net == ReadCounted(ReadOneString,
                   ReadCounted(DeserialiseConfigInterface, head, "interfaces"), "dns_servers")
        order == ReadCounted(DeserialiseAutobootOpt,
                     ReadStrings(net, <<"http_proxy", "https_proxy">>), "autoboot_opts")
        ipmi == FoldLeft(ReadFlag, ReadU32(order, "ipmi_bootdev"),
                         <<"ipmi_bootdev_persistent", "ipmi_bootdev_mailbox", "allow_writes">>)
        cons == ReadString(ReadCounted(ReadOneString, ipmi, "consoles"), "boot_console")
    IN  ReadFlag(ReadString(ReadFlag(cons, "manual_console"), "lang"), "preboot_check_enabled")

-----------------------------------------------------------------------------
(* A message of any kind *)

PayloadLen(kind, m) ==
    CASE kind = "device" -> DeviceLen(m)
      [] kind = "option" -> BootOptionLen(m)
      [] kind = "boot" -> BootLen(m)
      [] kind = "status" -> BootStatusLen(m)
      [] kind = "sysinfo" -> SystemInfoLen(m)
      [] kind = "config" -> ConfigLen(m)
      [] kind = "url" -> UrlLen(m)
      [] kind = "plugin" -> PluginOptionLen(m)
      [] kind = "temp" -> TempAutobootLen(m)
      [] kind = "auth" -> AuthenticateLen(m)

Serialise(kind, m) ==
    CASE kind = "device" -> SerialiseDevice(m)
      [] kind = "option" -> SerialiseBootOption(m)
      [] kind = "boot" -> SerialiseBootCommand(m)
      [] kind = "status" -> SerialiseBootStatus(m)
      [] kind = "sysinfo" -> SerialiseSystemInfo(m)
      [] kind = "config" -> SerialiseConfig(m)
      [] kind = "url" -> SerialiseUrl(m)
      [] kind = "plugin" -> SerialisePluginOption(m)
      [] kind = "temp" -> SerialiseTempAutoboot(m)
      [] kind = "auth" -> SerialiseAuthenticate(m)

Deserialise(kind, b) ==
    LET r == Reader(b)
    IN  CASE kind = "device" -> DeserialiseDevice(r)
          [] kind = "option" -> DeserialiseBootOption(r)
          [] kind = "boot" -> DeserialiseBootCommand(r)
          [] kind = "status" -> DeserialiseBootStatus(r)
          [] kind = "sysinfo" -> DeserialiseSystemInfo(r)
          [] kind = "config" -> DeserialiseConfig(r)
          [] kind = "url" -> DeserialiseUrl(r)
          [] kind = "plugin" -> DeserialisePluginOption(r)
          [] kind = "temp" -> DeserialiseTempAutoboot(r)
          [] kind = "auth" -> DeserialiseAuthenticate(r)
=============================================================================
