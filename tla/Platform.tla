------------------------------- MODULE Platform -------------------------------
(* The configuration store of the powerpc platform: platform.c,                 *)
(* platform-powerpc.c, lib/param_list and what clients do to a configuration   *)
(* on its way (lib/pb-config, pb-protocol).  Parameters are kept in NVRAM and  *)
(* in a list that remembers which ones were changed; the BMC may override the  *)
(* boot device, the boot order (its mailbox) and the network.  NVRAM and the   *)
(* BMC survive a restart, all else is read anew.  The parameters that hold a   *)
(* text (language, proxies, console) are left out; "auto" also stands for the  *)
(* timeout, which is stored in the same way.  The order of the list, which is  *)
(* the one its parameters are written in, is left out: when a write fails, any *)
(* of the others may have been written before.                                 *)
EXTENDS Naturals, Sequences

CONSTANTS Orders,     \* boot orders: sequences of devices
          DefaultOrder,
          Boxes,      \* boot orders as a mailbox may spell them: <<order, canonical>>
          MaxSaves, MaxRestarts, MaxBmc  \* bounds

VARIABLES nvram,      \* stored parameters: name -> value
          params,     \* platform->params: name -> [value, modified]
          config,     \* the configuration in force
          original,   \* ipmi_mailbox_original_config: <<>> or <<value>>
          bmc,        \* [dev, persistent, box, net]: what the BMC asks for
          up,         \* the daemon runs
          saved,      \* history: <<the configuration saved last>>, if it should last
          boxed,      \* history: this session began with a mailbox
          one,        \* history: sessions that booted with the one-shot override
          counted,    \* history: this session is counted, or began before it was set
          saves, restarts, events
pvars == <<nvram, params, config, original, bmc, up, saved, boxed, one, counted, saves, restarts, events>>

Defaults == [auto |-> TRUE, order |-> DefaultOrder, net |-> "none", override |-> FALSE,
             writes |-> TRUE, preboot |-> TRUE, nosnap |-> FALSE, ipmi |-> "none",
             persistent |-> FALSE, mailbox |-> FALSE, safe |-> FALSE]

-----------------------------------------------------------------------------
(* lib/param_list                                                              *)

Put(f, name, v) == [n \in DOMAIN f \cup {name} |-> IF n = name THEN v ELSE f[n]]
Param(value, modified) == [value |-> value, modified |-> modified]

\* param_list_get_param(), param_list_get_value()
Has(pl, name) == name \in DOMAIN pl
Value(pl, name) == pl[name].value

ParamListSetQuiet(pl, name, value, modified) ==
    Put(pl, name, Param(value, IF Has(pl, name) THEN pl[name].modified ELSE modified))
\* param_list_set(): an old parameter is modified only if its value differs.
ParamListSet(pl, name, value, modified) ==
    IF ~Has(pl, name) THEN Put(pl, name, Param(value, modified))
    ELSE IF Value(pl, name) = value THEN pl
    ELSE Put(pl, name, Param(value, TRUE))
ParamListSetNonEmpty(pl, name, value, empty) ==
    IF ~Has(pl, name) /\ empty THEN pl ELSE ParamListSet(pl, name, value, TRUE)
Unmodified(pl, name) == Put(pl, name, Param(Value(pl, name), FALSE))

-----------------------------------------------------------------------------
(* Between parameters and configuration                                        *)

Flag(b) == IF b THEN "true" ELSE "false"
\* A value that is the default is stored as an empty text.
FlagOr(b, default) == IF b = default THEN "" ELSE Flag(b)

\* params_update_bootdev_values() ends every device with a blank: this is the
\* canonical spelling.
BootdevStr(order) == <<order, TRUE>>

\* params_update_network_values(): the override of a BMC is not stored.
UpdateNetworkStores(pl, c) == ParamListSetNonEmpty(pl, "net", c.net, c.net = "none")
UpdateNetwork(pl, c) ==
    IF c.net # "none" /\ c.override THEN pl
    ELSE ParamListSetNonEmpty(pl, "net", c.net, c.net = "none")

\* params_update_all()
UpdateAll(pl, c) ==
    LET set(l, name, b) == ParamListSetNonEmpty(l, name, FlagOr(b, TRUE), b)
        bootdevs(l) == ParamListSetNonEmpty(l, "bootdevs", BootdevStr(c.order), c.order = <<>>)
    IN  set(bootdevs(UpdateNetwork(set(set(pl, "auto", c.auto), "writes", c.writes), c)),
            "preboot", c.preboot)

\* config_populate_bootdev(): an empty order leaves what was there, unless
\* autoboot is disabled.
PopulateBootdev(c, pl) ==
    LET order == IF Has(pl, "bootdevs") THEN Value(pl, "bootdevs")[1] ELSE <<>>
    IN  [c EXCEPT !.order = IF order # <<>> THEN order ELSE IF c.auto THEN @ ELSE <<>>]

\* config_populate_all(): an empty text turns the permission to write off.
PopulateAll(c, pl) ==
    LET get(name) == IF Has(pl, name) THEN Value(pl, name) ELSE "absent"
        flags == [c EXCEPT !.auto = get("auto") # "false",
                           !.net = IF get("net") = "absent" THEN "none" ELSE get("net"),
                           !.writes = IF get("writes") = "absent" THEN @ ELSE get("writes") = "true",
                           !.nosnap = IF get("snap") = "absent" THEN @ ELSE get("snap") = "false",
                           !.preboot = get("preboot") # "false"]
    IN  PopulateBootdev(flags, pl)

\* parse_nvram()
ParseNvram == [name \in DOMAIN nvram |-> Param(nvram[name], FALSE)]

\* write_nvram(): the modified parameters, until one cannot be written (those in
\* ws are).
Modified(pl) == {name \in DOMAIN pl : pl[name].modified}
WriteNvram(pl, ws) ==
    [name \in DOMAIN nvram \cup ws |-> IF name \in ws THEN Value(pl, name) ELSE nvram[name]]

\* config_copy(), and the messages between server and client: both lose settings;
\* an interface to ignore also loses the mark of an override.
ConfigCopy(c) == [c EXCEPT !.preboot = FALSE, !.nosnap = FALSE,
                           !.override = @ /\ c.net # "ignore"]
Sent(c) == [c EXCEPT !.nosnap = FALSE, !.override = @ /\ c.net # "ignore"]

-----------------------------------------------------------------------------
(* platform_init(), load_config()                                              *)

\* The BMC's answers to the three requests; failed: the ones that did not come,
\* or were not valid.
MailboxRead(failed) == IF "box" \in failed THEN <<>> ELSE bmc.box
BootdevRead(failed) == IF "dev" \in failed THEN "none" ELSE bmc.dev
NetworkRead(failed) == IF "net" \in failed THEN "none" ELSE bmc.net

\* The mailbox replaces the boot order and is not to be written back.
WithMailbox(pl, box) ==
    IF box = <<>> THEN pl
    ELSE Unmodified(ParamListSet(pl, "bootdevs", box[1], FALSE), "bootdevs")
WithBootdev(c, dev) ==
    IF dev = "none" THEN c
    ELSE [c EXCEPT !.ipmi = dev, !.persistent = bmc.persistent, !.safe = dev = "safe"]
WithNetwork(c, net) == IF net = "none" THEN c ELSE [c EXCEPT !.net = net, !.override = TRUE]

LoadConfig(failed) ==
    LET pl == ParseNvram
        box == MailboxRead(failed)
        stored == PopulateAll([Defaults EXCEPT !.mailbox = box # <<>>], WithMailbox(pl, box))
    IN  /\ params' = WithMailbox(pl, box)
        /\ original' = IF box # <<>> /\ Has(pl, "bootdevs")
                       THEN <<Value(pl, "bootdevs")>> ELSE <<>>
        /\ config' = WithNetwork(WithBootdev(stored, BootdevRead(failed)), NetworkRead(failed))
        /\ boxed' = (box # <<>>)

PlatformInit ==
        /\ nvram \in {<<>>, [snap |-> "false", bootdevs |-> BootdevStr(<<"disk">>)]}
        /\ bmc = [dev |-> "none", persistent |-> FALSE, box |-> <<>>, net |-> "none"]
        /\ params = <<>> /\ config = Defaults /\ original = <<>> /\ up = FALSE
        /\ saved = <<>> /\ boxed = FALSE /\ one = 0 /\ counted = FALSE /\ saves = 0 /\ restarts = 0 /\ events = 0

Start == /\ ~up /\ up' = TRUE
         /\ \E failed \in {{}, {"box"}, {"dev", "net"}} : LoadConfig(failed)
         /\ counted' = FALSE
         /\ UNCHANGED <<nvram, bmc, saved, one, saves, restarts, events>>
\* The kernel booted, or the power failed.
Stop == /\ up /\ restarts < MaxRestarts /\ restarts' = restarts + 1 /\ up' = FALSE
        /\ params' = <<>> /\ config' = Defaults /\ original' = <<>> /\ boxed' = FALSE
        /\ UNCHANGED <<nvram, bmc, saved, one, counted, saves, events>>

-----------------------------------------------------------------------------
(* config_set(), save_config()                                                 *)

\* An invalid boot device clears the override, a mailbox that is no longer
\* wanted is cleared; the boot order of before comes back if it was not changed.
Cleared(c) == IF c.ipmi = "invalid" THEN [c EXCEPT !.ipmi = "none", !.persistent = FALSE] ELSE c
Restores(c) == ~c.mailbox /\ original # <<>>
Restored(pl, c) ==
    IF Restores(c) /\ ~pl["bootdevs"].modified
    THEN Unmodified(ParamListSet(pl, "bootdevs", original[1], FALSE), "bootdevs") ELSE pl
RestoredConfig(pl, c) ==
    IF Restores(c) /\ ~pl["bootdevs"].modified
    THEN PopulateBootdev(c, Restored(pl, c)) ELSE c

ConfigSet(c) ==
    LET after == RestoredConfig(params, Cleared(c))
        pl == UpdateAll(Restored(params, c), after)
    IN  /\ up /\ saves < MaxSaves /\ saves' = saves + 1
        /\ params' = pl
        /\ original' = IF Restores(c) THEN <<>> ELSE original
        /\ bmc' = [bmc EXCEPT !.dev = IF c.ipmi = "invalid" THEN "none" ELSE @,
                              !.box = IF Restores(c) THEN <<>> ELSE @]
        /\ \E ws \in SUBSET Modified(pl) :
             /\ nvram' = WriteNvram(pl, ws)
             /\ config' = IF ws = Modified(pl) THEN after ELSE config
             /\ saved' = IF ws = Modified(pl) /\ ~boxed THEN <<after>> ELSE <<>>
        /\ UNCHANGED <<up, boxed, one, counted, restarts, events>>

\* A client sends its form: one setting is changed, the rest is as it was told.
SaveForm ==
    \/ \E b \in BOOLEAN : \/ ConfigSet([Sent(config) EXCEPT !.auto = b, !.safe = FALSE])
                          \/ ConfigSet([Sent(config) EXCEPT !.writes = b, !.safe = FALSE])
                          \/ ConfigSet([Sent(config) EXCEPT !.preboot = b, !.safe = FALSE])
    \/ \E o \in Orders : ConfigSet([Sent(config) EXCEPT !.order = o, !.safe = FALSE])
    \/ \E n \in {"none", "dhcp"} :
          ConfigSet([Sent(config) EXCEPT !.net = n, !.override = FALSE, !.safe = FALSE])
\* The buttons that clear an override, and a new language, send a copy.
ClearIpmi == /\ config.ipmi # "none"
             /\ ConfigSet([Sent(ConfigCopy(config)) EXCEPT !.ipmi = "invalid", !.safe = FALSE])
ClearMailbox == /\ config.mailbox
                /\ ConfigSet([Sent(ConfigCopy(config)) EXCEPT !.mailbox = FALSE, !.safe = FALSE])
SaveLanguage == ConfigSet(Sent(ConfigCopy(config)))
\* device_handler_reinit()
LeaveSafeMode == config.safe /\ ConfigSet([ConfigCopy(config) EXCEPT !.safe = FALSE])

\* set_password(): its result is ignored, and with it every modified parameter is
\* written.
SetPassword(h) ==
    LET pl == ParamListSet(params, "password", h, TRUE)
    IN  /\ up /\ saves < MaxSaves /\ saves' = saves + 1 /\ params' = pl
        /\ \E ws \in SUBSET Modified(pl) : nvram' = WriteNvram(pl, ws)
        /\ UNCHANGED <<config, original, bmc, up, saved, boxed, one, counted, restarts, events>>

\* pre_boot(), when a boot begins (which may fail or be cancelled); the command
\* clears whatever the BMC holds by now.
CountBoot ==
    /\ one' = IF ~counted /\ config.ipmi # "none" /\ ~config.persistent THEN one + 1 ELSE one
    /\ counted' = TRUE
PreBootKeeps ==
    /\ up /\ CountBoot
    /\ UNCHANGED <<nvram, bmc, params, config, original, up, saved, boxed, saves, restarts, events>>
PreBoot ==
    /\ up /\ CountBoot
    /\ bmc' = IF config.persistent THEN bmc ELSE [bmc EXCEPT !.dev = "none"]
    /\ UNCHANGED <<nvram, params, config, original, up, saved, boxed, saves, restarts, events>>

\* The operator of the BMC, at any time.
Operator ==
    /\ events < MaxBmc /\ events' = events + 1
    /\ \/ /\ \E d \in {"disk", "safe"}, p \in BOOLEAN :
                bmc' = [bmc EXCEPT !.dev = d, !.persistent = p]
          /\ one' = 0 /\ counted' = TRUE
       \/ /\ \/ \E b \in Boxes : bmc' = [bmc EXCEPT !.box = <<b>>]
             \/ bmc' = [bmc EXCEPT !.box = <<>>]
             \/ \E n \in {"static", "ignore", "none"} : bmc' = [bmc EXCEPT !.net = n]
          /\ UNCHANGED <<one, counted>>
    /\ UNCHANGED <<nvram, params, config, original, up, saved, boxed, saves, restarts>>

PlatformNext ==
        \/ Start \/ Stop \/ SaveForm \/ ClearIpmi \/ ClearMailbox \/ SaveLanguage
        \/ LeaveSafeMode \/ PreBoot \/ Operator \/ SetPassword("hash")
PlatformSpec == PlatformInit /\ [][PlatformNext]_pvars

-----------------------------------------------------------------------------
\* save_config(), load_config(): a configuration that was saved is found again
\* after any number of restarts, whatever failed, was cleared or overridden in
\* between: the settings with a stored form, and a boot order that is not empty.
\* (Two settings do not come back: the permission to write to disks, whose
\* default is stored as an empty text and read as "no", and an empty boot order,
\* which is read as the default one.)
SavedLasts ==
    up /\ saved # <<>> =>
      LET loaded == PopulateAll(Defaults, ParseNvram)
      IN  /\ loaded.auto = saved[1].auto
          /\ loaded.preboot = saved[1].preboot
          /\ saved[1].order # <<>> => loaded.order = saved[1].order
          /\ ~saved[1].override => loaded.net = saved[1].net
          /\ saved[1].writes = FALSE => ~loaded.writes

\* params_update_network_values(): the network override of a BMC does not reach
\* NVRAM, through any client or save.  (It does for an interface to ignore: a
\* copy of its configuration loses the mark.)
OverrideNotStored == "net" \in DOMAIN nvram => nvram["net"] # "static"

\* pre_boot(), load_config(): a boot device that the BMC sets for one boot is in
\* force in at most one session that boots, however the sessions end, provided
\* the BMC takes the command that clears it.
OneShotOnce == one <= 1

\* load_config() says of the mailbox's boot order "Avoid writing this to NVRAM".
\* Refuted: any save writes it when it is not the canonical form of itself.
MailboxNotStored ==
    "bootdevs" \in DOMAIN nvram => nvram["bootdevs"][1] \notin {b[1] : b \in Boxes}
=============================================================================
