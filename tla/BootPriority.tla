---------------------------- MODULE BootPriority ----------------------------
(***************************************************************************)
(* Priorities of default boot options: which of two options that both      *)
(* claim to be the default of their device is booted automatically.        *)
(* Translated from discover/device-handler.c.  A smaller number is a       *)
(* higher priority.                                                        *)
(***************************************************************************)
EXTENDS Integers, Sequences, FiniteSets

CONSTANTS
    NoUuid,        \* the uuid of a device that has none (a NULL pointer)
    NoTemp         \* handler->temp_autoboot == NULL

(* enum default_priority *)
TEMP_USER   == 1
REMOTE      == 2
LOCAL_FIRST == 3
DISABLED    == 255

(* device_type_map: the device types an IPMI boot device request stands for. *)
IpmiTypes(bootdev) ==
    CASE bootdev = "network" -> {"network"}
      [] bootdev = "disk"    -> {"disk", "usb"}
      [] bootdev = "cdrom"   -> {"optical"}
      [] OTHER               -> {}

(* ipmi_device_type_matches *)
IpmiMatches(bootdev, dev) == dev.type \in IpmiTypes(bootdev)

(* autoboot_option_matches.  An autoboot option is a record                 *)
(* [boot_type |-> "type" or "uuid", value |-> the device type or uuid].     *)
OptionMatches(opt, dev) ==
    \/ opt.boot_type = "uuid" /\ opt.value = dev.uuid
    \/ opt.boot_type = "type" /\ opt.value \in {dev.type, "any"}

(* strcmp(opt->uuid, dev->uuid) on a device that has no uuid: a NULL        *)
(* pointer is dereferenced.                                                 *)
MatchFaults(opt, dev) == opt.boot_type = "uuid" /\ dev.uuid = NoUuid

(* autoboot_option_priority: the first entry of the boot order that matches. *)
LocalPriority(order, dev) ==
    LET hits == {i \in 1 .. Len(order) : OptionMatches(order[i], dev)}
    IN  IF hits = {} THEN DISABLED
        ELSE LOCAL_FIRST + (CHOOSE i \in hits : \A j \in hits : i =< j) - 1

(* default_option_priority *)
Priority(temp, config, dev) ==
    IF temp # NoTemp
    THEN IF OptionMatches(temp, dev) THEN TEMP_USER ELSE DISABLED
    ELSE IF config.ipmi_bootdev # "none"
    THEN IF IpmiMatches(config.ipmi_bootdev, dev) THEN REMOTE ELSE DISABLED
    ELSE IF config.autoboot_opts # <<>>
    THEN LocalPriority(config.autoboot_opts, dev)
    ELSE LOCAL_FIRST

(* The comparisons default_option_priority makes reach one that faults. *)
PriorityFaults(temp, config, dev) ==
    IF temp # NoTemp THEN MatchFaults(temp, dev)
    ELSE /\ config.ipmi_bootdev = "none"
         /\ \E i \in 1 .. Len(config.autoboot_opts) :
                /\ MatchFaults(config.autoboot_opts[i], dev)
                /\ \A j \in 1 .. i - 1 :
                       ~OptionMatches(config.autoboot_opts[j], dev)

(* config_autoboot_active *)
AutobootActive(config) ==
    config.autoboot_enabled /\ config.ipmi_bootdev \notin {"setup", "safe"}
=============================================================================
