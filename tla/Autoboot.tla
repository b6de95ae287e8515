------------------------------ MODULE Autoboot ------------------------------
(***************************************************************************)
(* The autoboot half of the device handler (discover/device-handler.c):    *)
(* choosing the default boot option, the countdown, the pending boot, and  *)
(* everything that may cancel them - a user, a device that disappears, a   *)
(* requery of a network device, a temporary override, a reinit.            *)
(*                                                                         *)
(* The daemon is one thread around waiter_poll(): an action is one         *)
(* callback.  A callback that offers several boot options to set_default() *)
(* is the action that fills `work' followed by one Finalise step for each; *)
(* nothing else is enabled in between.                                     *)
(*                                                                         *)
(* Boot tasks are abstract here: a task in `live' is downloading its       *)
(* resources, and leaves `live' when it completes or is cancelled.         *)
(* BootTask.tla models what happens inside one.                            *)
(***************************************************************************)
EXTENDS BootPriority

CONSTANTS
    None,             \* a NULL pointer
    Devices,          \* discover_devices
    DevInfo,          \* their type and uuid
    Options,          \* boot options the parsers can produce
    OptDevice,        \* the device an option is found on
    DefaultOptions,   \* those whose configuration marks them as default
    Configs,          \* configurations the platform can load
    TempChoices,      \* temporary autoboot overrides a client may send
    Tasks,            \* addresses of boot tasks
    Timers,           \* addresses of countdown waiters
    MaxAge            \* bound on the clock `age'

ASSUME OptionsAssumption ==
    /\ OptDevice \in [Options -> Devices]
    /\ DefaultOptions \subseteq Options
ASSUME NoneAssumption ==
    /\ None \notin Options
    /\ None \notin Tasks
    /\ None \notin Timers
(* The only client that sends overrides sends device types                  *)
(* (autoboot_override_keys in ui/ncurses/nc-cui.c).                         *)
ASSUME TempAssumption ==
    /\ NoTemp \notin TempChoices
    /\ \A opt \in TempChoices : opt.boot_type = "type"
ASSUME BoundAssumption ==
    /\ MaxAge \in Nat
    /\ \A c \in Configs : /\ c.autoboot_timeout_sec \in Nat
                          /\ Len(c.autoboot_opts) \in Nat

VARIABLES
    phase,                         \* of the daemon's life
    config,                        \* config_get()
    devices,                       \* handler->devices
    boot_options,                  \* finalised options of all devices
    work,                          \* options the current callback still offers
    autoboot_enabled,
    temp_autoboot,
    default_boot_option,
    default_boot_option_priority,
    sec_to_boot,
    last_boot_option,
    pending_boot,
    pending_boot_is_default,
    timeout_waiter,                \* the handler's pointer to the countdown
    timers,                        \* countdown waiters in the waitset
    live,                          \* boot tasks downloading, not cancelled
    origin,                        \* who started a task (history)
    age                            \* seconds since the default was chosen

bootvars  == <<pending_boot, pending_boot_is_default, live, origin>>
timevars  == <<timeout_waiter, timers, age>>
choosevars == <<default_boot_option, default_boot_option_priority,
                sec_to_boot, last_boot_option>>
switches  == <<autoboot_enabled, temp_autoboot, config>>
found     == <<devices, boot_options, work>>
vars == <<phase, bootvars, timevars, choosevars, switches, found>>

-----------------------------------------------------------------------------
(* handler->pending_boot and the countdown belong to the struct zeroed by   *)
(* device_handler_init().                                                   *)
Init ==
    /\ phase = "running"
    /\ config \in Configs
    /\ autoboot_enabled = AutobootActive(config)
    /\ temp_autoboot = NoTemp
    /\ devices = {} /\ boot_options = {} /\ work = {}
    /\ default_boot_option = None
    /\ default_boot_option_priority = 0
    /\ sec_to_boot = 0
    /\ last_boot_option = None
    /\ pending_boot = None
    /\ pending_boot_is_default = FALSE
    /\ timeout_waiter = None
    /\ timers = [w \in Timers |-> "off"]
    /\ live = {}
    /\ origin = [t \in Tasks |-> "user"]
    /\ age = 0

Running == phase \in {"running", "rebooting"}
Idle == Running /\ work = {}

(* Bound: a callback that may start a countdown finds a waiter for it. *)
TimerSpare == \E w \in Timers : timers[w] = "off"

Info(o) == DevInfo[OptDevice[o]]
OptionsOf(d) == {o \in boot_options : OptDevice[o] = d}

-----------------------------------------------------------------------------
(* boot() and device_handler_boot_status_cb().  `def' is the default option *)
(* and `tasks' the downloads in progress when boot() is called.  A status   *)
(* of type STATUS_ERROR makes the callback forget both the pending boot and *)
(* the default option; the value boot() returns is stored afterwards.       *)
(*   - no image, no signature, or a load that cannot start: an error        *)
(*     status, and boot() returns NULL;                                     *)
(*   - a resource is downloaded: boot() returns the task;                   *)
(*   - all resources are local: boot_process() runs to the end inside       *)
(*     boot(), check_load() reports each resource with STATUS_ERROR, and    *)
(*     boot() returns the finished task.                                    *)
Boot(def, tasks, kind) ==
    /\ pending_boot_is_default' = (kind = "default")
    /\ \/ /\ pending_boot' = None
          /\ default_boot_option' = None
          /\ live' = tasks
          /\ UNCHANGED <<origin, phase>>
       \/ \E t \in Tasks \ (live \cup {pending_boot}) :
          /\ pending_boot' = t
          /\ origin' = [origin EXCEPT ![t] = kind]
          /\ \/ /\ live' = tasks \cup {t}
                /\ default_boot_option' = def
                /\ UNCHANGED phase
             \/ /\ live' = tasks
                /\ default_boot_option' = None
                /\ phase' \in {phase, "rebooting"}

(* default_timeout(): `def' and `sec' are the option and the count when it  *)
(* is called, `armed' the waitset without the waiter it was called from,    *)
(* which waiter_poll() removes when it returns.                             *)
DefaultTimeout(def, sec, armed) ==
    IF def = None \/ pending_boot # None
    THEN /\ default_boot_option' = def
         /\ sec_to_boot' = sec
         /\ timers' = armed
         /\ UNCHANGED <<timeout_waiter, last_boot_option, bootvars, phase>>
    ELSE /\ last_boot_option' = def
         /\ IF sec > 0
            THEN \E w \in Timers :
                 /\ armed[w] = "off"
                 /\ timers' = [armed EXCEPT ![w] = "armed"]
                 /\ timeout_waiter' = w
                 /\ sec_to_boot' = sec - 1
                 /\ default_boot_option' = def
                 /\ UNCHANGED <<bootvars, phase>>
            ELSE /\ timers' = armed
                 /\ timeout_waiter' = None
                 /\ sec_to_boot' = sec
                 /\ Boot(def, live, "default")

(* device_handler_cancel_default(), which leaves autoboot `enabled'; with   *)
(* `all', a pending boot is cancelled even if the user started it.          *)
(* waiter_remove() asserts that the waiter is in the set.                   *)
CancelDefault(enabled, all) ==
    IF timeout_waiter # None /\ timers[timeout_waiter] = "off"
    THEN /\ phase' = "crashed"
         /\ UNCHANGED <<bootvars, timeout_waiter, timers, default_boot_option,
                        autoboot_enabled>>
    ELSE /\ timers' = [w \in Timers |-> IF w = timeout_waiter
                                        THEN "off" ELSE timers[w]]
         /\ timeout_waiter' = None
         /\ autoboot_enabled' = enabled
         /\ default_boot_option' = None
         /\ IF /\ pending_boot # None
               /\ all \/ (default_boot_option # None /\ pending_boot_is_default)
            THEN /\ live' = live \ {pending_boot}
                 /\ pending_boot' = None
                 /\ pending_boot_is_default' = FALSE
            ELSE UNCHANGED <<live, pending_boot, pending_boot_is_default>>
         /\ UNCHANGED <<origin, phase>>

-----------------------------------------------------------------------------
(* Mutant: the first default found wins. *)
SetDefaultIgnoredFirstWins(o) ==
    /\ \/ o \notin DefaultOptions
       \/ ~autoboot_enabled
       \/ default_boot_option # None
    /\ UNCHANGED <<phase, bootvars, timevars, choosevars>>

(* set_default(), for an option the current callback offers *)
SetDefaultIgnored(o) ==
    /\ \/ o \notin DefaultOptions
       \/ ~autoboot_enabled
       \/ /\ ~PriorityFaults(temp_autoboot, config, Info(o))
          /\ \/ Priority(temp_autoboot, config, Info(o)) >= DISABLED
             \/ /\ default_boot_option # None
                /\ Priority(temp_autoboot, config, Info(o))
                     >= default_boot_option_priority
    /\ UNCHANGED <<phase, bootvars, timevars, choosevars>>

SetDefaultFault(o) ==
    /\ o \in DefaultOptions /\ autoboot_enabled
    /\ PriorityFaults(temp_autoboot, config, Info(o))
    /\ phase' = "crashed"
    /\ UNCHANGED <<bootvars, timevars, choosevars>>

SetDefaultReplaces(o) ==
    /\ o \in DefaultOptions /\ autoboot_enabled
    /\ ~PriorityFaults(temp_autoboot, config, Info(o))
    /\ default_boot_option # None
    /\ Priority(temp_autoboot, config, Info(o)) < default_boot_option_priority
    /\ default_boot_option' = o
    /\ default_boot_option_priority' = Priority(temp_autoboot, config, Info(o))
    /\ sec_to_boot' = sec_to_boot + 2
    /\ UNCHANGED <<phase, bootvars, timevars, last_boot_option>>

SetDefaultChosen(o) ==
    /\ o \in DefaultOptions /\ autoboot_enabled
    /\ ~PriorityFaults(temp_autoboot, config, Info(o))
    /\ default_boot_option = None
    /\ Priority(temp_autoboot, config, Info(o)) < DISABLED
    /\ default_boot_option_priority' = Priority(temp_autoboot, config, Info(o))
    /\ age' = 0
    /\ DefaultTimeout(o, config.autoboot_timeout_sec, timers)

(* One turn of the loop of device_handler_discover_context_commit(),        *)
(* process_boot_option_queue() or device_handler_apply_temp_autoboot().     *)
Finalise(o) ==
    /\ Running
    /\ o \in work
    /\ work' = work \ {o}
    /\ boot_options' = boot_options \cup {o}
    /\ \/ SetDefaultIgnored(o)
       \/ SetDefaultFault(o)
       \/ SetDefaultReplaces(o)
       \/ SetDefaultChosen(o)
    /\ UNCHANGED <<devices, switches>>

(* A discovery context is committed: device d has new resolved options. *)
Discover(d, new) ==
    /\ Idle /\ TimerSpare
    /\ new \subseteq {o \in Options : OptDevice[o] = d} \ boot_options
    /\ devices' = devices \cup {d}
    /\ work' = new
    /\ UNCHANGED <<phase, bootvars, timevars, choosevars, switches,
                   boot_options>>

(* Mutant: the count of seconds is not decremented. *)
TimerFireNoDecrement(w) ==
    /\ Idle
    /\ timers[w] = "due"
    /\ DefaultTimeout(default_boot_option,
                      IF sec_to_boot > 0 THEN sec_to_boot + 1 ELSE 0,
                      [timers EXCEPT ![w] = "off"])
    /\ UNCHANGED <<default_boot_option_priority, age, switches, found>>

(* waiter_poll() calls default_timeout() for an expired countdown waiter,   *)
(* then removes the waiter.                                                 *)
TimerFire(w) ==
    /\ Idle
    /\ timers[w] = "due"
    /\ DefaultTimeout(default_boot_option, sec_to_boot,
                      [timers EXCEPT ![w] = "off"])
    /\ UNCHANGED <<default_boot_option_priority, age, switches, found>>

(* A second passes.  The poll timeout is the earliest expiry, so a waiter   *)
(* that is due is called before the next second is over.                    *)
Tick ==
    /\ Idle
    /\ \A w \in Timers : timers[w] # "due"
    /\ timers' = [w \in Timers |-> IF timers[w] = "armed" THEN "due" ELSE "off"]
    /\ age' = IF age < MaxAge THEN age + 1 ELSE age
    /\ UNCHANGED <<phase, bootvars, timeout_waiter, choosevars, switches, found>>

-----------------------------------------------------------------------------
(* Mutant: the boot in progress is not cancelled. *)
UserBootNoCancel(o, change_default) ==
    /\ Idle
    /\ \/ change_default
       \/ last_boot_option = None
       \/ o = last_boot_option
    /\ Boot(default_boot_option, live, "user")
    /\ UNCHANGED <<timevars, default_boot_option_priority, sec_to_boot,
                   last_boot_option, switches, found>>

(* device_handler_boot(): the user, or a boot event, boots option o, or a   *)
(* command line with no known option.  Only a privileged client may boot an *)
(* option other than the last default.                                      *)
UserBoot(o, change_default) ==
    /\ Idle
    /\ \/ change_default
       \/ last_boot_option = None
       \/ o = last_boot_option
    /\ Boot(IF pending_boot = None THEN default_boot_option ELSE None,
            live \ {pending_boot}, "user")
    /\ UNCHANGED <<timevars, default_boot_option_priority, sec_to_boot,
                   last_boot_option, switches, found>>

(* The last download of a task finishes and boot_process() runs to its end. *)
(* check_load() reports every resource, loaded or not, with STATUS_ERROR.   *)
BootCompletes(t) ==
    /\ Idle
    /\ t \in live
    /\ live' = live \ {t}
    /\ pending_boot' = None
    /\ default_boot_option' = None
    /\ phase' \in {phase, "rebooting"}
    /\ UNCHANGED <<pending_boot_is_default, origin, timevars,
                   default_boot_option_priority, sec_to_boot,
                   last_boot_option, switches, found>>

(* A client cancels the default boot (a key press in the menu). *)
UserCancel ==
    /\ Idle
    /\ CancelDefault(FALSE, FALSE)
    /\ UNCHANGED <<age, default_boot_option_priority, sec_to_boot,
                   last_boot_option, temp_autoboot, config, found>>

(* Mutant: the default option is not checked. *)
RemoveKeepsDefault(d) ==
    /\ Idle
    /\ d \in devices
    /\ devices' = devices \ {d}
    /\ boot_options' = boot_options \ OptionsOf(d)
    /\ UNCHANGED <<phase, bootvars, timevars, choosevars, switches, work>>

(* device_handler_remove() *)
Remove(d) ==
    /\ Idle
    /\ d \in devices
    /\ IF default_boot_option \in OptionsOf(d)
       THEN CancelDefault(FALSE, FALSE)
       ELSE UNCHANGED <<phase, bootvars, timeout_waiter, timers,
                        default_boot_option, autoboot_enabled>>
    /\ devices' = devices \ {d}
    /\ boot_options' = boot_options \ OptionsOf(d)
    /\ UNCHANGED <<age, default_boot_option_priority, sec_to_boot,
                   last_boot_option, temp_autoboot, config, work>>

(* Mutant: the default is forgotten, its boot is not cancelled. *)
RequeryForgets(d) ==
    /\ Idle
    /\ d \in devices
    /\ DevInfo[d].type = "network"
    /\ default_boot_option' = IF default_boot_option \in OptionsOf(d)
                              THEN None ELSE default_boot_option
    /\ boot_options' = boot_options \ OptionsOf(d)
    /\ UNCHANGED <<phase, bootvars, timevars, default_boot_option_priority,
                   sec_to_boot, last_boot_option, switches, devices, work>>

(* device_handler_requery_timeout_fn(): the options of a network device are *)
(* dropped and the device is queried again; autoboot stays as it was.       *)
Requery(d) ==
    /\ Idle
    /\ d \in devices
    /\ DevInfo[d].type = "network"
    /\ IF default_boot_option \in OptionsOf(d)
       THEN CancelDefault(autoboot_enabled, FALSE)
       ELSE UNCHANGED <<phase, bootvars, timeout_waiter, timers,
                        default_boot_option, autoboot_enabled>>
    /\ boot_options' = boot_options \ OptionsOf(d)
    /\ UNCHANGED <<age, default_boot_option_priority, sec_to_boot,
                   last_boot_option, temp_autoboot, config, devices, work>>

(* device_handler_apply_temp_autoboot() *)
RescanNeeded(opt) ==
    /\ autoboot_enabled
    /\ default_boot_option # None
    /\ ~OptionMatches(opt, Info(default_boot_option))

(* For each device that matches, its first option marked as default.  The   *)
(* order of the options of a device is the order of its configuration file. *)
Rescans(opt) ==
    {W \in SUBSET (boot_options \cap DefaultOptions) :
        \A d \in devices :
            LET os == OptionsOf(d) \cap DefaultOptions
            IN  Cardinality(W \cap os) =
                  IF os # {} /\ OptionMatches(opt, DevInfo[d]) THEN 1 ELSE 0}

ApplyTempAutoboot(opt) ==
    /\ Idle /\ TimerSpare
    /\ temp_autoboot' = opt
    /\ IF RescanNeeded(opt)
       THEN /\ CancelDefault(TRUE, FALSE)
            /\ work' \in Rescans(opt)
       ELSE UNCHANGED <<phase, bootvars, timeout_waiter, timers,
                        default_boot_option, autoboot_enabled, work>>
    /\ UNCHANGED <<age, default_boot_option_priority, sec_to_boot,
                   last_boot_option, config, devices, boot_options>>

(* device_handler_reinit(), on its own (same configuration) or from         *)
(* device_handler_update_config().                                          *)
Reinit(newconfig) ==
    /\ Idle
    /\ CancelDefault(FALSE, TRUE)
    /\ config' = newconfig
    /\ devices' = {} /\ boot_options' = {}
    /\ UNCHANGED <<age, default_boot_option_priority, sec_to_boot,
                   last_boot_option, temp_autoboot, work>>

(* init takes the system down and starts the new kernel. *)
Down ==
    /\ phase = "rebooting"
    /\ work = {}
    /\ phase' = "down"
    /\ UNCHANGED <<bootvars, timevars, choosevars, switches, found>>

-----------------------------------------------------------------------------
Next ==
    \/ \E o \in Options : Finalise(o)
    \/ \E d \in Devices : \E new \in SUBSET Options : Discover(d, new)
    \/ \E w \in Timers : TimerFire(w)
    \/ Tick
    \/ \E o \in boot_options \cup {None}, c \in BOOLEAN : UserBoot(o, c)
    \/ \E t \in Tasks : BootCompletes(t)
    \/ UserCancel
    \/ \E d \in Devices : Remove(d)
    \/ \E d \in Devices : Requery(d)
    \/ \E opt \in TempChoices : ApplyTempAutoboot(opt)
    \/ \E c \in Configs : Reinit(c)
    \/ Down

Spec == Init /\ [][Next]_vars

(* The event loop always comes back to poll: a second passes, a waiter that *)
(* is due is called, and a callback that has started runs to its end.  The  *)
(* first two are strong: other callbacks, with their Finalise steps, come   *)
(* between, but the clock does not wait for them, and waiter_poll() calls   *)
(* the timers that are due in every round.                                  *)
Fairness ==
    /\ SF_vars(Tick)
    /\ SF_vars(\E w \in Timers : TimerFire(w))
    /\ WF_vars(\E o \in Options : Finalise(o))

FairSpec == Spec /\ Fairness

-----------------------------------------------------------------------------
(* Every variable of the handler keeps its type; the count of seconds and   *)
(* the priority are unsigned.                                               *)
TypeOK ==
    /\ phase \in {"running", "rebooting", "down", "crashed"}
    /\ config \in Configs
    /\ devices \subseteq Devices
    /\ boot_options \subseteq Options
    /\ work \subseteq Options
    /\ autoboot_enabled \in BOOLEAN
    /\ temp_autoboot \in TempChoices \cup {NoTemp}
    /\ default_boot_option \in Options \cup {None}
    /\ default_boot_option_priority \in Nat
    /\ sec_to_boot \in Nat
    /\ last_boot_option \in Options \cup {None}
    /\ pending_boot \in Tasks \cup {None}
    /\ pending_boot_is_default \in BOOLEAN
    /\ timeout_waiter \in Timers \cup {None}
    /\ timers \in [Timers -> {"off", "armed", "due"}]
    /\ live \subseteq Tasks
    /\ origin \in [Tasks -> {"default", "user"}]
    /\ age \in Nat

(* At most one boot is in progress, and it is the one the handler can       *)
(* cancel: no order of user boots, countdowns, failures and cancellations   *)
(* leaves a download running that handler->pending_boot does not name, and  *)
(* that could kexec behind the user's back.                                 *)
SingleBoot == live \subseteq {pending_boot}

(* A boot the countdown started can always be stopped by a key press:       *)
(* device_handler_cancel_default() reaches it, which takes both a default   *)
(* option and the pending_boot_is_default flag.                             *)
DefaultBootCancellable ==
    \A t \in live :
        origin[t] = "default" => /\ t = pending_boot
                                 /\ pending_boot_is_default
                                 /\ default_boot_option # None
                                 /\ autoboot_enabled

(* A countdown is never lost: while there is a default option and no boot   *)
(* is pending, some waiter will call default_timeout() again.               *)
CountdownArmed ==
    default_boot_option # None /\ pending_boot = None
        => \E w \in Timers : timers[w] # "off"

(* Once autoboot is switched off there is no default option left.           *)
QuietWhenDisabled == ~autoboot_enabled => default_boot_option = None

(* The handler never keeps a default option whose device or option list was *)
(* freed by a removal, a requery or a reinit.                               *)
NoDanglingDefault ==
    Running /\ default_boot_option # None => default_boot_option \in boot_options

(* After the user has cancelled the default boot, nothing - a requery that  *)
(* restores the flag, an override, a reinit with a new configuration -      *)
(* switches autoboot on again.                                              *)
StaysCancelled == [][~autoboot_enabled => ~autoboot_enabled']_vars

(* Cancelling the default boot, removing or requerying a device, or an      *)
(* override never stops a boot the user asked for.                          *)
UserBootKept ==
    [][(\/ UserCancel
        \/ \E d \in Devices : Remove(d) \/ Requery(d)
        \/ \E opt \in TempChoices : ApplyTempAutoboot(opt))
       => \A t \in live : origin[t] = "user" => t \in live']_vars

(* "If the new option has a higher priority based on the boot order than    *)
(* the current option then it becomes the current option"                   *)
(* (doc/func/autoboot.rst): set_default() compares with the priority stored *)
(* when the current option was chosen, which an override makes stale.       *)
PriorityNow(o) == Priority(temp_autoboot, config, Info(o))
HigherPriorityWins ==
    [][\A o \in (work \ work') \cap DefaultOptions :
           /\ autoboot_enabled
           /\ default_boot_option # None
           /\ PriorityNow(o) < PriorityNow(default_boot_option)
           => default_boot_option' = o \/ phase' = "crashed"]_vars

(* A chosen default is booted or dropped: the countdown comes to an end     *)
(* however often better options extend it.                                  *)
CountdownEnds ==
    (default_boot_option # None /\ pending_boot = None /\ Running)
        ~> (default_boot_option = None \/ pending_boot # None \/ ~Running)
-----------------------------------------------------------------------------
(* What the comments and documents of the repository say, and the code does *)
(* not do.                                                                  *)

(* The assertion of waiter_remove() (lib/waiter/waiter.c), that the waiter  *)
(* is in the set, when device_handler_cancel_default() removes the          *)
(* countdown.  Refuted: the timer's own callback leaves the pointer behind. *)
WaiterRemoveAssertion == phase # "crashed"

(* "boot had failed; update handler state to allow a new default if one is  *)
(* found later" (device_handler_boot_status_cb): when no boot is in         *)
(* progress, the handler does not hold on to a pending boot.  Refuted: a    *)
(* boot may fail before boot() has returned the task to be held on to.      *)
FailedBootForgotten ==
    phase = "running" /\ pending_boot # None => pending_boot \in live

(* "Petitboot will begin to countdown from the configured timeout"          *)
(* (doc/func/autoboot.rst): the seconds left and the seconds already        *)
(* counted add up to at least the timeout; the first second is taken off    *)
(* when the countdown starts.  Refuted: a failed boot leaves the waiter.    *)
CountdownHonoured ==
    default_boot_option # None /\ pending_boot = None
        => sec_to_boot + age + 1 >= config.autoboot_timeout_sec

(* The comment quoted above FailedBootForgotten, for a boot that did not    *)
(* fail: the boot that starts the new kernel stays the pending one.         *)
(* Refuted: its success is reported with STATUS_ERROR.                      *)
SuccessStaysPending ==
    [][phase = "running" /\ phase' = "rebooting" => pending_boot' # None]_vars

(* "it only replaces the current if it has a higher priority"               *)
(* (set_default).  Refuted: an override leaves the stored priority as it    *)
(* was.                                                                     *)
OnlyHigherReplaces ==
    [][/\ default_boot_option # None
       /\ default_boot_option' \notin {None, default_boot_option}
       => PriorityNow(default_boot_option') < PriorityNow(default_boot_option)
      ]_vars
=============================================================================
