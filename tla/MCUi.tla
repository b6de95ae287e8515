-------------------------------- MODULE MCUi --------------------------------
(* The menus and screens of the interface (Cui) in three instances, told apart *)
(* by `side': the two menus with three devices and their options ("menus"), the *)
(* screens over one device, a plugin and an encrypted device ("screens"), and   *)
(* the start, with keys before and after the server is reached ("start").  And  *)
(* the screens that hold state of their own, each on its own: the configuration *)
(* screen, the boot option editor and the text screens.                         *)
EXTENDS Cui
CONSTANTS d1, d2, e1, o1, o2, o3, p1
VARIABLES side, sys, cfg, form, fcur, fphase, sub, need, ipmi, auth, sent, updates,
          info, opt, cut, device, text, list, state, out, by, typed, n, fault,
          kind, lines, top, rows, log, count, messages, read
fvars == <<sys, cfg, form, fcur, fphase, sub, ipmi, auth, sent, updates>>
bvars == <<info, opt, device, text, list, state, out, by, typed, n>>
tvars == <<kind, lines, top, rows, log, count, messages, read>>

MCDev == {d1, d2, e1}
MCLuks == {e1}
MCOpt == {o1, o2, o3, p1}
MCPlugins == {p1}
MCOptDev == (o1 :> d1) @@ (o2 :> d1) @@ (o3 :> d2) @@ (p1 :> d2)

UiInit ==
    /\ Init
    /\ side \in {"menus", "screens", "start"}
    /\ side # "start" => cl.conn = "up"
    /\ side = "menus" => cl.auth

Menus3 ==
    \/ \E d \in Dev : DeviceAdd(d) \/ DeviceRemove(d)
    \/ \E o \in Opt \ Plugins, f \in BOOLEAN : BootOptionAdd(o, f)
    \/ Edit \/ EditorExit(TRUE) \/ UpdateConfig(TRUE)

Screens3 ==
    \/ DeviceAdd(d2) \/ DeviceAdd(e1) \/ DeviceRemove(e1)
    \/ \E o \in {o3, p1}, f \in BOOLEAN : BootOptionAdd(o, f)
    \/ \E p \in Plugins : PluginOptionAdd(p)
    \/ PluginsRemove \/ UpdateSysinfo
    \/ \E b \in BOOLEAN : UpdateConfig(b) \/ AuthResponse(b)
    \/ User /\ temp' = temp /\ phase' # "exited" /\ edit' # <<"new">>
    \/ Resize

Start3 ==
    \/ Move \/ Boot \/ Edit \/ EditorExit(TRUE) \/ ShowHelp \/ HelpExit \/ OpenScreen("url")
    \/ TempAutoboot \/ Shell \/ Abort \/ ServerWait \/ ChildConnects
    \/ Lost \/ (\E b \in BOOLEAN : AuthResponse(b))

-----------------------------------------------------------------------------
Order == <<[auto |-> TRUE, order |-> <<<<"uuid", "u1">>, <<"type", 0>>>>, net |-> "all",
            mac |-> "none", ipmi |-> FALSE, preboot |-> TRUE],
           [auto |-> FALSE, order |-> <<<<"mac", "m2">>, <<"mac", "m1">>>>, net |-> "static",
            mac |-> "m1", ipmi |-> TRUE, preboot |-> FALSE]>>
Cs == INSTANCE ConfigScreen WITH
        Sysinfos <- {[blk |-> <<"u1">>, ifs |-> <<"m1">>],
                     [blk |-> <<>>, ifs |-> <<"m1", "m2">>],
                     [blk |-> <<"u2", "u1">>, ifs |-> <<>>]},
        Configs <- {Order[1], Order[2]}, NTypes <- 1, TypeAny <- 0, MaxUpdates <- 2,
        cur <- fcur, phase <- fphase

\* Two mounted devices, one below the other, and one that is not mounted.
Sda == [name |-> "sda", mount |-> <<"mnt">>]
Sdb == [name |-> "sdb", mount |-> <<"mnt", "b">>]
Sdc == [name |-> "sdc", mount |-> <<>>]
Be == INSTANCE BootEditor WITH
        Infos <- {<<>>, <<Sda, Sdb>>, <<Sdb, Sdc>>, <<Sdc>>},
        Options <- {[image |-> <<"mnt", "b", "k">>, initrd |-> <<"mnt", "b", "i">>],
                    [image |-> <<"mnt", "b", "k">>, initrd |-> <<"mnt", "i">>],
                    [image |-> <<"mnt", "k">>, initrd |-> <<>>],
                    [image |-> <<"http", "k">>, initrd |-> <<>>]},
        Paths <- {<<>>, <<"x">>}, MaxInfos <- 3
Ts == INSTANCE TextScreen WITH MaxStatus <- 4, MaxMessages <- 6, Rows <- {2, 3}, Sizes <- {1, 5}

NoUi == /\ cl = [conn |-> "none", auth |-> FALSE] /\ ui = <<>> /\ open = {} /\ ret = <<>>
        /\ cb = <<>> /\ edit = <<>> /\ input = FALSE /\ temp = FALSE /\ told = {}
        /\ langs = 0 /\ last = None /\ cur = "none" /\ phase = "none"
NoConfig == /\ sys = <<>> /\ cfg = <<>> /\ form = <<>> /\ sub = <<>> /\ ipmi = FALSE
            /\ auth = FALSE /\ sent = Cs!None /\ updates = 0
            /\ fcur = "closed" /\ fphase = "none"
NoEditor == /\ info = <<>> /\ opt = <<>> /\ device = "none" /\ text = <<>>
            /\ list = <<>> /\ state = "idle" /\ out = <<>> /\ by = "kept"
            /\ typed = FALSE /\ n = 0
NoText == /\ kind = "none" /\ lines = 0 /\ top = 0 /\ rows = 0 /\ log = 0
          /\ count = 0 /\ messages = 0 /\ read = {}

MCInit ==
    \/ UiInit /\ NoConfig /\ NoEditor /\ NoText /\ need = FALSE /\ cut = 0 /\ fault = "none"
    \/ side = "config" /\ NoUi /\ Cs!Init /\ NoEditor /\ NoText /\ cut = 0 /\ fault = "none"
    \/ side = "editor" /\ NoUi /\ NoConfig /\ Be!Init /\ NoText
    \/ side = "text" /\ NoUi /\ NoConfig /\ NoEditor /\ Ts!Init /\ need = FALSE

MCNext ==
    /\ side' = side
    /\ \/ /\ \/ side = "menus" /\ Menus3
             \/ side = "screens" /\ Screens3
             \/ side = "start" /\ Start3
          /\ UNCHANGED <<fvars, bvars, tvars, need, cut, fault>>
       \/ side = "config" /\ Cs!Next /\ UNCHANGED <<vars, bvars, tvars, cut, fault>>
       \/ side = "editor" /\ Be!Next /\ UNCHANGED <<vars, fvars, tvars>>
       \/ side = "text" /\ Ts!Next /\ UNCHANGED <<vars, fvars, bvars, need>>
MCSpec == MCInit /\ [][MCNext]_<<vars, fvars, bvars, tvars, need, cut, fault, side>>

-----------------------------------------------------------------------------
\* ConfigScreen's properties: OK sends what the form shows, and the form shows
\* what is in force; TextScreen's: the status log reads only lines it has.
SentAsShown == side = "config" => Cs!SentAsShown
NothingStale ==
    /\ side = "config" => Cs!NothingStale
    /\ side = "text" => Ts!LogInRange
\* BootEditor's property: the editor keeps paths and follows the user's pick.
EditorFaithful == side = "editor" => Be!EditorFaithful
=============================================================================
