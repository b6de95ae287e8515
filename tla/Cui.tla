--------------------------------- MODULE Cui ---------------------------------
(* The ncurses user interface (ui/ncurses/nc-cui.c, nc-menu.c and the screens  *)
(* they open) with the client half of the protocol (ui/common/discover-       *)
(* client.c).  One process, one event loop: every action below is one callback *)
(* of waiter_poll(): a message of the server, a key, a retry of the            *)
(* connection, a resize.                                                       *)
(*                                                                            *)
(* Menu items are tuples: <<"hdr", d>> heads the options of device d,          *)
(* <<"luks", d>> is the entry of an encrypted device, <<"opt", o>> a boot or   *)
(* plugin option, <<"user", n>> an entry made with the boot editor; Sep is the *)
(* separator that precedes the system entries, which are one item, Sys, whose  *)
(* function is chosen when it is executed.  Screens are named; "freed" is a    *)
(* menu that cui_update_language() has freed and something still points at,    *)
(* "oldplug" a plugin menu that it replaced without freeing it.  Messages to    *)
(* the server have no effect here, except the two that are remembered until    *)
(* there is a connection.                                                     *)
EXTENDS Naturals, Sequences, SequencesExt, FiniteSets

CONSTANTS Dev,      \* devices the server may announce
          Luks,     \* the encrypted ones: they carry no options
          Opt,      \* boot options
          Plugins,  \* the options of type DISCOVER_PLUGIN_OPTION
          OptDev,   \* [Opt -> Dev]
          MaxUser,  \* bound on the entries the user adds
          MaxLang   \* bound on language changes

ASSUME OptAssumption == /\ Luks \subseteq Dev /\ Plugins \subseteq Opt
                        /\ OptDev \in [Opt -> Dev \ Luks]

VARIABLES cl,       \* the discover_client: [conn, auth, devs, opts, flagged]
          ui,       \* the menus: [main, plug, dflt, mark, gone, named, fault]
          cur,      \* cui->current
          open,     \* the screens that exist besides the two menus
          ret,      \* return_scr of "help", "subset" and "auth"
          cb,       \* callback and device of the authentication screen
          edit,     \* item of the boot editor
          input,    \* cui->has_input
          temp,     \* cui->autoboot_opt is set
          told,     \* "cancel" and "temp" as far as they were sent
          langs,    \* language changes so far
          last,     \* the default announced last, while its device exists
          phase     \* "run", "exited", or how the program died
screens == <<cur, open, ret, cb, edit>>
keys == <<input, temp, told>>
vars == <<cl, ui, screens, keys, langs, last, phase>>

None == "none"
Sep == <<"sep">>
Sys == <<"sys">>
NoItem == <<"none">>
Freed == <<"freed">>

-----------------------------------------------------------------------------
(* Menus: [items, ins, sel]; ins is insert_pt, sel the current item.          *)

\* pmenu_init() and the entries main_menu_init() and plugin_menu_init() create.
\* The main menu starts on its last entry, the plugin menu on its first.
MainMenu == [items |-> <<Sep, Sys>>, ins |-> 0, sel |-> Sys]
PluginMenu == [items |-> <<Sep, Sys>>, ins |-> 0, sel |-> Sep]

\* pmenu_grow() and pmenu_item_insert(): new items go to the insert point.
Grow(m, its) ==
    [m EXCEPT !.items = SubSeq(@, 1, m.ins) \o its \o SubSeq(@, m.ins + 1, Len(@)),
              !.ins = @ + Len(its)]

\* pmenu_find_device(): the items with data but no option of this device.
Header(m, d) == {i \in 1..Len(m.items) : m.items[i] \in {<<"hdr", d>>, <<"luks", d>>}}

\* pmenu_item_add(): the item goes just below the header of its device.
ItemAddAppends(m, it, d) == Grow(m, <<it>>)
ItemAdd(m, it, d) ==
    LET h == CHOOSE i \in Header(m, d) : \A j \in Header(m, d) : i <= j
    IN  [m EXCEPT !.items = InsertAt(@, h + 1, it), !.ins = @ + 1]

\* pmenu_remove(): the item is freed and the items after it move up.
PmenuRemove(m, it) ==
    IF it \notin Range(m.items) THEN m
    ELSE [m EXCEPT !.items = Remove(@, it), !.ins = @ - 1]
RemoveAll(m, its) == FoldLeft(LAMBDA x, it : PmenuRemove(x, it), m, SetToSeq(its))

SelectFirst(m) == [m EXCEPT !.sel = m.items[1]]
SelectLast(m) == [m EXCEPT !.sel = m.items[Len(m.items)]]

-----------------------------------------------------------------------------
(* The callbacks of the client, as functions on u, a state of ui.             *)

\* The search for the item marked as the default walks the main menu and reads
\* the data of every item up to the match; the separator has none.  The item
\* found is relabelled, which frees its ITEM and makes another.  If it was the
\* selected one, set_current_item() is given the freed one, which belongs to no
\* menu any more, and refuses it: the first item stays current.
NewDefaultKeepsLabel(u, o) == [u EXCEPT !.dflt = o]
NewDefault(u, o) ==
    IF u.dflt = None THEN [u EXCEPT !.dflt = o]
    ELSE IF <<"opt", u.dflt>> \notin Range(u.main.items)
         THEN [u EXCEPT !.fault = "null_cod"]
    ELSE [u EXCEPT !.dflt = o, !.mark = @ \ {u.dflt},
                   !.main = IF @.sel = <<"opt", u.dflt>> THEN SelectFirst(@) ELSE @]

\* cui_boot_option_add().  A plugin option also detaches and attaches the items
\* of the main menu, for the label that counts the plugins: its selection goes
\* back to the first item.
CuiBootOptionAdd(u, o, flagged) ==
    LET d == OptDev[o]
        put(m) == IF Header(m, d) = {}
                  THEN Grow(m, <<<<"hdr", d>>, <<"opt", o>>>>)
                  ELSE ItemAdd(m, <<"opt", o>>, d)
        v == [u EXCEPT !.gone = @ \ {o}]
        w == [v EXCEPT !.main = put(@), !.mark = IF flagged THEN @ \cup {o} ELSE @]
    IN  IF u.fault # None THEN u
        ELSE IF o \in Plugins THEN [v EXCEPT !.plug = put(@), !.main = SelectFirst(@)]
        ELSE IF flagged THEN NewDefault(w, o) ELSE w

\* cui_device_add(): only an encrypted device gets an item now.  The selection
\* is read after the items are detached, so it is lost.
CuiDeviceAdd(u, d) ==
    IF d \notin Luks \/ u.fault # None THEN u
    ELSE [u EXCEPT !.main = SelectFirst(Grow(@, <<<<"luks", d>>>>))]

\* cui_device_remove(): the items of the options, each reached by opt->ui_info,
\* then the headers in both menus; the selections go to the last item.
ItemsRemoved(u, d, os) ==
    LET its == {<<"opt", o>> : o \in os} \cup {<<"hdr", d>>, <<"luks", d>>}
    IN  IF os \cap u.gone # {} THEN [u EXCEPT !.fault = "stale_item"]
        ELSE [u EXCEPT !.main = SelectLast(RemoveAll(@, its)),
                       !.plug = SelectLast(RemoveAll(@, its)),
                       !.mark = @ \ os]
CuiDeviceRemove(u, d, os) ==
    [ItemsRemoved(u, d, os) EXCEPT !.dflt = IF @ \in os THEN None ELSE @]

\* cui_plugin_option_add(): the item of the plugin becomes an installed one, or
\* an item is made up for it, below a header of its own.  The name freed is that
\* of the option, and for a made up option also its id, which a second message
\* compares.
CuiPluginOptionAdd(u, p) ==
    IF <<"opt", p>> \in Range(u.plug.items)
    THEN [u EXCEPT !.named = @ \cup {p}, !.plug = SelectFirst(@)]
    ELSE IF <<"dummy", p>> \in Range(u.plug.items) THEN [u EXCEPT !.fault = "stale_name"]
    ELSE [u EXCEPT !.plug = SelectFirst(Grow(@, <<<<"dhdr", p>>, <<"dummy", p>>>>)),
                   !.main = SelectFirst(@)]

\* cui_plugins_remove(): every item of the plugin menu that has a device goes,
\* the items of options the client still holds included.
CuiPluginsRemove(u) ==
    LET its == Range(u.plug.items) \ {Sep, Sys}
    IN  [u EXCEPT !.plug = SelectFirst(RemoveAll(@, its)), !.main = SelectFirst(@),
                  !.gone = @ \cup {o \in Plugins : <<"opt", o>> \in its}]

\* cui_update_language(): both menus are made anew and filled by
\* discover_client_enumerate(); cui->default_item stays as it was.
NewMenus(u) ==
    LET named == {o \in u.named : \E i \in 1..Len(cl.devs) : o \in Range(cl.opts[cl.devs[i]])}
        fill(x, d) == FoldLeft(LAMBDA y, o : CuiBootOptionAdd(y, o, o \in cl.flagged),
                               CuiDeviceAdd(x, d), cl.opts[d])
    IN  IF named # {} THEN [u EXCEPT !.fault = "stale_name"]
        ELSE FoldLeft(fill, [u EXCEPT !.main = MainMenu, !.plug = PluginMenu,
                                      !.mark = {}], cl.devs)

-----------------------------------------------------------------------------
Init ==
    /\ \E c \in {"none", "up"}, a \in BOOLEAN :
          cl = [conn |-> c, auth |-> a, devs |-> <<>>,
                opts |-> [d \in Dev |-> <<>>], flagged |-> {}]
    /\ ui = [main |-> MainMenu, plug |-> PluginMenu, dflt |-> None, mark |-> {},
             gone |-> {}, named |-> {}, fault |-> None]
    /\ cur = "main" /\ open = {} /\ ret = [s \in {"help", "subset", "auth"} |-> None]
    /\ cb = NoItem /\ edit = NoItem
    /\ input = FALSE /\ temp = FALSE /\ told = {} /\ langs = 0 /\ last = None
    /\ phase = "run"

\* A step that leaves the menus in state u; the program may have died of it.
Menus(u) == /\ ui' = u
            /\ phase' = IF u.fault = None THEN "run" ELSE u.fault

\* The item the editor works on is freed with the menu entry.
EditKept(u) == edit' = IF Len(edit) = 2 /\ edit \notin Range(u.main.items)
                       THEN Freed ELSE edit

Dies(how) == phase' = how /\ UNCHANGED <<cl, ui, screens, langs, last>>
Stay == UNCHANGED <<cl, ui, langs, last, phase>>

Connected == phase = "run" /\ cl.conn = "up"

-----------------------------------------------------------------------------
(* Messages of the server: discover_client_process().                         *)

DeviceAdd(d) ==
    /\ Connected /\ d \notin Range(cl.devs)
    /\ cl' = [cl EXCEPT !.devs = Append(@, d)]
    /\ Menus(CuiDeviceAdd(ui, d))
    /\ UNCHANGED <<screens, keys, langs, last>>

BootOptionAdd(o, flagged) ==
    LET d == OptDev[o]
    IN  /\ Connected /\ d \in Range(cl.devs) /\ o \notin Range(cl.opts[d])
        /\ flagged => o \notin Plugins
        /\ cl' = [cl EXCEPT !.opts[d] = Append(@, o),
                            !.flagged = IF flagged THEN @ \cup {o} ELSE @]
        /\ Menus(CuiBootOptionAdd(ui, o, flagged))
        /\ last' = IF flagged THEN o ELSE last
        /\ UNCHANGED <<screens, keys, langs>>

\* The callback runs before the device and its options are freed.  The screen
\* that asks for the password of an encrypted device keeps a pointer to it.
DeviceRemove(d) ==
    LET os == Range(cl.opts[d])
        u == CuiDeviceRemove(ui, d, os)
    IN  /\ Connected /\ d \in Range(cl.devs)
        /\ cl' = [cl EXCEPT !.devs = Remove(@, d), !.opts[d] = <<>>,
                            !.flagged = @ \ os]
        /\ Menus([u EXCEPT !.gone = @ \ os, !.named = @ \ os])
        /\ EditKept(u)
        /\ cb' = IF cb = <<"open", d>> THEN Freed ELSE cb
        /\ last' = IF last \in os THEN None ELSE last
        /\ UNCHANGED <<cur, open, ret, keys, langs>>

PluginOptionAdd(p) ==
    /\ Connected /\ p \in Plugins
    /\ Menus(CuiPluginOptionAdd(ui, p))
    /\ UNCHANGED <<cl, screens, keys, langs, last>>

\* A plugin screen is left only if it is the current one.
PluginsRemove ==
    /\ Connected
    /\ Menus(CuiPluginsRemove(ui))
    /\ IF cur = "plugin" THEN cur' = "plug" /\ open' = open \ {"plugin"}
                         ELSE UNCHANGED <<cur, open>>
    /\ UNCHANGED <<cl, ret, cb, edit, keys, langs, last>>

\* subset_screen_update(): the screen to choose boot devices is closed by any
\* update of the system information or of the configuration.
SubsetClosed == IF "subset" \in open
                THEN cur' = ret["subset"] /\ open' = open \ {"subset"}
                ELSE UNCHANGED <<cur, open>>

UpdateSysinfo ==
    /\ Connected /\ "subset" \in open
    /\ SubsetClosed
    /\ UNCHANGED <<cl, ui, ret, cb, edit, keys, langs, last, phase>>

\* cui_update_language() as seen by the screens: the main menu is freed, the
\* plugin menu is not.
LanguageUpdated ==
    /\ langs < MaxLang /\ langs' = langs + 1
    /\ Menus(NewMenus(ui))
    /\ ret' = [s \in DOMAIN ret |-> CASE ret[s] = "main" -> "freed"
                                      [] ret[s] = "plug" -> "oldplug"
                                      [] OTHER -> ret[s]]
    /\ edit' = IF Len(edit) = 2 THEN Freed ELSE edit

UpdateConfig(newlang) ==
    /\ Connected
    /\ newlang \/ "subset" \in open
    /\ IF newlang THEN LanguageUpdated ELSE UNCHANGED <<ui, langs, ret, edit, phase>>
    /\ IF newlang /\ cur = "plug" THEN cur' = "main" /\ open' = open
       ELSE SubsetClosed
    /\ UNCHANGED <<cl, cb, keys, last>>

AuthResponse(ok) ==
    /\ Connected /\ cl' = [cl EXCEPT !.auth = ok] /\ cl' # cl
    /\ UNCHANGED <<ui, screens, keys, langs, last, phase>>

\* A failed read removes the waiter; the client object stays.
Lost ==
    /\ Connected /\ cl' = [cl EXCEPT !.conn = "lost"]
    /\ UNCHANGED <<ui, screens, keys, langs, last, phase>>

Server == \/ \E d \in Dev : DeviceAdd(d) \/ DeviceRemove(d)
          \/ \E o \in Opt, f \in BOOLEAN : BootOptionAdd(o, f)
          \/ \E p \in Plugins : PluginOptionAdd(p)
          \/ PluginsRemove \/ UpdateSysinfo \/ Lost
          \/ \E b \in BOOLEAN : UpdateConfig(b) \/ AuthResponse(b)

-----------------------------------------------------------------------------
(* Keys: cui_process_key().  The first key cancels the autoboot, now or when    *)
(* the server is reached; then the current screen gets the key.                *)

Key == /\ phase = "run" /\ input' = TRUE
       /\ told' = IF ~input /\ cl.conn = "up" THEN told \cup {"cancel"} ELSE told
       /\ temp' = temp

\* F10 to F12 choose what this boot prefers, and cancel nothing.
TempAutoboot ==
    /\ phase = "run" /\ temp' = TRUE
    /\ told' = IF cl.conn = "up" THEN told \cup {"temp"} ELSE told
    /\ UNCHANGED <<input, screens>> /\ Stay

Show(s) == /\ cur' = s /\ open' = open \cup {s}
           /\ UNCHANGED <<ret, cb>>
Leave(s, to) == /\ cur' = to /\ open' = open \ {s}
                /\ ret' = [r \in DOMAIN ret |-> IF r = s THEN None ELSE ret[r]]
                /\ cb' = cb

\* cui_show_auth(), cui_show_open_luks(): c says what OK does besides sending
\* the password.
ShowAuth(c) == /\ cur' = "auth" /\ open' = open \cup {"auth"}
               /\ ret' = [ret EXCEPT !["auth"] = cur] /\ cb' = c
               /\ edit' = edit /\ Stay

\* The arrow keys move over all items, the headers included.
Move ==
    /\ Key
    /\ \/ /\ cur = "main"
          /\ \E i \in 1..Len(ui.main.items) :
                ui' = [ui EXCEPT !.main.sel = ui.main.items[i]]
       \/ /\ cur = "plug"
          /\ \E i \in 1..Len(ui.plug.items) :
                ui' = [ui EXCEPT !.plug.sel = ui.plug.items[i]]
    /\ UNCHANGED <<cl, screens, langs, last, phase>>

\* cui_boot_check(): an entry the user added has hash 0, like no default.
IsDefault(it) == IF it[1] = "opt" THEN it[2] = ui.dflt ELSE ui.dflt = None

Boot ==
    /\ Key /\ cur = "main" /\ ui.main.sel[1] \in {"opt", "user"}
    /\ CASE cl.conn = "none" -> Dies("null_client")
         [] cl.conn # "none" /\ (cl.auth \/ IsDefault(ui.main.sel)) ->
              UNCHANGED screens /\ Stay
         [] OTHER -> ShowAuth(<<"boot">>)

OpenLuks ==
    /\ Key /\ cur = "main" /\ ui.main.sel[1] = "luks"
    /\ ShowAuth(IF cl.auth THEN <<"open", ui.main.sel[2]>> ELSE <<"luks">>)

\* menu_reinit_execute(): with the right to, the message is sent at once.
Rescan ==
    /\ Key /\ cur = "main" /\ ui.main.sel = Sys /\ cl.conn # "none"
    /\ IF cl.auth THEN UNCHANGED screens /\ Stay ELSE ShowAuth(<<"reinit">>)

\* The entries of the main menu and their hot keys; two need the client.
OpenScreen(s) ==
    /\ Key /\ cur = "main"
    /\ s = "url" => ui.main.sel = Sys /\ cl.conn # "none"
    /\ Show(s) /\ edit' = edit /\ Stay
OpenPluginMenu ==
    /\ Key /\ cur = "main" /\ ui.main.sel = Sys /\ cl.conn # "none"
    /\ cur' = "plug" /\ UNCHANGED <<open, ret, cb, edit>> /\ Stay

\* x, escape or the last entry; the old plugin menu only knows how to be left.
CloseScreen ==
    /\ Key /\ cur \in {"plug", "oldplug", "plugin", "config", "lang", "url", "sysinfo", "log"}
    /\ Leave(cur, IF cur = "plugin" THEN "plug" ELSE "main") /\ edit' = edit /\ Stay

\* cui_item_edit(), cui_item_new().
Edit ==
    /\ Key /\ cur = "main" /\ Show("editor")
    /\ edit' \in {<<"new">>} \cup ({ui.main.sel} \cap {it \in Range(ui.main.items) :
                                                     it[1] \in {"opt", "user"}})
    /\ Stay

\* cui_boot_editor_on_exit(): what was entered goes to the item it was opened
\* for, or to a new entry, which becomes the selected one.
Users(m) == {i \in 1..Len(m.items) : m.items[i][1] = "user"}
EditorExit(save) ==
    /\ Key /\ cur = "editor"
    /\ IF save /\ edit = Freed THEN Dies("stale_edit")
       ELSE /\ Leave("editor", "main") /\ edit' = NoItem
            /\ IF save /\ edit = <<"new">>
               THEN LET it == <<"user", Cardinality(Users(ui.main)) + 1>>
                    IN  /\ Cardinality(Users(ui.main)) < MaxUser
                        /\ ui' = [ui EXCEPT !.main = [Grow(@, <<it>>) EXCEPT !.sel = it]]
                        /\ UNCHANGED <<cl, langs, last, phase>>
               ELSE Stay

\* OK on a screen with a form; the form may be refused.  Without the right, the
\* form is processed under the authentication screen.
FormOk ==
    /\ Key /\ cur \in {"config", "lang", "url"} /\ cl.conn # "none"
    /\ IF cl.auth THEN Leave(cur, "main") /\ edit' = edit /\ Stay
       ELSE ShowAuth(<<cur>>)

\* The language screen without `save': only this process changes its language.
LangOk ==
    /\ Key /\ cur = "lang" /\ cl.conn # "none"
    /\ LanguageUpdated
    /\ cur' = "main" /\ open' = open \ {"lang"}
    /\ UNCHANGED <<cl, cb, last>>

SetPassword == Key /\ cur = "config" /\ cl.conn # "none" /\ ShowAuth(<<"password">>)
ShowSubset ==
    /\ Key /\ cur = "config" /\ cur' = "subset" /\ open' = open \cup {"subset"}
    /\ ret' = [ret EXCEPT !["subset"] = cur] /\ UNCHANGED <<cb, edit>> /\ Stay
SubsetExit ==
    /\ Key /\ cur = "subset" /\ Leave("subset", ret["subset"]) /\ edit' = edit /\ Stay

\* cui_plugin_install_check(), cui_show_plugin(), plugin_run_command_check().
InstallPlugin ==
    /\ Key /\ cur = "plug" /\ ui.plug.sel[1] = "opt" /\ ui.plug.sel[2] \notin ui.named
    /\ IF cl.auth THEN UNCHANGED screens /\ Stay ELSE ShowAuth(<<"install">>)
ShowPlugin ==
    /\ Key /\ cur = "plug"
    /\ \/ ui.plug.sel[1] = "dummy"
       \/ ui.plug.sel[1] = "opt" /\ ui.plug.sel[2] \in ui.named
    /\ Show("plugin") /\ edit' = edit /\ Stay
RunPlugin ==
    /\ Key /\ cur = "plugin"
    /\ IF cl.auth THEN UNCHANGED screens /\ Stay ELSE ShowAuth(<<"run">>)

ShowHelp ==
    /\ Key /\ cur \in {"main", "plug", "plugin", "editor", "config", "url", "sysinfo"}
    /\ "help" \notin open
    /\ cur' = "help" /\ open' = open \cup {"help"}
    /\ ret' = [ret EXCEPT !["help"] = cur] /\ UNCHANGED <<cb, edit>> /\ Stay
HelpExit ==
    /\ Key /\ cur = "help"
    /\ IF ret["help"] = "freed" THEN Dies("stale_return")
       ELSE Leave("help", ret["help"]) /\ edit' = edit /\ Stay

\* cui_auth_exit() posts the screen below.  With its exit flag set, the
\* configuration screen closes itself; the other two go on with their widgets
\* after they were freed.
AuthReturn(exit) ==
    LET r == ret["auth"]
    IN  CASE r = "freed" -> Dies("stale_return")
          [] exit /\ r = "config" ->
               /\ cur' = "main" /\ open' = open \ {"auth", "config"}
               /\ ret' = [ret EXCEPT !["auth"] = None] /\ cb' = NoItem
               /\ edit' = edit /\ Stay
          [] exit /\ r \notin {"freed", "config"} -> Dies("stale_post")
          [] OTHER -> /\ cur' = r /\ open' = open \ {"auth"}
                      /\ ret' = [ret EXCEPT !["auth"] = None] /\ cb' = NoItem
                      /\ edit' = edit /\ Stay

AuthCancel == Key /\ cur = "auth" /\ AuthReturn(FALSE)

\* ok_click() of the authentication screen: the password is sent, then the
\* callback runs, with this screen still the current one.  The callbacks of the
\* menus act on the item that is selected now.
AuthOk(accepted) ==
    /\ Key /\ cur = "auth"
    /\ CASE cb = Freed -> Dies("stale_dev")
         [] cb = <<"boot">> -> Dies(IF ret["auth"] = "freed" THEN "stale_return"
                                    ELSE "assert_current")
         [] cb = <<"luks">> /\ ret["auth"] = "main" /\ ui.main.sel \in {Sep, Sys} ->
              Dies("null_cod")
         [] cb = <<"install">> /\ ret["auth"] = "plug"
            /\ ui.plug.sel[1] \notin {"opt", "dummy"} -> Dies("null_cod")
         [] OTHER -> AuthReturn(accepted /\ cb \in {<<"config">>, <<"lang">>, <<"url">>})

\* cui_on_exit() and the end of cui_run(): autoboot is cancelled, if need be by
\* a child that waits for the server.
Cancelled == told' = told \cup (IF cl.conn = "none" THEN {"child"} ELSE {"cancel"})
Shell == /\ phase = "run" /\ cur = "main" /\ input' = TRUE /\ Cancelled
         /\ UNCHANGED <<temp, screens>> /\ Stay
Abort == /\ phase = "run" /\ cur = "main" /\ input' = TRUE /\ Cancelled
         /\ phase' = "exited" /\ UNCHANGED <<temp, screens, cl, ui, langs, last>>
ChildConnects == /\ "child" \in told /\ told' = (told \ {"child"}) \cup {"cancel"}
                 /\ UNCHANGED <<input, temp, screens>> /\ Stay

\* cui_server_wait()
ServerWaitForgets ==
    /\ phase = "run" /\ cl.conn = "none" /\ cl' = [cl EXCEPT !.conn = "up"]
    /\ told' = told \cup {k \in {"temp"} : temp}
    /\ UNCHANGED <<ui, screens, input, temp, langs, last, phase>>
ServerWait ==
    /\ phase = "run" /\ cl.conn = "none" /\ cl' = [cl EXCEPT !.conn = "up"]
    /\ told' = told \cup {k \in {"cancel"} : input} \cup {k \in {"temp"} : temp}
    /\ UNCHANGED <<ui, screens, input, temp, langs, last, phase>>

\* cui_handle_resize(): three screens have no resize function.
Resize == /\ phase = "run" /\ cur \in {"auth", "subset", "url"}
          /\ Dies("null_resize") /\ UNCHANGED keys

User == \/ Move \/ Boot \/ OpenLuks \/ Rescan \/ OpenPluginMenu \/ CloseScreen \/ Edit
        \/ \E s \in {"sysinfo", "config", "lang", "log", "url"} : OpenScreen(s)
        \/ \E b \in BOOLEAN : EditorExit(b) \/ AuthOk(b)
        \/ FormOk \/ LangOk \/ SetPassword \/ ShowSubset \/ SubsetExit
        \/ InstallPlugin \/ ShowPlugin \/ RunPlugin \/ ShowHelp \/ HelpExit
        \/ AuthCancel \/ TempAutoboot \/ Shell \/ Abort

Next == Server \/ User \/ ServerWait \/ ChildConnects \/ Resize

Spec == Init /\ [][Next]_vars

-----------------------------------------------------------------------------
(* Properties                                                                 *)

Running == phase = "run"
Boots == {i \in 1..Len(ui.main.items) : ui.main.items[i][1] = "opt"}
Known == {o \in Opt : \E i \in 1..Len(cl.devs) : o \in Range(cl.opts[cl.devs[i]])}

\* cui_boot_option_add(), cui_device_remove(), cui_update_language(): the main
\* menu shows each boot option the client holds once, as long as its device
\* exists, and the nearest header above it is that of its own device; what the
\* server announced or removed meanwhile, entries of the user and changes of the
\* language do not tear a device apart.
OptionsUnderDevice ==
    Running =>
      /\ {ui.main.items[i][2] : i \in Boots} = Known \ Plugins
      /\ Cardinality(Boots) = Cardinality(Known \ Plugins)
      /\ ui.main.ins = Len(ui.main.items) - 2
      /\ \A i \in Boots : \E h \in 1..(i - 1) :
            /\ ui.main.items[h] = <<"hdr", OptDev[ui.main.items[i][2]]>>
            /\ \A j \in h..i : ui.main.items[j][1] \in {"hdr", "luks"} => j = h

\* cui_boot_check() lets the default option start without a password and the
\* menu marks it with (*): both are the default the server announced last, until
\* its device goes (as long as the menus were not rebuilt for a new language,
\* which puts neither right).
DefaultFollowed ==
    Running /\ langs = 0 => /\ ui.dflt = last
                            /\ ui.mark = {last} \ {None}

\* cui_process_key(), cui_server_wait(), cui_cancel_autoboot_on_exit(): whoever
\* pressed a key has autoboot cancelled and the chosen device sent, even if the
\* server was reached later or the interface has ended since.
InputHonoured ==
    /\ Running /\ cl.conn = "up" => /\ input => "cancel" \in told
                                    /\ temp => "temp" \in told
    /\ phase = "exited" => told \cap {"cancel", "child"} # {}

\* nc-cui.c:296, `assert(cui->current == &cui->main->scr)` in cui_boot().
BootFromMain == phase # "assert_current"
=============================================================================
