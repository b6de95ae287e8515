----------------------------- MODULE ConfigScreen -----------------------------
(* The configuration screen (ui/ncurses/nc-config.c), the screen to add a boot  *)
(* device (nc-subset.c) and what the language screen sends (nc-lang.c), with    *)
(* the server's updates that arrive meanwhile.  The form is filled from a       *)
(* configuration and a system information; when the user accepts it, its        *)
(* indices are read with the system information of that moment.  Block devices *)
(* and interfaces are their UUID and MAC; texts are left out but for the        *)
(* address of a static interface, which is there or not.                       *)
EXTENDS Widgets, FiniteSets, TLC

CONSTANTS Sysinfos,  \* system informations: [blk : Seq of UUIDs, ifs : Seq of MACs]
          Configs,   \* configurations the server may send
          NTypes,    \* device types, DEVICE_TYPE_NETWORK .. DEVICE_TYPE_LUKS
          TypeAny,   \* DEVICE_TYPE_ANY
          MaxUpdates \* bound on updates of the server

VARIABLES sys, cfg,  \* cui->sysinfo, cui->config
          form,      \* the widgets, with the two they were made from
          cur,       \* "config", "subset", "help", "auth", "password", "closed"
          sub,       \* the subset screen: its select and the widgets it changes
          need,      \* screen->need_update
          ipmi,      \* screen->ipmi_override: set when a form shows the override
          auth,      \* discover_client_authenticated()
          sent,      \* the configuration sent last, and what its form showed
          updates,   \* updates so far: also the name of a set of widgets
          phase
vars == <<sys, cfg, form, cur, sub, need, ipmi, auth, sent, updates, phase>>

None == [order |-> <<>>]
NoForm == [name |-> -1]    \* the screen is freed
NoSubset == [of |-> -1, sel |-> NewSelect]
Disk(u) == <<"uuid", u>>
Net(m) == <<"mac", m>>
Type(t) == <<"type", t>>

TargetNoOffset(s, i) ==
    LET nb == Len(s.blk)
        ni == Len(s.ifs)
    IN  CASE i < nb -> Disk(s.blk[i + 1])
          [] i >= nb /\ i < ni -> Net(s.ifs[i + 1])
          [] OTHER -> Type(i - ni)

\* What index i of the boot order stands for under system information s: the
\* branches of screen_process_form().
Target(s, i) ==
    LET nb == Len(s.blk)
        ni == Len(s.ifs)
    IN  CASE i < nb -> Disk(s.blk[i + 1])
          [] i >= nb /\ i < nb + ni -> Net(s.ifs[i - nb + 1])
          [] OTHER -> Type(i - nb - ni)

\* find_autoboot_idx(): -1 for a device the system does not have.
FindAutobootIdx(s, t) ==
    LET n == Len(s.blk) + Len(s.ifs)
        hits == {i \in 0..(n - 1) : Target(s, i) = t}
    IN  IF t[1] = "type" THEN n + t[2]
        ELSE IF hits = {} THEN -1 ELSE CHOOSE i \in hits : \A j \in hits : i <= j

\* config_screen_setup_widgets().  A boot device that is not there is left out of
\* the form; an interface that is not there leaves the first one chosen.
BootOrder(c, s) ==
    FoldLeft(LAMBDA b, t : IF FindAutobootIdx(s, t) < 0 THEN b
                           ELSE MakeActive(b, FindAutobootIdx(s, t)),
             NewSubset(Len(s.blk) + Len(s.ifs) + NTypes), c.order)
Draw(c, s, name) ==
    [name |-> name, cfg |-> c, sys |-> s,
     auto |-> SelectOf(<<FALSE, TRUE>>, {c.auto}),
     order |-> BootOrder(c, s),
     net |-> SelectOf(<<"all", "one", "static">>, {c.net}),
     iface |-> SelectOf([i \in 1..Len(s.ifs) |-> i],
                        {i \in 1..Len(s.ifs) : c.net # "all" /\ s.ifs[i] = c.mac}),
     addr |-> c.net = "static", preboot |-> SelectOf(<<TRUE, FALSE>>, {c.preboot})]

\* The labels of the boot order, in the order config_screen_setup_widgets() adds
\* them: option i carries label i + 1.
Labels(s) == [i \in 1..Len(s.blk) |-> Disk(s.blk[i])] \o [i \in 1..Len(s.ifs) |-> Net(s.ifs[i])]
             \o [i \in 1..NTypes |-> Type(i - 1)]
Shown(f) == [i \in 1..Len(f.order.active) |-> Labels(f.sys)[f.order.active[i] + 1]]
ShownMac(f) == IF SelectValue(f.iface) = -1 THEN "none" ELSE f.sys.ifs[SelectValue(f.iface)]

-----------------------------------------------------------------------------
Init ==
    /\ sys \in Sysinfos /\ cfg \in Configs /\ auth \in BOOLEAN
    /\ form = Draw(cfg, sys, 0) /\ cur = "config" /\ sub = NoSubset
    /\ need = FALSE /\ ipmi = cfg.ipmi /\ sent = None /\ updates = 0 /\ phase = "run"

On(s) == phase = "run" /\ cur = s

\* config_screen_draw().  The flag for the override of the BMC is only ever set:
\* once its widgets are gone, the layout moves freed ones.
Redraw(c, s) == /\ form' = Draw(c, s, updates') /\ need' = FALSE
                /\ ipmi' = (ipmi \/ c.ipmi)
                /\ phase' = IF ipmi /\ ~c.ipmi THEN "stale_widget" ELSE phase

\* config_screen_post(), when the screen above has gone.
Post == /\ cur' = "config"
        /\ IF need THEN Redraw(cfg', sys') ELSE UNCHANGED <<form, need, ipmi, phase>>

\* config_screen_update()
ConfigScreenUpdateLost ==
    IF cur # "config" THEN UNCHANGED <<cur, form, need, ipmi, phase>>
    ELSE cur' = cur /\ Redraw(cfg', sys')
ConfigScreenUpdate ==
    IF cur # "config" THEN need' = TRUE /\ UNCHANGED <<cur, form, ipmi, phase>>
    ELSE cur' = cur /\ Redraw(cfg', sys')

\* cui_update_sysinfo(), cui_update_config(): the subset screen is left first,
\* which posts the form, so that the update finds it current and draws it anew.
Update ==
    /\ phase = "run" /\ cur # "closed" /\ updates < MaxUpdates /\ updates' = updates + 1
    /\ sys' \in Sysinfos /\ cfg' \in Configs
    /\ (sys' = sys) # (cfg' = cfg)
    /\ IF cur # "subset" THEN ConfigScreenUpdate
       ELSE cur' = "config" /\ Redraw(cfg', sys')
    /\ sub' = NoSubset /\ UNCHANGED <<auth, sent>>

AuthResponse == /\ phase = "run" /\ cur # "closed" /\ auth' = ~auth
                /\ UNCHANGED <<sys, cfg, form, cur, sub, need, ipmi, sent, updates, phase>>

-----------------------------------------------------------------------------
(* Keys on the form                                                            *)

Fill(f) == form' = f /\ UNCHANGED <<sys, cfg, cur, sub, need, ipmi, auth, sent, updates, phase>>

Autoboot(i) == On("config") /\ Fill([form EXCEPT !.auto = SelectKey(@, i)])
PrebootCheck(i) == On("config") /\ Fill([form EXCEPT !.preboot = SelectKey(@, i)])
Enabled == SelectValue(form.auto)
Arrange ==
    /\ On("config") /\ Enabled
    /\ \E k \in 1..Len(form.order.active) :
          \/ Fill([form EXCEPT !.order = DeleteActive(@, k)])
          \/ Fill([form EXCEPT !.order = MoveFront(@, k)])
          \/ Fill([form EXCEPT !.order = MoveBack(@, k)])
ClearOrder == On("config") /\ Enabled /\ Fill([form EXCEPT !.order = ClearActive(@)])

\* config_screen_autoboot_any(): with the system information of the moment,
\* which is that of the form while the form is shown.
BootAny ==
    /\ On("config") /\ Enabled
    /\ Fill([form EXCEPT !.order =
               MakeActive(ClearActive(@), Len(sys.blk) + Len(sys.ifs) + TypeAny)])
Network(i) == On("config") /\ Fill([form EXCEPT !.net = SelectKey(@, i)])
Interface(i) ==
    /\ On("config") /\ SelectValue(form.net) # "all" /\ i <= Len(form.iface.vals)
    /\ Fill([form EXCEPT !.iface = SelectKey(@, i)])
Address == /\ On("config") /\ SelectValue(form.net) = "static"
           /\ Fill([form EXCEPT !.addr = ~@])

Goto(s) == /\ cur' = s
           /\ UNCHANGED <<sys, cfg, form, sub, need, ipmi, auth, sent, updates, phase>>
Help == On("config") /\ Goto("help")
Close == /\ On("config") /\ cur' = "closed" /\ form' = NoForm
         /\ UNCHANGED <<sys, cfg, sub, need, ipmi, auth, sent, updates, phase>>

\* password_click(): the form will be drawn anew.
Password == /\ On("config") /\ cur' = "password" /\ need' = TRUE
            /\ UNCHANGED <<sys, cfg, form, sub, ipmi, auth, sent, updates, phase>>

\* cui_show_subset(): the screen keeps a pointer to the widget it will change.
AddDevice ==
    /\ On("config") /\ Enabled /\ NInactive(form.order) > 0
    /\ cur' = "subset" /\ sub' = [of |-> form.name, sel |-> ShowInactive(form.order)]
    /\ UNCHANGED <<sys, cfg, form, need, ipmi, auth, sent, updates, phase>>
\* ok_click() of the subset screen, config_screen_update_subset().
SubsetOk(i) ==
    /\ On("subset")
    /\ form' = [form EXCEPT !.order = MakeActive(@, SelectValue(SelectKey(sub.sel, i)))]
    /\ cur' = "config" /\ sub' = NoSubset
    /\ UNCHANGED <<sys, cfg, need, ipmi, auth, sent, updates, phase>>
SubsetCancel == /\ On("subset") /\ cur' = "config" /\ sub' = NoSubset
                /\ UNCHANGED <<sys, cfg, form, need, ipmi, auth, sent, updates, phase>>

\* Leaving help or the password screen posts the form.
Return == /\ On("help") \/ On("password")
          /\ UNCHANGED <<sys, cfg, sub, auth, sent, updates>>
          /\ Post

-----------------------------------------------------------------------------
(* Sending: screen_process_form() reads the form with cui->sysinfo.           *)

NetType(f) == IF sys.ifs = <<>> THEN "all" ELSE SelectValue(f.net)
OutOfRange(f) == NetType(f) # "all" /\ SelectValue(f.iface) \notin 1..Len(sys.ifs)
Refused(f) == NetType(f) = "static" /\ ~f.addr

ProcessForm(f) ==
    [order |-> [i \in 1..Len(f.order.active) |-> Target(sys, f.order.active[i])],
     auto |-> SelectValue(f.auto), net |-> NetType(f),
     mac |-> IF NetType(f) = "all" THEN "none" ELSE sys.ifs[SelectValue(f.iface)],
     ipmi |-> cfg.ipmi, preboot |-> SelectValue(f.preboot),
     shown |-> Shown(f), shownMac |-> ShownMac(f), stale |-> need]

\* ok_click() and, once the password was sent, config_screen_config_cb(): the
\* screen is left if the form is accepted.
Send(to) ==
    IF OutOfRange(form)
    THEN phase' = "range" /\ UNCHANGED <<form, cur, need, ipmi, sent>>
    ELSE IF Refused(form) THEN sent' = sent /\ to
    ELSE /\ sent' = ProcessForm(form) /\ cur' = "closed" /\ form' = NoForm
         /\ UNCHANGED <<need, ipmi, phase>>
Ok ==
    /\ On("config") /\ UNCHANGED <<sys, cfg, sub, auth, updates>>
    /\ IF auth THEN Send(UNCHANGED <<cur, form, need, ipmi, phase>>)
       ELSE cur' = "auth" /\ UNCHANGED <<form, need, ipmi, sent, phase>>
AuthOk == On("auth") /\ UNCHANGED <<sys, cfg, sub, auth, updates>> /\ Send(Post)
AuthCancel == On("auth") /\ UNCHANGED <<sys, cfg, sub, auth, sent, updates>> /\ Post

\* config_copy() leaves out the check before booting (and two settings the
\* protocol does not carry), which a form that does not show it thus turns off.
ConfigCopy(c) == [c EXCEPT !.preboot = FALSE]

\* ipmi_clear_click(), ipmi_clear_mailbox_click(): the configuration as it is, without the override.
IpmiClear ==
    /\ On("config") /\ form.cfg.ipmi /\ cur' = "closed" /\ form' = NoForm
    /\ sent' = [ConfigCopy(cfg) EXCEPT !.ipmi = FALSE]
                 @@ [shown |-> cfg.order, shownMac |-> cfg.mac, stale |-> FALSE]
    /\ UNCHANGED <<sys, cfg, sub, need, ipmi, auth, updates, phase>>

Next == \/ Update \/ AuthResponse \/ Arrange \/ ClearOrder \/ BootAny \/ Address \/ Help
        \/ Close \/ Password \/ AddDevice \/ SubsetCancel \/ Return \/ Ok \/ AuthOk
        \/ AuthCancel \/ IpmiClear
        \/ \E i \in 1..2 : Autoboot(i) \/ PrebootCheck(i) \/ Interface(i)
        \/ \E i \in 1..3 : Network(i)
        \/ \E i \in 1..Len(sub.sel.vals) : SubsetOk(i)
Spec == Init /\ [][Next]_vars

-----------------------------------------------------------------------------
\* screen_process_form(): what OK sends is what the user saw: the boot devices
\* under the labels of the form, in the order shown and each once, and the
\* interface chosen; unless an update is pending below the password screen, when
\* the indices are read with a system information the form does not show.
SentAsShown ==
    sent # None /\ ~sent.stale =>
      /\ sent.order = sent.shown
      /\ Cardinality(Range(sent.order)) = Len(sent.order)
      /\ sent.net # "all" => sent.mac = sent.shownMac

\* config_screen_update(), config_screen_post(), subset_screen_update(): the form
\* the user works on was made from the configuration and the system information
\* in force, whichever screen was above it when they arrived; and the screen that
\* adds a boot device never outlives the widget it was opened for, and offers only
\* devices that are not in the order.
NothingStale ==
    /\ On("config") => form.cfg = cfg /\ form.sys = sys
    /\ On("subset") => /\ sub.of = form.name
                       /\ Range(sub.sel.vals) \cap Range(form.order.active) = {}
=============================================================================
