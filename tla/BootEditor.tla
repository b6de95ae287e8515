------------------------------ MODULE BootEditor ------------------------------
(* The boot option editor (ui/ncurses/nc-boot-editor.c).  It splits the paths  *)
(* of an option into a device and the rest, and joins them again on OK; the    *)
(* list of devices may be replaced while the editor, or a help screen above    *)
(* it, is shown.  A path is the sequence of its components, so that the        *)
(* slashes that conditional_prefix() inserts need no mention.                  *)
EXTENDS Widgets

CONSTANTS Infos,      \* system informations: sequences of [name, mount]
          Options,    \* options edited: [image, initrd] (initrd for all the others)
          Paths,      \* what a user may type
          MaxInfos    \* bound on updates

VARIABLES info,       \* cui->sysinfo->blockdevs
          opt,        \* the option as it was
          cut,        \* components skipped in boot_editor->image, ... (find_device)
          device,     \* boot_editor->selected_device
          text,       \* the two text boxes
          list,       \* the device select
          state,      \* "edit", "help", "saved", "cancelled"
          need,       \* need_update
          out,        \* the paths saved
          by,         \* the device the user picked, "kept" if they did not
          typed, n, fault
vars == <<info, opt, cut, device, text, list, state, need, out, by, typed, n, fault>>

Manual == -1
\* A device that is not mounted has no prefix.
Mount(i) == info[i + 1].mount

PathOnDevice(d, path) == d.mount # <<>> /\ Len(path) > Len(d.mount) /\ IsPrefix(d.mount, path)

\* boot_editor_find_device(): the device with the longest mount point that holds
\* the image; it is taken if it holds the other files too.
Holders(ds, o) == {i \in 1..Len(ds) : PathOnDevice(ds[i], o.image)}
FindDeviceAny(ds, o) ==
    IF Holders(ds, o) = {} THEN 0
    ELSE CHOOSE i \in Holders(ds, o) :
           \A j \in Holders(ds, o) : \/ Len(ds[j].mount) < Len(ds[i].mount)
                                     \/ Len(ds[j].mount) = Len(ds[i].mount) /\ i <= j
FindDevice(ds, o) ==
    LET i == FindDeviceAny(ds, o)
    IN  IF i > 0 /\ (o.initrd = <<>> \/ PathOnDevice(ds[i], o.initrd)) THEN i ELSE 0

Strip(path, k) == SubSeq(path, k + 1, Len(path))

\* boot_editor_populate_device_select(): by name; the manual entry is last and
\* marked only when no device was selected.
Populate(ds, dev) ==
    SelectOf([i \in 1..(Len(ds) + 1) |-> IF i <= Len(ds) THEN i - 1 ELSE Manual],
             IF dev = "none" THEN {Manual} ELSE {i - 1 : i \in {j \in 1..Len(ds) : ds[j].name = dev}})

Init ==
    /\ info \in Infos /\ opt \in Options
    /\ LET i == FindDevice(info, opt)
       IN  /\ cut = IF i = 0 THEN 0 ELSE Len(info[i].mount)
           /\ device = IF i = 0 THEN "none" ELSE info[i].name
    /\ text = [image |-> Strip(opt.image, cut), initrd |-> Strip(opt.initrd, cut)]
    /\ list = Populate(info, device)
    /\ state = "edit" /\ need = FALSE /\ out = <<>> /\ by = "kept" /\ typed = FALSE
    /\ n = 0 /\ fault = "none"

On(s) == state = s /\ fault = "none"

\* boot_editor_update() of the shown editor frees the old strings: a pointer that
\* find_device() moved past the device's prefix is not one talloc returned.
Redraw == /\ need' = FALSE
          /\ IF cut > 0 THEN fault' = "free_inside" /\ UNCHANGED <<list>>
             ELSE fault' = fault /\ list' = Populate(info', device)

Update ==
    /\ On("edit") \/ On("help")
    /\ n < MaxInfos /\ n' = n + 1 /\ info' \in Infos \ {info}
    /\ IF state = "edit" THEN Redraw ELSE need' = TRUE /\ UNCHANGED <<list, fault>>
    /\ UNCHANGED <<opt, cut, device, text, state, out, by, typed>>

\* boot_editor_device_select_change()
Pick(i) ==
    /\ On("edit") /\ i <= Len(list.vals) /\ list' = SelectKey(list, i)
    /\ device' = IF SelectValue(list') = Manual THEN "none"
                 ELSE info[SelectValue(list') + 1].name
    /\ by' = device'
    /\ UNCHANGED <<info, opt, cut, text, state, need, out, typed, n, fault>>
Type(f, p) ==
    /\ On("edit") /\ text' = [text EXCEPT ![f] = p] /\ typed' = TRUE
    /\ UNCHANGED <<info, opt, cut, device, list, state, need, out, by, n, fault>>

Help == /\ On("edit") /\ state' = "help"
        /\ UNCHANGED <<info, opt, cut, device, text, list, need, out, by, typed, n, fault>>
\* boot_editor_post()
HelpExit == /\ On("help") /\ state' = "edit"
            /\ UNCHANGED <<info, opt, cut, device, text, out, by, typed, n>>
            /\ IF need THEN Redraw ELSE UNCHANGED <<list, need, fault>>
Cancel == /\ On("edit") /\ state' = "cancelled"
          /\ UNCHANGED <<info, opt, cut, device, text, list, need, out, by, typed, n, fault>>

\* conditional_prefix(), boot_editor_prepare_data(): without an image the editor
\* stays.  (The test of the index lets one past the end through.)
Prefixed(prefix, p) == IF p = <<>> THEN <<>> ELSE prefix \o p
Data == LET i == SelectValue(list)
            prefix == IF i = Manual \/ i > Len(info) THEN <<>> ELSE Mount(i)
        IN  [image |-> Prefixed(prefix, text.image), initrd |-> Prefixed(prefix, text.initrd)]
Save ==
    /\ On("edit") /\ text.image # <<>>
    /\ state' = "saved" /\ out' = <<Data>>
    /\ UNCHANGED <<info, opt, cut, device, text, list, need, by, typed, n, fault>>

Next == \/ Update \/ Help \/ HelpExit \/ Cancel \/ Save
        \/ \E i \in 1..Len(list.vals) : Pick(i)
        \/ \E f \in {"image", "initrd"}, p \in Paths : Type(f, p)
Spec == Init /\ [][Next]_vars

-----------------------------------------------------------------------------
\* boot_editor_find_device(), boot_editor_prepare_data(),
\* boot_editor_populate_device_select(): an option that is opened and saved
\* without a change keeps its paths, whatever devices came or went; and after any
\* update the device that is selected is the one the user picked, as long as the
\* system has it, and its index is one of the present list.
EditorFaithful ==
    /\ state = "saved" /\ ~typed /\ by = "kept" =>
         out[1].image = opt.image /\ out[1].initrd = opt.initrd
    /\ On("edit") =>
         LET i == SelectValue(list)
         IN  /\ i # Manual => i < Len(info)
             /\ by # "kept" /\ (by = "none" \/ \E j \in 1..Len(info) : info[j].name = by) =>
                  IF by = "none" THEN i = Manual ELSE i # Manual /\ info[i + 1].name = by
=============================================================================
