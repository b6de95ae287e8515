--------------------------- MODULE SyslinuxParser ---------------------------
(***************************************************************************)
(* The syslinux parser (discover/syslinux-parser.c).  Options are gathered *)
(* block by block and turned into boot options at the end of each file,    *)
(* when the global settings are known.                                     *)
(***************************************************************************)
EXTENDS ParserConf

CONSTANT IncludeNestLimit   \* INCLUDE_NEST_LIMIT, 16 in the code

SyslinuxIgnored ==
    {"config", "sysapend", "localboot", "ui", "prompt", "noescape", "nocomplete",
     "allowoptions", "timeout", "totaltimeout", "ontimeout", "onerror", "serial",
     "nohalt", "console", "font", "kbdmap", "say", "display", "f1", "f2", "f3", "f4",
     "f5", "f6", "f7", "f8", "f9", "f10", "f11", "f12"}
SyslinuxUnsupportedBoot == {"boot", "bss", "pxe", "fdimage", "comboot", "com32"}

\* A block is [label, image, append, initrd] of values; open says that
\* current_option is not NULL.
Block == [label |-> NoValue, image |-> NoValue, append |-> NoValue, initrd |-> NoValue]

SyslinuxInit ==
    [globals |-> [InitGlobals({"default", "implicit", "append"}) EXCEPT
                     !["default"] = <<W("linux")>>, !["implicit"] = <<W("1")>>],
     open |-> FALSE, cur |-> Block, processed |-> <<>>, level |-> 0, out |-> <<>>]

FinishBootOption(st, freeIfUnused) ==
    IF st.open /\ st.cur.image # NoValue
    THEN [st EXCEPT !.processed = Append(@, st.cur), !.open = FALSE, !.cur = Block]
    ELSE IF freeIfUnused THEN [st EXCEPT !.open = FALSE, !.cur = Block]
    ELSE st

StartNewOption(st) == [FinishBootOption(st, FALSE) EXCEPT !.open = TRUE]

\* A kernel file name with an extension of another format; the word's k
\* is the name and v the extension.
UnsupportedExtension(value) ==
    value[1].v \in {".0", ".bin", ".bs", ".bss", ".c32", ".cbt", ".com", ".img"}

SyslinuxGlobal(st, l) ==
    FinishBootOption([st EXCEPT !.globals = SetGlobal(@, l.name, l.value)], TRUE)

SyslinuxAppend(st, l) ==
    IF st.open THEN [st EXCEPT !.cur.append = l.value]
    ELSE [st EXCEPT !.globals = SetGlobal(@, "append", l.value)]

SyslinuxKernel(st, l) ==
    IF l.name = "kernel" /\ UnsupportedExtension(l.value)
    THEN FinishBootOption(StartNewOption(st), TRUE)
    ELSE [StartNewOption(st) EXCEPT !.cur.image = l.value]

SyslinuxPair(st, l) ==
    CASE l.name = None \/ l.name \in SyslinuxIgnored -> st
      [] l.name \in SyslinuxUnsupportedBoot -> FinishBootOption(st, TRUE)
      [] l.name = "label" ->
           [FinishBootOption(st, TRUE) EXCEPT !.open = TRUE, !.cur.label = l.value]
      [] l.name \in {"linux", "kernel"} -> SyslinuxKernel(st, l)
      [] l.name = "append" -> SyslinuxAppend(st, l)
      [] l.name # "append" /\ IsGlobal(st.globals, l.name) -> SyslinuxGlobal(st, l)
      [] l.name = "initrd" -> IF st.open THEN [st EXCEPT !.cur.initrd = l.value] ELSE st
      [] OTHER -> st

\* "include": the lines of the file follow, unless it cannot be read or the
\* nesting is at its limit.
SyslinuxInclude(st) == [st EXCEPT !.level = @ + 1]
SyslinuxCanInclude(st) == st.level < IncludeNestLimit
SyslinuxIncludeEnd(st) == [st EXCEPT !.level = @ - 1]

-----------------------------------------------------------------------------
(* syslinux_finalize *)

BootArgs(append, global) ==
    IF append = NoValue THEN global
    ELSE IF append = <<W("-")>> THEN <<W("")>>
    ELSE global \o append

\* The comma operator in the test of "implicit" makes it always false: an
\* image without a label is not offered, nor is one without arguments.
Offered(block, global) ==
    /\ block.label # NoValue
    /\ BootArgs(block.append, global) # NoValue

SyslinuxOption(block, globals) ==
    [NewOption(block.label) EXCEPT
        !.dflt = block.label = globals["default"],
        !.image = DevRes(block.image[1]),
        !.sig = SigOf(DevRes(block.image[1])),
        !.initrd = ResOrNone(block.initrd),
        !.args = BootArgs(block.append, globals["append"])]

SyslinuxFinalize(s) ==
    LET st == FinishBootOption(s, TRUE)
        kept == SelectSeq(st.processed,
                          LAMBDA b : Offered(b, st.globals["append"]))
    IN  [st EXCEPT
            !.out = @ \o [i \in DOMAIN kept |-> SyslinuxOption(kept[i], st.globals)],
            !.processed = <<>>]

-----------------------------------------------------------------------------
(* What the files mean.  A block is opened by a label or, without one, by  *)
(* an image, and ends at the next label, image, global setting or boot     *)
(* entry of another kind; an append outside every block is global.         *)

SyslinuxRef(file) ==
    LET Named(i, S) == file[i].name \in S
        BadKernel(i) == Named(i, {"kernel"}) /\ UnsupportedExtension(file[i].value)
        Image(i) == Named(i, {"linux", "kernel"}) /\ ~BadKernel(i)
        Ender(i) == \/ Named(i, SyslinuxUnsupportedBoot \cup {"default", "implicit", "eof"})
                    \/ BadKernel(i)
        Stop(i) == Named(i, {"label"}) \/ Image(i) \/ Ender(i)
        images == {i \in DOMAIN file : Image(i)}
        before(i) == {j \in 1 .. i - 1 : Stop(j)}
        labelOf(i) == IF before(i) # {} /\ Named(Max(before(i)), {"label"})
                      THEN Max(before(i)) ELSE i
        block(i) == labelOf(i) .. Min({j \in i + 1 .. Len(file) : Stop(j)}
                                      \cup {Len(file) + 1}) - 1
        \* a label whose block never gets an image also takes its appends
        inBlock(j) == /\ before(j) # {}
                      /\ ~Ender(Max(before(j)))
        \* the settings in force at the end of the file a line belongs to
        fileEnd(i) == Min({j \in i .. Len(file) : Named(j, {"eof"})} \cup {Len(file)})
        globalAppend(i) ==
            LET G == {j \in 1 .. fileEnd(i) : Named(j, {"append"}) /\ ~inBlock(j)}
            IN  IF G = {} THEN NoValue ELSE file[Max(G)].value
        default(i) == LET v == LastOf(file, 1 .. fileEnd(i), {"default"})
                      IN  IF v = NoValue THEN <<W("linux")>> ELSE v
        args(i) ==
            LET own == LastOf(file, block(i), {"append"})
            IN  CASE own = <<W("-")>> -> <<W("")>>
                  [] own = NoValue -> globalAppend(i)
                  [] OTHER -> globalAppend(i) \o own
        order == InOrder({i \in images : labelOf(i) # i /\ args(i) # NoValue})
        option(i) ==
            [NewOption(file[labelOf(i)].value) EXCEPT
                !.dflt = file[labelOf(i)].value = default(i),
                !.image = DevRes(file[i].value[1]),
                !.sig = SigOf(DevRes(file[i].value[1])),
                !.initrd = ResOrNone(LastOf(file, block(i), {"initrd"})),
                !.args = args(i)]
    IN  [n \in DOMAIN order |-> option(order[n])]
=============================================================================
