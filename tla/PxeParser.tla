------------------------------ MODULE PxeParser ------------------------------
(***************************************************************************)
(* The PXE configuration parser and its iPXE subset                        *)
(* (discover/pxe-parser.c), one operator per pair handler.  "url" stands   *)
(* for the configuration's own location, against which paths are joined.   *)
(***************************************************************************)
EXTENDS ParserConf

UrlRes(w) == [on |-> <<"url">>, path |-> <<w.v>>]

PxeInit(mac) == [opt |-> NoOption, dflt |-> NoValue, proxy |-> NoValue,
                 mac |-> mac, out |-> <<>>]

\* The last option of the file is never added.
PxeFinishDrops(st) == [st EXCEPT !.opt = NoOption]

PxeFinish(st) ==
    IF st.opt = NoOption THEN st
    ELSE [st EXCEPT !.out = Append(@, [st.opt EXCEPT !.proxy = st.proxy]),
                    !.opt = NoOption]

PxeAppend(opt, value) == [opt EXCEPT !.args = @ \o value]

\* Only bit 1, the interface's MAC address, is supported.
PxeSysappend(st, opt, value) ==
    IF value[1].v \in {"2", "3"} /\ st.mac
    THEN PxeAppend(opt, <<KV("BOOTIF", "01-mac")>>)
    ELSE opt

PxeStart(st, name, value) ==
    [PxeFinish(st) EXCEPT
        !.opt = IF name = "LABEL"
                THEN [NewOption(value) EXCEPT !.dflt = st.dflt = value]
                ELSE [NewOption(value) EXCEPT !.type = "plugin"]]

PxeSet(st, opt, name, value) ==
    LET res == UrlRes(value[1])
        initrd == SelectSeq(value, LAMBDA w : w.k = "initrd")
    IN  CASE name = "TARBALL" /\ opt.type = "plugin" ->
               [opt EXCEPT !.image = res]
          [] name = "KERNEL" -> [opt EXCEPT !.image = res, !.sig = SigOf(res)]
          [] name = "INITRD" -> [opt EXCEPT !.initrd = res]
          [] name = "APPEND" ->
               [PxeAppend(opt, value) EXCEPT
                   !.initrd = IF initrd = <<>> THEN @ ELSE UrlRes(initrd[1])]
          [] name \in {"SYSAPPEND", "IPAPPEND"} -> PxeSysappend(st, opt, value)
          [] name \in {"DTB", "FDT"} -> [opt EXCEPT !.dtb = res]
          [] OTHER -> opt

PxePair(st, l) ==
    LET quirk == l.name = None /\ l.value[1].k = "initrd"
        name  == IF quirk THEN "INITRD" ELSE l.name
        value == IF quirk THEN <<W(l.value[1].v)>> ELSE l.value
    IN  CASE name = None -> st
          [] name = "DEFAULT" -> [st EXCEPT !.dflt = value]
          [] name = "PROXY" -> [st EXCEPT !.proxy = value]
          [] name \in {"LABEL", "PLUGIN"} -> PxeStart(st, name, value)
          [] OTHER -> IF st.opt = NoOption THEN st
                      ELSE [st EXCEPT !.opt = PxeSet(st, @, name, value)]

-----------------------------------------------------------------------------
(* iPXE: one option for the whole script, offered if it names a kernel *)

IpxeInit == [opt |-> NewOption(NoValue), out |-> <<>>]

IpxeKernel(opt, value) ==
    LET named == Len(value) > 1 /\ value[2] = W("--name")
        args  == SubSeq(value, IF named THEN 4 ELSE 2, Len(value))
    IN  [opt EXCEPT
            !.image = UrlRes(value[1]),
            !.args = @ \o args,
            !.name = IF Len(value) = 1 THEN @
                     ELSE IF ~named THEN <<W("ipxe option"), value[1]>>
                     ELSE IF Len(value) > 2 THEN <<value[3]>>
                     ELSE <<W("malformed ipxe option")>>]

IpxePair(st, l) ==
    CASE l = Bare(<<W("boot")>>) -> [st EXCEPT !.opt.dflt = TRUE]
      [] l.name = "kernel" -> [st EXCEPT !.opt = IpxeKernel(@, l.value)]
      [] l.name = "initrd" -> [st EXCEPT !.opt.initrd = UrlRes(l.value[1])]
      [] OTHER -> st

IpxeFinish(st) ==
    IF st.opt.image = NoRes THEN st ELSE [st EXCEPT !.out = <<st.opt>>]

-----------------------------------------------------------------------------
(* What a file means: one option per LABEL or PLUGIN line, with the        *)
(* settings of the lines up to the next one.                               *)

PxeRef(file, mac) ==
    LET labels == At(file, DOMAIN file, {"LABEL", "PLUGIN"})
        order  == InOrder(labels)
        option(i) ==
            LET S == Section(file, i, labels)
                boot == file[i].name = "LABEL"
                image == LastOf(file, S, IF boot THEN {"KERNEL"} ELSE {"KERNEL", "TARBALL"})
                kernel == LastOf(file, S, {"KERNEL"})
                Quirk(j) == file[j].name = None /\ file[j].value[1].k = "initrd"
                Inline(j) == SelectSeq(file[j].value, LAMBDA w : w.k = "initrd")
                initrds == {j \in S : \/ file[j].name = "INITRD"
                                      \/ Quirk(j)
                                      \/ file[j].name = "APPEND" /\ Inline(j) # <<>>}
                dtb == LastOf(file, S, {"DTB", "FDT"})
                mine(j) == IF file[j].name = "APPEND" THEN file[j].value
                           ELSE IF /\ file[j].name \in {"SYSAPPEND", "IPAPPEND"}
                                   /\ mac /\ file[j].value[1].v \in {"2", "3"}
                           THEN <<KV("BOOTIF", "01-mac")>>
                           ELSE <<>>
                lines == InOrder(S)
            IN  [name |-> file[i].value,
                 type |-> IF boot THEN "boot" ELSE "plugin",
                 dflt |-> boot /\ LastOf(file, 1 .. i, {"DEFAULT"}) = file[i].value,
                 image |-> IF image = NoValue THEN NoRes ELSE UrlRes(image[1]),
                 sig |-> IF kernel = NoValue THEN NoRes ELSE SigOf(UrlRes(kernel[1])),
                 initrd |-> IF initrds = {} THEN NoRes
                            ELSE LET j == Max(initrds)
                                 IN  UrlRes(IF file[j].name = "APPEND"
                                            THEN Inline(j)[1] ELSE file[j].value[1]),
                 dtb |-> IF dtb = NoValue THEN NoRes ELSE UrlRes(dtb[1]),
                 args |-> FlattenSeq([n \in DOMAIN lines |-> mine(lines[n])]),
                 proxy |-> LastOf(file, 1 .. Max(S \cup {i}), {"PROXY"})]
    IN  [n \in DOMAIN order |-> option(order[n])]

IpxeRef(file) ==
    LET kernels == At(file, DOMAIN file, {"kernel"})
        initrd  == LastOf(file, DOMAIN file, {"initrd"})
        named   == {i \in kernels : Len(file[i].value) > 1}
        Args(v) == SubSeq(v, IF Len(v) > 1 /\ v[2] = W("--name") THEN 4 ELSE 2, Len(v))
        Name(v) == IF v[2] # W("--name") THEN <<W("ipxe option"), v[1]>>
                   ELSE IF Len(v) > 2 THEN <<v[3]>> ELSE <<W("malformed ipxe option")>>
        order   == InOrder(kernels)
    IN  IF kernels = {} THEN <<>>
        ELSE <<[NewOption(IF named = {} THEN NoValue ELSE Name(file[Max(named)].value))
                 EXCEPT !.dflt = \E i \in DOMAIN file : file[i] = Bare(<<W("boot")>>),
                        !.image = UrlRes(file[Max(kernels)].value[1]),
                        !.initrd = IF initrd = NoValue THEN NoRes ELSE UrlRes(initrd[1]),
                        !.args = FlattenSeq([n \in DOMAIN order |->
                                              Args(file[order[n]].value)])]>>
=============================================================================
