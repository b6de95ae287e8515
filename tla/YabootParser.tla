---------------------------- MODULE YabootParser ----------------------------
(***************************************************************************)
(* The yaboot parser (discover/yaboot-parser.c).  A device word [k, v] is  *)
(* a disk k and a partition number v.                                      *)
(***************************************************************************)
EXTENDS ParserConf

YabootGlobals == {"root", "device", "partition", "initrd", "initrd_size",
                  "video", "literal", "ramdisk", "default"}

Suse == {"image[32bit]", "image[64bit]"}

YabootInit ==
    [globals |-> InitGlobals(YabootGlobals), globalsDone |-> FALSE, opt |-> NoOption,
     device |-> NoValue, partition |-> NoValue, image |-> NoValue, initrd |-> NoValue,
     initrdSize |-> NoValue, literal |-> NoValue, ramdisk |-> NoValue,
     root |-> NoValue, ro |-> FALSE, rw |-> FALSE, out |-> <<>>, fault |-> None]

\* The settings of the new option start from the globals; image, initrd and
\* the two mount flags keep what they were.
StateStartNewOption(st) ==
    [st EXCEPT
        !.opt = [NewOption(NoValue) EXCEPT !.type = "started"],
        !.device = st.globals["device"],
        !.partition = st.globals["partition"],
        !.initrdSize = st.globals["initrd_size"],
        !.literal = st.globals["literal"],
        !.ramdisk = st.globals["ramdisk"],
        !.root = st.globals["root"]]

\* create_yaboot_devpath_resource: a path with its own device, the device
\* with its partition number replaced, the device, or the parser's device.
YabootRes(device, partition, w) ==
    [path |-> <<w.v>>,
     on |-> CASE w.k # "" -> <<w.k>>
              [] w.k = "" /\ device # NoValue ->
                   <<device[1].k, IF partition # NoValue THEN partition[1].v
                                  ELSE device[1].v>>
              [] OTHER -> <<"self">>]

Prefix(key, present, value) ==
    IF ~present THEN <<>> ELSE <<KV(key, IF value = NoValue THEN "(null)" ELSE value[1].v)>>

\* "ramdisk=" is given the value of initrd_size.
YabootArgs(st, append) ==
    IF st.literal # NoValue THEN st.literal
    ELSE (IF st.rw THEN <<W("rw")>> ELSE IF st.ro THEN <<W("ro")>> ELSE <<>>)
         \o Prefix("root", st.root # NoValue, st.root)
         \o Prefix("ramdisk", st.ramdisk # NoValue, st.initrdSize)
         \o Prefix("ramdisk_size", st.initrdSize # NoValue, st.initrdSize)
         \o append

YabootFinish(st) ==
    LET res(w) == YabootRes(st.device, st.partition, w)
    IN  IF st.opt = NoOption THEN st
        ELSE IF st.opt.name = NoValue THEN [st EXCEPT !.fault = "assert_name"]
        ELSE [st EXCEPT
                !.out = Append(@, [st.opt EXCEPT
                    !.type = "boot",
                    !.image = res(st.image[1]),
                    !.sig = SigOf(res(st.image[1])),
                    !.initrd = IF st.initrd = NoValue THEN NoRes ELSE res(st.initrd[1]),
                    !.args = YabootArgs(st, st.opt.args),
                    !.dflt = st.globals["default"] = st.opt.name]),
                !.ro = @ /\ ~st.rw,
                !.opt = NoOption]

YabootImage(st, l) ==
    LET new == StateStartNewOption(YabootFinish(st))
    IN  IF YabootFinish(st).fault # None THEN YabootFinish(st)
        ELSE IF l.name = "image" \/ l.value[1].v = "/install"
        THEN [new EXCEPT !.image = l.value, !.globalsDone = @ \/ l.name = "image"]
        ELSE [new EXCEPT !.image = <<W("/suseboot/vmlinux")>>,
                         !.initrd = <<W("/suseboot/initrd")>>]

YabootSet(st, name, value) ==
    CASE name = "initrd" -> [st EXCEPT !.initrd = value]
      [] name = "label" -> [st EXCEPT !.opt.name = value]
      [] name = "device" -> [st EXCEPT !.device = value]
      [] name = "parititon" -> [st EXCEPT !.partition = value]
      [] name = "append" -> [st EXCEPT !.opt.args = @ \o value]
      [] name = "initrd-size" -> [st EXCEPT !.initrdSize = value]
      [] name = "literal" -> [st EXCEPT !.literal = value]
      [] name = "ramdisk" -> [st EXCEPT !.ramdisk = value]
      [] name = "read-only" -> [st EXCEPT !.ro = TRUE]
      [] name = "read-write" -> [st EXCEPT !.rw = TRUE]
      [] name = "root" -> [st EXCEPT !.root = value]
      [] OTHER -> st

\* A bare value is its own name.
YabootName(l) == IF l.name = None THEN l.value[1].v ELSE l.name

YabootPair(st, l) ==
    LET name == YabootName(l)
    IN  CASE ~st.globalsDone /\ IsGlobal(st.globals, name) ->
               [st EXCEPT !.globals = SetGlobal(@, name, l.value)]
          [] name \in {"image"} \cup Suse -> YabootImage(st, l)
          [] OTHER -> IF st.opt = NoOption THEN st ELSE YabootSet(st, name, l.value)

-----------------------------------------------------------------------------
(* What the files mean.  Lines with a global name are global up to the     *)
(* first "image"; an option starts from the globals above its image line   *)
(* and takes the settings of its section.                                  *)

YabootRef(file) ==
    LET Name(i) == YabootName(file[i])
        Lines(S, name) == {i \in S \cap DOMAIN file : Name(i) = name}
        Value(I) == IF I = {} THEN NoValue ELSE file[Max(I)].value
        images == {i \in DOMAIN file : Name(i) \in {"image"} \cup Suse}
        first == Min(Lines(DOMAIN file, "image") \cup {Len(file) + 1})
        Globals(S, name) == IF name \in YabootGlobals THEN Lines(S \cap 1 .. first - 1, name)
                            ELSE {}
        ends == images \cup Lines(DOMAIN file, "eof")
        option(i) ==
            LET S == Section(file, i, ends)
                Own(name) == Lines(S, name) \ Globals(S, name)
                Setting(own, global) ==
                    IF Own(own) # {} THEN Value(Own(own)) ELSE Value(Globals(1 .. i, global))
                \* carried over from the sections above
                Since(name) == UNION {Lines(Section(file, j, ends), name)
                                        \ Globals(Section(file, j, ends), name)
                                       : j \in {k \in images : k <= i}}
                suse == {j \in images : j <= i /\ Name(j) \in Suse
                                        /\ file[j].value[1].v # "/install"}
                initrd == IF Since("initrd") \cup suse = {} THEN NoValue
                          ELSE IF Max(Since("initrd") \cup suse) \in suse
                          THEN <<W("/suseboot/initrd")>>
                          ELSE Value(Since("initrd"))
                image == IF i \in suse THEN <<W("/suseboot/vmlinux")>> ELSE file[i].value
                res(w) == YabootRes(Setting("device", "device"),
                                    Setting("parititon", "partition"), w)
                size == Setting("initrd-size", "initrd_size")
                literal == Setting("literal", "literal")
                root == Setting("root", "root")
                mount == IF Since("read-write") # {} THEN <<W("rw")>>
                         ELSE IF Since("read-only") # {} THEN <<W("ro")>> ELSE <<>>
                appends == InOrder(Own("append"))
            IN  [NewOption(Value(Own("label"))) EXCEPT
                    !.image = res(image[1]),
                    !.sig = SigOf(res(image[1])),
                    !.initrd = IF initrd = NoValue THEN NoRes ELSE res(initrd[1]),
                    !.dflt = Value(Globals(1 .. Max(S \cup {i}), "default"))
                             = Value(Own("label")),
                    !.args = IF literal # NoValue THEN literal
                             ELSE mount \o Prefix("root", root # NoValue, root)
                                  \o Prefix("ramdisk", Setting("ramdisk", "ramdisk") # NoValue, size)
                                  \o Prefix("ramdisk_size", size # NoValue, size)
                                  \o FlattenSeq([n \in DOMAIN appends |->
                                                  file[appends[n]].value])]
        order == InOrder(images)
    IN  [n \in DOMAIN order |-> option(order[n])]

\* The initrd and the mount flags that option i's own section gives it.
YabootOwn(file) ==
    LET Name(i) == YabootName(file[i])
        images == {i \in DOMAIN file : Name(i) \in {"image"} \cup Suse}
        ends == images \cup {i \in DOMAIN file : Name(i) = "eof"}
        order == InOrder(images)
        Has(i, name) == \E j \in Section(file, i, ends) : Name(j) = name
        own(i) == [initrd |-> Has(i, "initrd") \/ Name(i) \in Suse,
                   mount |-> Has(i, "read-only") \/ Has(i, "read-write")]
    IN  [n \in DOMAIN order |-> own(order[n])]
=============================================================================
