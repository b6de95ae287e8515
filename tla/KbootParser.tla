----------------------------- MODULE KbootParser -----------------------------
(***************************************************************************)
(* The kboot parser (discover/kboot-parser.c): every line that is neither  *)
(* ignored nor a global setting is a boot option.                          *)
(***************************************************************************)
EXTENDS ParserConf

KbootGlobals == {"dtb", "initrd", "root", "video", "default"}
KbootIgnored == {"delay", "message", "timeout"}

KbootInit == [globals |-> InitGlobals(KbootGlobals), out |-> <<>>]

\* The last word "key=v" of the command line, or the global setting.
Setting(words, globals, key) ==
    LET mine == SelectSeq(words, LAMBDA w : w.k = key)
    IN  IF mine = <<>> THEN globals[key] ELSE <<W(mine[Len(mine)].v)>>

\* An empty word, between two blanks, is printed as a null pointer.
KbootArg(w) == IF w = W("") THEN W("(null)") ELSE w

KbootOption(name, value, globals) ==
    LET words == Tail(value)
        plain == SelectSeq(words, LAMBDA w : w.k \notin {"initrd", "root", "dtb"})
        root  == Setting(words, globals, "root")
    IN  [NewOption(<<W(name)>>) EXCEPT
            !.image = DevRes(value[1]),
            !.sig = SigOf(DevRes(value[1])),
            !.args = (IF root = NoValue THEN <<>> ELSE <<KV("root", root[1].v)>>)
                     \o [i \in DOMAIN plain |-> KbootArg(plain[i])],
            !.initrd = ResOrNone(Setting(words, globals, "initrd")),
            !.dtb = ResOrNone(Setting(words, globals, "dtb")),
            !.dflt = globals["default"] = <<W(name)>>]

KbootPair(st, l) ==
    CASE l.name = None \/ l.name \in KbootIgnored -> st
      [] IsGlobal(st.globals, l.name) ->
           [st EXCEPT !.globals = SetGlobal(@, l.name, l.value)]
      [] OTHER ->
           [st EXCEPT !.out = Append(@, KbootOption(l.name, l.value, st.globals))]

-----------------------------------------------------------------------------
(* What the files mean: an option's own words before the last global line  *)
(* above it.                                                               *)

KbootRef(file) ==
    LET options == {i \in DOMAIN file :
                      file[i].name \notin KbootIgnored \cup KbootGlobals
                                          \cup {None, "eof", "#"}}
        order == InOrder(options)
        option(i) ==
            LET v == file[i].value
                Own(key) == {j \in 2 .. Len(v) : v[j].k = key}
                Global(key) == LastOf(file, 1 .. i, {key})
                Res(key) == IF Own(key) # {} THEN DevRes(W(v[Max(Own(key))].v))
                            ELSE ResOrNone(Global(key))
                root == IF Own("root") # {} THEN <<KV("root", v[Max(Own("root"))].v)>>
                        ELSE IF Global("root") = NoValue THEN <<>>
                        ELSE <<KV("root", Global("root")[1].v)>>
                rest == InOrder((2 .. Len(v))
                                \ (Own("root") \cup Own("initrd") \cup Own("dtb")))
            IN  [NewOption(<<W(file[i].name)>>) EXCEPT
                    !.image = DevRes(v[1]),
                    !.sig = SigOf(DevRes(v[1])),
                    !.initrd = Res("initrd"),
                    !.dtb = Res("dtb"),
                    !.args = root \o [n \in DOMAIN rest |-> KbootArg(v[rest[n]])],
                    !.dflt = Global("default") = <<W(file[i].name)>>]
    IN  [n \in DOMAIN order |-> option(order[n])]
=============================================================================
