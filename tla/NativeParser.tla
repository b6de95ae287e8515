---------------------------- MODULE NativeParser ----------------------------
(***************************************************************************)
(* The parser of petitboot's own format (discover/native/): a grammar of   *)
(* global lines, then options of a name and at least one parameter.  An    *)
(* error ends the parse; options already finished stay.                    *)
(***************************************************************************)
EXTENDS ParserConf

NativeGlobal == {"default", "dev_description"}
NativeParam == {"image", "initrd", "dtb", "args", "description"}

\* at: where the grammar is: "globals", "name" (an option with no parameter
\* yet), "params" or "error".
NativeInit == [at |-> "globals", opt |-> NoOption, dflt |-> NoValue, desc |-> <<>>,
               out |-> <<>>]

NativeFinish(st) ==
    IF st.opt = NoOption THEN st
    ELSE [st EXCEPT !.out = Append(@, st.opt), !.opt = NoOption]

NativeSetResource(res, value) == IF res # NoRes THEN res ELSE DevRes(value[1])

NativeCreateOption(st, value) ==
    [NativeFinish(st) EXCEPT
        !.opt = [NewOption(value) EXCEPT !.dflt = st.dflt = value],
        !.at = "name"]

NativeSetParam(opt, l) ==
    CASE l.name = "image" -> [opt EXCEPT !.image = NativeSetResource(@, l.value)]
      [] l.name = "initrd" -> [opt EXCEPT !.initrd = NativeSetResource(@, l.value)]
      [] l.name = "dtb" -> [opt EXCEPT !.dtb = NativeSetResource(@, l.value)]
      [] l.name = "args" -> [opt EXCEPT !.args = @ \o l.value]
      [] OTHER -> opt

\* A line with a known keyword, according to the grammar.
NativeLine(st, l) ==
    CASE st.at = "error" -> st
      [] st.at = "globals" /\ l.name = "default" ->
           [st EXCEPT !.dflt = IF @ = NoValue THEN l.value ELSE @]
      [] st.at = "globals" /\ l.name = "dev_description" ->
           [st EXCEPT !.desc = @ \o l.value]
      [] st.at \in {"globals", "params"} /\ l.name = "name" ->
           NativeCreateOption(st, l.value)
      [] st.at \in {"name", "params"} /\ l.name \in NativeParam ->
           [st EXCEPT !.opt = NativeSetParam(@, l), !.at = "params"]
      [] OTHER -> [st EXCEPT !.at = "error"]

NativeEnd(st) == IF st.at = "params" THEN NativeFinish(st) ELSE [st EXCEPT !.at = "error"]

-----------------------------------------------------------------------------
(* What the file means.  A well-formed file gives all its options; one     *)
(* with an error those before it, without the one it ends.                 *)

NativeRef(file) ==
    LET names == At(file, DOMAIN file, {"name"})
        \* the first line, or the end, at which no sentence continues
        Wrong(i) ==
            \/ i \in DOMAIN file /\ file[i].name \in NativeGlobal /\ \E j \in names : j < i
            \/ i \in DOMAIN file /\ file[i].name \in NativeParam /\ ~\E j \in names : j < i
            \/ i - 1 \in names /\ (i \in names \/ i = Len(file) + 1)
            \/ i = Len(file) + 1 /\ names = {}
        wrong == {i \in 1 .. Len(file) + 1 : Wrong(i)}
        good == IF wrong = {} THEN names
                ELSE LET begun == {i \in names : i < Min(wrong)}
                     IN  IF begun = {} THEN {} ELSE begun \ {Max(begun)}
        order == InOrder(good)
        option(i) ==
            LET S == Section(file, i, names)
            IN  [NewOption(file[i].value) EXCEPT
                    !.dflt = FirstOf(file, 1 .. i, {"default"}) = file[i].value,
                    !.image = ResOrNone(FirstOf(file, S, {"image"})),
                    !.initrd = ResOrNone(FirstOf(file, S, {"initrd"})),
                    !.dtb = ResOrNone(FirstOf(file, S, {"dtb"})),
                    !.args = AllOf(file, S, {"args"})]
    IN  [n \in DOMAIN order |-> option(order[n])]
=============================================================================
