----------------------------- MODULE ParserConf -----------------------------
(***************************************************************************)
(* What the line-oriented configuration parsers share                      *)
(* (discover/parser-conf.c, discover/resource.c) and the boot option they  *)
(* produce.  A line is what conf_get_pair returns of it: a name, None when *)
(* the line has no delimiter, and a value, a sequence of words.  A word    *)
(* [k, v] is the text "v", or "k=v" in an argument, or "k:v" in a path.    *)
(* The absent value (a NULL pointer) is the empty sequence: conf_parse_buf *)
(* never hands an empty value to a parser.                                 *)
(***************************************************************************)
EXTENDS Integers, SequencesExt

None == "none"
NoValue == <<>>

W(v) == [k |-> "", v |-> v]

KV(k, v) == [k |-> k, v |-> v]

Line(name, value) == [name |-> name, value |-> value]

Bare(value) == Line(None, value)

\* The end of one file; conf_parse_buf calls conf->finish there.
Eof == Line("eof", <<W("")>>)

\* conf_parse_buf passes over empty values and comments.
Skipped(l) ==
    \/ l.value = NoValue
    \/ l.name = "#"
    \/ l.value[1].v = "#"

-----------------------------------------------------------------------------
(* The global option table *)

InitGlobals(names) == [n \in names |-> NoValue]

IsGlobal(globals, name) == name \in DOMAIN globals

SetGlobal(globals, name, value) == [globals EXCEPT ![name] = value]

-----------------------------------------------------------------------------
(* Resources: a path on the parser's own device or, when the path names a  *)
(* device, one that waits for that device.  The signature of the kernel's  *)
(* arguments is looked for beside the kernel.                              *)

NoRes == [on |-> <<>>, path |-> <<>>]

DevRes(w) == [on |-> IF w.k = "" THEN <<"self">> ELSE <<w.k>>, path |-> <<w.v>>]

SigOf(res) == [res EXCEPT !.path = Append(@, ".cmdline.sig")]

ResOrNone(value) == IF value = NoValue THEN NoRes ELSE DevRes(value[1])

NoOption == [name |-> NoValue, type |-> None, dflt |-> FALSE, image |-> NoRes,
             sig |-> NoRes, initrd |-> NoRes, dtb |-> NoRes, args |-> <<>>,
             proxy |-> NoValue]

NewOption(name) == [NoOption EXCEPT !.name = name, !.type = "boot"]

-----------------------------------------------------------------------------
(* Reading a file as a whole, for the reference definitions *)

At(file, S, names) == {i \in S \cap DOMAIN file : file[i].name \in names}

LastOf(file, S, names) ==
    LET I == At(file, S, names)
    IN  IF I = {} THEN NoValue ELSE file[Max(I)].value

FirstOf(file, S, names) ==
    LET I == At(file, S, names)
    IN  IF I = {} THEN NoValue ELSE file[Min(I)].value

\* All the values of such lines, in order.
AllOf(file, S, names) ==
    LET I == SetToSortSeq(At(file, S, names), <)
    IN  FlattenSeq([j \in DOMAIN I |-> file[I[j]].value])

\* The lines after i, up to and without the next one at an index of S.
Section(file, i, S) ==
    LET later == {j \in S : j > i}
    IN  (i + 1) .. (IF later = {} THEN Len(file) ELSE Min(later) - 1)

InOrder(S) == SetToSortSeq(S, <)
=============================================================================
