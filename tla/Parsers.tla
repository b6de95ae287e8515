------------------------------- MODULE Parsers -------------------------------
(***************************************************************************)
(* A configuration parser at work on the files of one device               *)
(* (discover/parser.c, and conf_parse_buf of discover/parser-conf.c): a    *)
(* line at a time, then the end of the file, then perhaps another file of  *)
(* the parser's list.  file records what was read.                         *)
(***************************************************************************)
EXTENDS PxeParser, SyslinuxParser, YabootParser, KbootParser, NativeParser

CONSTANTS MaxLines, MaxFiles   \* bounds on the lines and the files read

VARIABLES parser, mac, file, st, found, done

vars == <<parser, mac, file, st, found, done>>

ParserNames == {"pxe", "ipxe", "syslinux", "yaboot", "kboot", "native"}

Lines(p) ==
    CASE p = "pxe" ->
           {Line("DEFAULT", <<W("a")>>), Line("PROXY", <<W("p")>>),
            Line("LABEL", <<W("a")>>), Line("LABEL", <<W("b")>>),
            Line("PLUGIN", <<W("a")>>), Line("TARBALL", <<W("t")>>),
            Line("KERNEL", <<W("k")>>), Bare(<<KV("initrd", "i")>>),
            Line("APPEND", <<W("q"), KV("initrd", "j")>>), Line("IPAPPEND", <<W("2")>>)}
      [] p = "ipxe" ->
           {Line("kernel", <<W("k")>>), Line("kernel", <<W("k"), W("--name"), W("n"), W("q")>>),
            Line("kernel", <<W("l"), W("q")>>), Line("initrd", <<W("i")>>),
            Bare(<<W("boot")>>), Line("echo", <<W("q")>>)}
      [] p = "syslinux" ->
           {Line("default", <<W("a")>>), Line("label", <<W("a")>>), Line("label", <<W("linux")>>),
            Line("linux", <<W("k")>>), Line("kernel", <<KV("m", ".c32")>>),
            Line("append", <<W("q")>>), Line("append", <<W("-")>>),
            Line("initrd", <<W("i")>>), Line("com32", <<W("m")>>)}
      [] p = "yaboot" ->
           {Line("default", <<W("a")>>), Line("device", <<KV("sda", "1")>>),
            Line("partition", <<W("2")>>), Line("root", <<W("r")>>), Line("image", <<W("k")>>),
            Line("image[64bit]", <<W("install")>>), Line("label", <<W("a")>>),
            Line("initrd", <<W("i")>>), Bare(<<W("read-only")>>), Bare(<<W("read-write")>>)}
      [] p = "kboot" ->
           {Line("default", <<W("a")>>), Line("root", <<W("r")>>), Line("timeout", <<W("1")>>),
            Line("a", <<W("k"), KV("initrd", "i"), W("q")>>),
            Line("a", <<W("k"), W(""), KV("x", "y"), KV("root", "s")>>),
            Line("b", <<KV("sda", "k")>>), Line("dtb", <<W("d")>>)}
      [] p = "native" ->
           {Line("default", <<W("a")>>), Line("name", <<W("a")>>), Line("name", <<W("b")>>),
            Line("image", <<W("k")>>), Line("image", <<KV("sda", "l")>>),
            Line("initrd", <<W("i")>>), Line("args", <<W("q")>>)}

Start(p) == CASE p = "pxe" -> PxeInit(mac)
              [] p = "ipxe" -> IpxeInit
              [] p = "syslinux" -> SyslinuxInit
              [] p = "yaboot" -> YabootInit
              [] p = "kboot" -> KbootInit
              [] p = "native" -> NativeInit

ProcessPair(p, s, l) == CASE p = "pxe" -> PxePair(s, l)
                          [] p = "ipxe" -> IpxePair(s, l)
                          [] p = "syslinux" -> SyslinuxPair(s, l)
                          [] p = "yaboot" -> YabootPair(s, l)
                          [] p = "kboot" -> KbootPair(s, l)
                          [] p = "native" -> NativeLine(s, l)

Finish(p, s) == CASE p = "pxe" -> PxeFinish(s)
                  [] p = "ipxe" -> IpxeFinish(s)
                  [] p = "syslinux" -> SyslinuxFinalize(s)
                  [] p = "yaboot" -> YabootFinish(s)
                  [] p = "kboot" -> s
                  [] p = "native" -> NativeEnd(s)

Init ==
    /\ parser \in ParserNames
    /\ mac \in IF parser = "pxe" THEN BOOLEAN ELSE {TRUE}
    /\ file = <<>>
    /\ st = Start(parser)
    /\ found = {}
    /\ done = FALSE

Aborted == parser = "yaboot" /\ st.fault # None

Nested == parser = "syslinux" /\ st.level > 0

Reading == ~done /\ ~Aborted /\ Len(file) < MaxLines

\* One round of conf_parse_buf's loop.
ReadLine ==
    /\ Reading
    /\ \E l \in Lines(parser) \cup {Line("#", <<W("q")>>)} :
         /\ file' = IF Skipped(l) THEN file ELSE Append(file, l)
         /\ st' = IF Skipped(l) THEN st ELSE ProcessPair(parser, st, l)
    /\ UNCHANGED <<parser, mac, found, done>>

\* An include line of syslinux, and the end of the file it names; an
\* unreadable file, or nesting at the limit, adds nothing.
Include ==
    /\ Reading
    /\ parser = "syslinux" /\ SyslinuxCanInclude(st)
    /\ st' = SyslinuxInclude(st)
    /\ UNCHANGED <<parser, mac, file, found, done>>

IncludeEnd ==
    /\ ~done /\ Nested
    /\ st' = SyslinuxIncludeEnd(st)
    /\ UNCHANGED <<parser, mac, file, found, done>>

\* The parser's next file; its identity is the inode.  The syslinux and
\* kboot parsers pass over a file they have parsed under another name, and
\* the native parser stops at the first.
NextFile(ino) ==
    /\ Reading
    /\ ~Nested
    /\ parser \in {"syslinux", "yaboot", "kboot"}
    /\ parser # "yaboot" => ino \notin found
    /\ Cardinality(found) + 1 < MaxFiles
    /\ st' = Finish(parser, st)
    /\ file' = Append(file, Eof)
    /\ found' = found \cup {ino}
    /\ UNCHANGED <<parser, mac, done>>

End ==
    /\ ~done /\ ~Aborted /\ ~Nested
    /\ st' = Finish(parser, st)
    /\ done' = TRUE
    /\ UNCHANGED <<parser, mac, file, found>>

Next == ReadLine \/ Include \/ IncludeEnd \/ (\E ino \in 1 .. MaxFiles : NextFile(ino)) \/ End

Spec == Init /\ [][Next]_vars

-----------------------------------------------------------------------------
(* Properties *)

Meaning == CASE parser = "pxe" -> PxeRef(file, mac)
             [] parser = "ipxe" -> IpxeRef(file)
             [] parser = "syslinux" -> SyslinuxRef(Append(file, Eof))
             [] parser = "yaboot" -> YabootRef(file)
             [] parser = "kboot" -> KbootRef(file)
             [] parser = "native" -> NativeRef(file)

\* When a parser has read a device's files, the boot options it has added
\* are the ones the files describe, in their order, each once and with the
\* settings, the default flag and the resources that the format's rules
\* give it: the pair handlers, with what they remember from line to line
\* and what finish and finalize flush, compute the meaning of the file as
\* a whole.
OptionsAsWritten == done /\ ~Aborted => st.out = Meaning

\* test/parser/test-yaboot-leftovers.c: "Test that an absent parameter in
\* one boot option doesn't get set by a previous option".  An option has an
\* initrd, or a "ro" or "rw" argument, only from its own section.
NoLeftovers ==
    parser = "yaboot" /\ done /\ ~Aborted =>
        \A n \in DOMAIN st.out :
           LET own == YabootOwn(file)[n]
               Mounts == {i \in DOMAIN st.out[n].args :
                            st.out[n].args[i] \in {W("ro"), W("rw")}}
           IN  /\ st.out[n].initrd # NoRes => own.initrd
               /\ Mounts # {} => own.mount
=============================================================================
