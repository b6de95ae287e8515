--------------------------------- MODULE Url ---------------------------------
(***************************************************************************)
(* URLs (lib/url/url.c) and what a DHCP lease asks for                     *)
(* (user_event_parse_conf_url and user_event_parse_conf_filenames of       *)
(* discover/user-event.c): where the configuration of a network boot is,   *)
(* and under which names it is looked for.                                 *)
(*                                                                         *)
(* A text is a sequence of characters; the scheme is kept apart.  "net"    *)
(* stands for the schemes with a host.  NoText is a NULL pointer.            *)
(***************************************************************************)
EXTENDS Naturals, Sequences, SequencesExt, FiniteSetsExt

CONSTANTS NoText, MaxJoins

VARIABLES
    urls,    \* the URLs handed to load_url_async()
    want,    \* the parts they are meant to have
    joins    \* references resolved so far

vars == <<urls, want, joins>>

Slash == "/"

\* strchr() and strrchr(): the first and the last place of c, 0 for none.
FirstOf(c, s) == SelectInSeq(s, LAMBDA x : x = c)
LastOf(c, s) == SelectLastInSeq(s, LAMBDA x : x = c)
From(s, i) == SubSeq(s, i, Len(s))

Text(scheme, s) == [scheme |-> scheme, rest |-> s]

IsUrl(t) == t.scheme # "none"

\* inet_pton(AF_INET6).
V6 == <<":", ":", "1">>

-----------------------------------------------------------------------------
Collapse(path) ==
    LET n == CHOOSE i \in 1 .. Len(path) : /\ \A j \in 1 .. i : path[j] = Slash
                                           /\ i < Len(path) => path[i + 1] # Slash
    IN  From(path, n)

\* pb_url_parse_path().
WithPath(u, path) ==
    LET p == LastOf(Slash, path)
    IN  [u EXCEPT !.path = path,
                  !.dir = IF p = 0 THEN NoText ELSE SubSeq(path, 1, p),
                  !.file = From(path, p + 1)]

NewUrl(t) == [scheme |-> IF t.scheme = "net" THEN "net" ELSE "file", full |-> t,
              host |-> NoText, port |-> NoText, path |-> <<>>, dir |-> NoText, file |-> <<>>]

\* Mutant: the port is looked for from the left.
HostPortFirst(p) ==
    LET slash == FirstOf(Slash, p)
        col == FirstOf(":", p)
    IN  IF col < 2 THEN <<SubSeq(p, 1, slash - 1), NoText>>
        ELSE <<SubSeq(p, 1, col - 1),
               IF slash = col + 1 THEN NoText ELSE SubSeq(p, col + 1, slash - 1)>>

\* Host and port of pb_url_parse().  The last colon is the one before the
\* port, wherever it stands; after an IPv6 address in brackets it is not.
\* With a colon in the path the length of the port is negative, and the
\* port runs to the end of the text.
HostPort(p) ==
    LET slash == FirstOf(Slash, p)
        last == LastOf(":", p)
        col == IF last < 2 \/ (\E i \in last .. Len(p) : p[i] = "]") THEN 0 ELSE last
        port == IF col = 0 \/ slash = col + 1 THEN NoText
                ELSE IF slash > col THEN SubSeq(p, col + 1, slash - 1) ELSE From(p, col + 1)
        len == IF col = 0 THEN slash - 1 ELSE col - 1
    IN  <<IF len > 1 /\ p[1] = "[" /\ p[len] = "]" THEN SubSeq(p, 2, len - 1)
          ELSE SubSeq(p, 1, len),
          port>>

PbUrlParse(t) ==
    IF t.scheme # "net" THEN WithPath(NewUrl(t), t.rest)
    ELSE IF FirstOf(Slash, t.rest) = 0 THEN NoText
    ELSE LET hp == HostPort(t.rest)
         IN  WithPath([NewUrl(t) EXCEPT !.host = hp[1], !.port = hp[2]],
                      Collapse(From(t.rest, FirstOf(Slash, t.rest))))

PbUrlToString(u) ==
    LET port == IF u.port = NoText THEN <<>> ELSE <<":">> \o u.port
        host == IF u.scheme = "file" THEN <<>>
                ELSE IF u.host = V6 THEN <<"[">> \o u.host \o <<"]">> ELSE u.host
    IN  Text(u.scheme, host \o port \o u.path)

\* A NULL dir is printed as text.
PbUrlJoin(u, s) ==
    IF IsUrl(s) THEN PbUrlParse(s)
    ELSE LET dir == IF u.dir = NoText THEN <<"(null)">> ELSE u.dir
             new == WithPath(u, IF s.rest[1] = Slash THEN s.rest ELSE dir \o s.rest)
         IN  [new EXCEPT !.full = PbUrlToString(new)]

-----------------------------------------------------------------------------
(* An event: conffile, pathprefix, bootfile and bootfile_url are texts or  *)
(* NoText; tftp, siaddr and serverid hosts or NoText; mac and ip texts.        *)

ParseHostAddr(e) ==
    IF e.tftp # NoText THEN e.tftp ELSE IF e.siaddr # NoText THEN e.siaddr ELSE e.serverid

Rest(t) == IF t = NoText THEN <<>> ELSE t.rest

StripSlashes(s) == IF s = <<>> \/ s[1] # Slash THEN s ELSE From(Collapse(s), 2)

\* The directory of the boot file, unless the conf file is absolute.
Basedir(e) ==
    LET p == LastOf(Slash, Rest(e.bootfile))
        dir == SubSeq(Rest(e.bootfile), 1, p - 1)
    IN  IF p < 2 \/ (e.conffile # NoText /\ e.conffile.rest[1] = Slash) THEN <<>>
        ELSE dir \o <<Slash>>

ParseConfUrl(e) ==
    IF e.conffile # NoText /\ IsUrl(e.conffile) THEN PbUrlParse(e.conffile)
    ELSE IF e.pathprefix # NoText /\ IsUrl(e.pathprefix)
    THEN PbUrlParse(Text(e.pathprefix.scheme, e.pathprefix.rest \o Rest(e.conffile)))
    ELSE IF ParseHostAddr(e) = NoText
    THEN IF e.bootfile_url = NoText THEN NoText ELSE PbUrlParse(e.bootfile_url)
    ELSE PbUrlParse(Text("net", ParseHostAddr(e) \o <<Slash>>
             \o (IF e.pathprefix # NoText THEN StripSlashes(Rest(e.pathprefix)) ELSE Basedir(e))
             \o Rest(e.conffile)))

IsComplete(e) ==
    \/ e.conffile # NoText
    \/ /\ ParseHostAddr(e) = NoText /\ e.bootfile_url # NoText
       /\ ~(e.pathprefix # NoText /\ IsUrl(e.pathprefix))

\* The MAC address, the IP address in hexadecimal and its prefixes, "default".
ParseConfFilenames(e) ==
    (IF e.mac = NoText THEN <<>> ELSE <<e.mac>>)
    \o [i \in 1 .. Len(e.ip) |-> SubSeq(e.ip, 1, Len(e.ip) - i + 1)]
    \o <<<<"d">>>>

PxelinuxPrefix == <<"x", Slash>>

\* The URLs pxe_parse() and pxe_load_next_filename() load, in order: the
\* complete one, or a name at a time; none when the lease says too little.
Requests(e) ==
    LET conf == ParseConfUrl(e)
        base == PbUrlJoin(conf, Text("none", PxelinuxPrefix))
        files == ParseConfFilenames(e)
    IN  IF conf = NoText THEN <<>>
        ELSE IF IsComplete(e) THEN <<conf>>
        ELSE IF e.mac = NoText /\ e.ip = <<>> THEN <<>>
        ELSE [i \in 1 .. Len(files) |-> PbUrlJoin(base, Text("none", files[i]))]

-----------------------------------------------------------------------------
(* What is meant, by parts: a host, a port, a path.                        *)

Parts(h, p, path) == [host |-> h, port |-> p, path |-> path]

\* The text of a URL with these parts.
Write(w) ==
    Text("net", (IF w.host = V6 THEN <<"[">> \o w.host \o <<"]">> ELSE w.host)
                \o (IF w.port = NoText THEN <<>> ELSE <<":">> \o w.port) \o w.path)

\* Resolving a reference against the directory of a path.
Resolved(path, s) ==
    IF s[1] = Slash THEN s
    ELSE LET dirs == {i \in 0 .. Len(path) : i = 0 \/ path[i] = Slash}
         IN  SubSeq(path, 1, Max(dirs)) \o s

\* The requests an event means: DHCP options 209 (conffile) and 210
\* (pathprefix) come first, then the TFTP server and the boot file.
Meant(e) ==
    LET host == CHOOSE h \in {e.tftp, e.siaddr, e.serverid} :
                    \/ h = e.tftp /\ h # NoText
                    \/ h = e.siaddr /\ e.tftp = NoText /\ h # NoText
                    \/ h = e.serverid /\ e.tftp = NoText /\ e.siaddr = NoText
        bootdir == SubSeq(Rest(e.bootfile), 1,
                          Max({0} \cup {i \in DOMAIN Rest(e.bootfile) : e.bootfile.rest[i] = Slash}))
        prefix == IF e.pathprefix # NoText THEN e.pathprefix.rest ELSE bootdir
        absolute == e.conffile # NoText /\ e.conffile.rest[1] = Slash
        conf ==
            IF e.conffile # NoText /\ IsUrl(e.conffile) THEN e.written
            ELSE IF e.pathprefix # NoText /\ IsUrl(e.pathprefix)
            THEN [e.written EXCEPT !.path = @ \o Rest(e.conffile)]
            ELSE IF host = NoText THEN e.written
            ELSE Parts(host, NoText, <<Slash>> \o (IF absolute /\ e.pathprefix = NoText THEN <<>> ELSE prefix)
                                   \o Rest(e.conffile))
        named(n) == [conf EXCEPT !.path = Resolved(conf.path, PxelinuxPrefix \o n)]
        ips == {SubSeq(e.ip, 1, i) : i \in 1 .. Len(e.ip)}
        all == SetToSeqs(ips \cup {<<"d">>} \cup (IF e.mac = NoText THEN {} ELSE {e.mac}))
        before(m, n) == \/ m = e.mac
                        \/ n = <<"d">>
                        \/ m \in ips /\ n \in ips /\ Len(m) >= Len(n)
        order == CHOOSE s \in all : \A i, j \in DOMAIN s : i <= j => before(s[i], s[j])
    IN  IF conf = NoText THEN <<>>
        ELSE IF e.conffile # NoText \/ (host = NoText /\ ~(e.pathprefix # NoText /\ IsUrl(e.pathprefix)))
        THEN <<conf>>
        ELSE IF e.mac = NoText /\ e.ip = <<>> THEN <<>>
        ELSE [i \in DOMAIN order |-> named(order[i])]

\* Two paths that differ in leading slashes name the same file.
SamePath(p, q) ==
    IF p # <<>> /\ q # <<>> /\ p[1] = Slash /\ q[1] = Slash THEN Collapse(p) = Collapse(q)
    ELSE p = q

Agrees(u, w) == /\ u # NoText
                /\ u.host = w.host /\ u.port = w.port
                /\ SamePath(u.path, w.path)

-----------------------------------------------------------------------------
CONSTANTS Written, Leases, References   \* parts, events, texts

Init ==
    /\ joins = 0
    /\ \/ \E w \in Written : urls = <<PbUrlParse(Write(w))>> /\ want = <<w>>
       \/ \E e \in Leases : urls = Requests(e) /\ want = Meant(e)

\* A configuration file names a kernel or an initrd (pxe_url_join()).
Join(s) ==
    /\ joins < MaxJoins
    /\ joins' = joins + 1
    /\ urls' = [i \in DOMAIN urls |-> PbUrlJoin(urls[i], s)]
    /\ want' = [i \in DOMAIN want |-> [want[i] EXCEPT !.path = Resolved(@, s.rest)]]

\* The reference is a URL.
JoinUrl(w) ==
    /\ joins < MaxJoins
    /\ joins' = joins + 1
    /\ urls' = [i \in DOMAIN urls |-> PbUrlJoin(urls[i], Write(w))]
    /\ want' = [i \in DOMAIN want |-> w]

Next == (\E s \in References : Join(s)) \/ (\E w \in Written : JoinUrl(w))

Spec == Init /\ [][Next]_vars

\* Every URL the loader is given has the host, the port and the path that
\* the text, the lease and the references meant, in its parts (which TFTP
\* and NFS loads use) and in its full text (which wget is given).
UrlsAsMeant ==
    /\ DOMAIN urls = DOMAIN want
    /\ \A i \in DOMAIN urls :
          Agrees(urls[i], want[i]) /\ Agrees(PbUrlParse(urls[i].full), want[i])
=============================================================================
