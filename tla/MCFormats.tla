------------------------------ MODULE MCFormats ------------------------------
(***************************************************************************)
(* What is read from files and leases, each explored on its own (side):    *)
(* URLs, configuration files line by line, GRUB's environment block, and   *)
(* GRUB's scripts.                                                         *)
(***************************************************************************)
EXTENDS Url, TLC
CONSTANTS IncludeNestLimit, MaxLines, MaxFiles, MaxLen, MaxStatements, SourceDepth
VARIABLES side, parser, mac, file, st, found, done, buf, last, length

\* URLs as users and leases write them.
H == <<"h">>
Paths == {<<"/">>, <<"/", "a">>, <<"/", "/", "a">>, <<"/", "a", "/", "b">>, <<"/", "a", "/">>}

MCWritten == {Parts(h, p, q) : h \in {H, V6}, p \in {NoText, <<"9">>}, q \in Paths}

MCReferences == {Text("none", s) :
    s \in {<<"a">>, <<"/", "b">>, <<"/", "/", "b">>, <<"c", "/">>, <<"c", "/", "a">>}}

Lease == [conffile |-> NoText, pathprefix |-> NoText, bootfile |-> NoText, bootfile_url |-> NoText,
          tftp |-> NoText, siaddr |-> NoText, serverid |-> NoText, mac |-> NoText, ip |-> <<>>,
          written |-> NoText]

Plain(s) == Text("none", s)
Conffiles == {NoText, Plain(<<"c">>), Plain(<<"/", "c">>), Plain(<<"c", "/", "a">>)}
Hosts == {NoText, H, <<"g">>}

Identified(e) == {[e EXCEPT !.mac = m, !.ip = i] :
                    m \in {NoText, <<"m">>}, i \in {<<>>, <<"0">>, <<"0", "1", "0">>}}

\* A lease carries at most one URL; plain conf files and prefixes are
\* combined with every choice of servers.
MCLeases ==
    UNION {Identified(e) : e \in
        {[Lease EXCEPT !.conffile = Write(w), !.written = w, !.tftp = t] : w \in MCWritten, t \in Hosts}
        \cup {[Lease EXCEPT !.pathprefix = Write(w), !.written = w, !.conffile = c] :
                w \in MCWritten, c \in Conffiles}
        \cup {[Lease EXCEPT !.bootfile_url = Write(w), !.written = w, !.tftp = t] :
                w \in MCWritten, t \in Hosts}
        \cup {[Lease EXCEPT !.conffile = c, !.pathprefix = p, !.bootfile = b,
                            !.tftp = t[1], !.siaddr = t[2], !.serverid = t[3]] :
                c \in Conffiles,
                p \in {NoText, Plain(<<"/", "p", "/">>), Plain(<<"p", "/">>), Plain(<<"p">>)},
                b \in {NoText, Plain(<<"b">>), Plain(<<"d", "/", "b">>), Plain(<<"/", "b">>)},
                t \in Hosts \X Hosts \X Hosts}}

-----------------------------------------------------------------------------
Pa == INSTANCE Parsers

Env == INSTANCE GrubEnv WITH
         Bytes <- {"a", "b"}, EnvNames <- {<<"a">>, <<"b">>},
         EnvValues <- {<<>>, <<"a">>, <<"b", "a">>}

-----------------------------------------------------------------------------
(* The statements distributions write: saved and next entries, entries with    *)
(* ids and without, submenus, functions, loops, a search for the root device,  *)
(* an included file, and BLS files.                                            *)
T(x) == <<[t |-> "text", v |-> x]>>
Q(x) == <<[t |-> "var", v |-> x]>>
V(x) == <<[t |-> "split", v |-> x]>>
Cmd(words) == [k |-> "simple", words |-> words]
Set(n, word) == Cmd(<<T(<<"set">>), T(<<n, "=">>) \o word>>)
Linux(w) == Cmd(<<T(<<"linux">>), w, V(<<"args">>)>>)
Entry(words, body) == [k |-> "menuentry", words |-> words, body |-> body]

SomeEntries ==
  {Entry(<<T(<<"Linux">>)>>, <<Linux(T(<<"/k1">>)), Cmd(<<T(<<"initrd">>), T(<<"/i1">>)>>)>>),
   Entry(<<T(<<"Old">>), T(<<"--id", "=", "old">>)>>,
         <<Linux(T(<<"(", "u1", ")", "/k2">>)), Cmd(<<T(<<"save">>), T(<<"old">>)>>)>>),
   Entry(<<T(<<"Broken">>)>>, <<Cmd(<<T(<<"initrd">>), T(<<"/i3">>)>>)>>),
   [k |-> "block", body |-> <<Entry(<<T(<<"Sub">>)>>, <<Linux(T(<<"/k4">>))>>),
                             Entry(<<Q(<<"x">>)>>, <<Linux(T(<<"/k5">>))>>)>>]}

SomeOthers ==
  {Cmd(<<T(<<"load_env">>)>>),
   Set("default", T(<<"1">>)),
   Set("default", Q(<<"saved_entry">>)),
   [k |-> "if",
    conds |-> <<[cond |-> Cmd(<<T(<<"[">>), Q(<<"next_entry">>), T(<<"]">>)>>),
                 body |-> <<Set("default", Q(<<"next_entry">>)),
                            Set("next_entry", <<>>),
                            Cmd(<<T(<<"save_env">>), T(<<"next_entry">>)>>)>>]>>,
    else |-> <<Set("default", T(<<"Sub">>))>>],
   [k |-> "function", name |-> <<"save">>,
    body |-> <<Set("saved_entry", Q(<<"1">>)),
               Cmd(<<T(<<"save_env">>), T(<<"saved_entry">>)>>)>>],
   [k |-> "for", var |-> <<"x">>, words |-> <<V(<<"list">>)>>,
    body |-> <<Entry(<<Q(<<"x">>)>>, <<Linux(T(<<"/k6">>))>>)>>],
   Cmd(<<T(<<"list", "=", "One">>)>>),
   Set("args", T(<<"quiet", " ", "splash">>)),
   Cmd(<<T(<<"search">>), T(<<"--set", "=", "root">>), T(<<"u2">>)>>),
   Cmd(<<T(<<"source">>), T(<<"/more">>)>>),
   Cmd(<<T(<<"source">>), T(<<"/bad">>)>>),
   Cmd(<<T(<<"blscfg">>)>>)}

Statements == SomeEntries \cup SomeOthers

KnownDevices == (<<"u1">> :> <<"sda1">>)
Unparsable == {<<"/bad">>}
Files == {<<<<"self">>, <<"/k1">>>>}
Sources == (<<"/more">> :> <<Entry(<<T(<<"More">>), T(<<"--id">>), T(<<"more">>)>>,
                                     <<Linux(T(<<"/k7">>))>>)>>)
BlsFiles == <<[id |-> <<"new">>, title |-> T(<<"New">>), version |-> <<>>, machine |-> <<>>,
            linux |-> T(<<"/k8">>), options |-> V(<<"args">>), readable |-> TRUE],
           [id |-> <<"prev">>, title |-> <<>>, version |-> T(<<"5">>), machine |-> T(<<"m">>),
            linux |-> T(<<"/k9">>), options |-> <<>>, readable |-> TRUE]>>
SavedEnv == (<<"saved_entry">> :> <<"old">>) @@ (<<"next_entry">> :> <<"2">>)

Gs == INSTANCE GrubScript

\* The variables of the parsers, of the block and of scripts; the parsers and
\* the scripts share st and done.
NoLines == parser = "none" /\ mac = FALSE /\ file = <<>> /\ found = {}
NoBlock == buf = <<>> /\ last = <<>>
NoState == st = <<>> /\ done = FALSE

MCInit ==
    \/ side = "url" /\ Init /\ NoLines /\ NoBlock /\ NoState /\ length = 0
    \/ /\ urls = <<>> /\ want = <<>> /\ joins = 0
       /\ \/ side = "lines" /\ Pa!Init /\ NoBlock /\ length = 0
          \/ side = "block" /\ Env!Init /\ NoLines /\ NoState /\ length = 0
          \/ side = "script" /\ Gs!Init /\ NoLines /\ NoBlock

MCNext ==
    /\ UNCHANGED side
    /\ \/ /\ side = "url" /\ Next
          /\ UNCHANGED <<parser, mac, file, st, found, done, buf, last, length>>
       \/ /\ side = "lines" /\ Pa!Next
          /\ UNCHANGED <<vars, buf, last, length>>
       \/ /\ side = "block" /\ Env!Next
          /\ UNCHANGED <<vars, parser, mac, file, st, found, done, length>>
       \/ /\ side = "script" /\ Gs!Next
          /\ UNCHANGED <<vars, parser, mac, file, found, buf, last>>

MCSpec == MCInit /\ [][MCNext]_<<vars, side, parser, mac, file, st, found, done, buf, last, length>>

-----------------------------------------------------------------------------
\* Parsers' property: the options are the ones the files say.
OptionsAsWritten == side = "lines" => Pa!OptionsAsWritten
\* Parsers' property: no setting of an image is left over for the next.
NoLeftovers == side = "lines" => Pa!NoLeftovers
\* GrubEnv's property: what was saved is what the next boot loads.
EnvSaved == side = "block" => Env!EnvSaved
\* GrubScript's property: the default option is the one the script names.
GrubDefault == side = "script" => Gs!GrubDefault
=============================================================================
