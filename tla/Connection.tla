----------------------------- MODULE Connection -----------------------------
(***************************************************************************)
(* One connection between the discover server and a UI, in one direction:  *)
(* pb_protocol_write_message and pb_protocol_read_message on a blocking    *)
(* stream socket (lib/pb-protocol/pb-protocol.c), with what their callers  *)
(* do when they fail.  A write may be short, a read returns what is there, *)
(* and a signal (the server handles SIGCHLD without SA_RESTART) may end    *)
(* either with an error.                                                   *)
(***************************************************************************)
EXTENDS Messages

CONSTANTS MaxPayload,   \* PB_PROTOCOL_MAX_PAYLOAD_SIZE
          Capacity,     \* bytes the socket holds
          Scripts       \* the sequences of messages <<kind, message>> to send

VARIABLES
    whole,      \* this connection moves as many bytes as it can at a time
    script,     \* the messages to send
    next,       \* the index of the next one
    out,        \* bytes of the current message not written yet
    chan,       \* bytes in the socket
    rx,         \* the message being read: [kind, need, buf]
    got,        \* what the reader's callers received
    closed,     \* client->remote_closed
    ended,      \* the reader has given the connection up
    fault

vars == <<whole, script, next, out, chan, rx, got, closed, ended, fault>>

Kinds == <<"device", "option", "remove", "none", "boot", "status", "cancel", "sysinfo",
           "config", "reinit", "url", "plugin", "plugins_remove", "install", "temp", "auth">>

Action(kind) == CHOOSE a \in DOMAIN Kinds : Kinds[a] = kind

Idle == [kind |-> "none", need |-> 0, buf |-> <<>>]

HeaderSize == 8

Init ==
    /\ script \in Scripts
    /\ whole \in BOOLEAN
    /\ next = 1 /\ out = <<>> /\ chan = <<>> /\ rx = Idle /\ got = <<>>
    /\ closed = FALSE /\ ended = FALSE /\ fault = "none"

Kind(i) == script[i][1]
Message(i) == script[i][2]

TooBig(i) == PayloadLen(Kind(i), Message(i)) > MaxPayload

\* pb_protocol_create_message and the serialiser, with its assertion; the
\* payload may be longer than what is written into it.
Frame(i) ==
    LET len == PayloadLen(Kind(i), Message(i))
        bytes == Serialise(Kind(i), Message(i))
    IN  Be32(Action(Kind(i))) \o Be32(len)
        \o bytes \o [j \in 1 .. len - Len(bytes) |-> Unwritten]

Overflows(i) == Len(Serialise(Kind(i), Message(i))) > PayloadLen(Kind(i), Message(i))

Portion(n) == IF whole THEN {n} ELSE 1 .. n

Smaller(a, b) == IF a < b THEN a ELSE b

\* A message that is too big is not sent at all; nothing is sent once a
\* write has failed.
Send ==
    /\ fault = "none"
    /\ next <= Len(script) /\ out = <<>>
    /\ next' = next + 1
    /\ IF closed \/ TooBig(next) THEN UNCHANGED <<out, fault>>
       ELSE IF Overflows(next) THEN fault' = "assert_length" /\ UNCHANGED out
       ELSE out' = Frame(next) /\ UNCHANGED fault
    /\ UNCHANGED <<whole, script, chan, rx, got, closed, ended>>

Room == Smaller(Capacity - Len(chan), Len(out))

\* One round of pb_protocol_write_message's loop.
Write ==
    /\ out # <<>> /\ Room > 0 /\ ~ended
    /\ \E n \in Portion(Room) :
         /\ chan' = chan \o SubSeq(out, 1, n)
         /\ out' = SubSeq(out, n + 1, Len(out))
    /\ UNCHANGED <<whole, script, next, rx, got, closed, ended, fault>>

\* A write that takes nothing: a signal, or a reader that has gone.
WriteFails ==
    /\ out # <<>>
    /\ closed' = TRUE
    /\ out' = <<>>
    /\ UNCHANGED <<whole, script, next, chan, rx, got, ended, fault>>

\* The payload is complete: the reader deserialises the message.
Deliver(kind, buf) ==
    LET r == Deserialise(kind, buf)
    IN  /\ got' = Append(got, <<kind, r.ok, r.v>>)
        /\ fault' = IF r.over THEN "overread" ELSE fault
        /\ rx' = Idle

\* The header is read at once or not at all.
ReadHeader ==
    /\ ~ended /\ fault = "none"
    /\ rx = Idle /\ chan # <<>>
    /\ IF Len(chan) < HeaderSize
       THEN /\ chan' = <<>>
            /\ ended' = TRUE
            /\ UNCHANGED rx
       ELSE /\ rx' = [kind |-> Kinds[chan[4]], need |-> chan[8], buf |-> <<>>]
            /\ chan' = SubSeq(chan, HeaderSize + 1, Len(chan))
            /\ ended' = (chan[8] > MaxPayload)
    /\ UNCHANGED <<whole, script, next, out, got, closed, fault>>

\* One round of pb_protocol_read_message's loop.
ReadPayload ==
    /\ ~ended /\ rx # Idle /\ chan # <<>>
    /\ \E n \in Portion(Smaller(Len(chan), rx.need - Len(rx.buf))) :
         LET buf == rx.buf \o SubSeq(chan, 1, n)
         IN  /\ chan' = SubSeq(chan, n + 1, Len(chan))
             /\ IF Len(buf) = rx.need THEN Deliver(rx.kind, buf)
                ELSE rx' = [rx EXCEPT !.buf = buf] /\ UNCHANGED <<got, fault>>
    /\ UNCHANGED <<whole, script, next, out, closed, ended>>

\* A signal, or the end of a stream whose writer has failed.
ReadFails ==
    /\ ~ended /\ rx # Idle /\ chan = <<>>
    /\ ended' = TRUE
    /\ rx' = Idle
    /\ UNCHANGED <<whole, script, next, out, chan, got, closed, fault>>

Next == Send \/ Write \/ WriteFails \/ ReadHeader \/ ReadPayload \/ ReadFails

Spec == Init /\ [][Next]_vars

-----------------------------------------------------------------------------
(* Properties *)

\* What is left of a value on the other side: an empty string is NULL.
Seen1(s) == IF s = <<>> THEN NoString ELSE s

SeenIn(m, fs) ==
    [f \in DOMAIN m |-> IF \E i \in DOMAIN fs : fs[i] = f THEN Seen1(m[f]) ELSE m[f]]

SeenStrings(ss) == StringsIn([i \in DOMAIN ss |-> Seen1(ss[i])])

SeenEach(Op(_), s) == [i \in DOMAIN s |-> Op(s[i])]

SeenInterface(c) ==
    IF c.ignore THEN [hwaddr |-> c.hwaddr, ignore |-> TRUE]
    ELSE IF c.method = 1 THEN SeenIn(c, StaticStrings)
    ELSE [f \in {"hwaddr", "ignore", "method", "override"} |-> c[f]]

Seen(kind, m) ==
    CASE kind = "device" -> SeenIn(m, <<"id", "name", "description", "icon_file">>)
      [] kind = "option" -> SeenIn(m, OptionStrings)
      [] kind = "boot" -> SeenIn(m, CommandStrings)
      [] kind = "status" -> SeenIn(m, <<"message">>)
      [] kind = "url" -> SeenIn(m, <<"url">>)
      [] kind = "plugin" ->
           [SeenIn(m, PluginStrings) EXCEPT !.executables = SeenStrings(@)]
      [] kind = "temp" -> SeenIn(m, <<"uuid">>)
      [] kind = "auth" -> SeenIn(m, <<"password", "new_password", "device_id">>)
      [] kind = "sysinfo" ->
           LET v == SeenIn(m, <<"type", "identifier">>)
           IN  [f \in DOMAIN v |->
                  IF f \in Range(Versions) THEN SeenStrings(v[f])
                  ELSE IF f = "interfaces"
                  THEN SeenEach(LAMBDA i : SeenIn(i, <<"name", "address", "address_v6">>), v[f])
                  ELSE IF f = "blockdevs"
                  THEN SeenEach(LAMBDA d : SeenIn(d, BlockdevStrings), v[f])
                  ELSE v[f]]
      [] kind = "config" ->
           [SeenIn(m, <<"http_proxy", "https_proxy", "boot_console", "lang">>) EXCEPT
               !.dns_servers = SeenStrings(@),
               !.consoles = SeenStrings(@),
               !.interfaces = SeenEach(SeenInterface, @),
               !.autoboot_opts = SeenEach(LAMBDA o : SeenIn(o, <<"uuid">>), @)]

Sendable == SelectSeq([i \in DOMAIN script |-> i], LAMBDA i : ~TooBig(i))

Quiet == /\ next > Len(script) /\ out = <<>> /\ chan = <<>> /\ rx = Idle
         /\ ~closed /\ ~ended

\* What the reading side is told is what the writing side said: the messages
\* that fit are received in order, each once, with every field that was
\* sent (an empty string as NULL), however the bytes were split and wherever
\* a write or a read failed; no read runs past its message; and when both
\* sides have come to rest with neither having given up, nothing is missing.
\* It holds only if the three functions of each kind of message agree.
ReceivedAsSent ==
    /\ fault = "none"
    /\ Len(got) <= Len(Sendable)
    /\ \A i \in DOMAIN got :
         LET j == Sendable[i]
         IN  got[i] = <<Kind(j), TRUE, Seen(Kind(j), Message(j))>>
    /\ Quiet => Len(got) = Len(Sendable)
=============================================================================
