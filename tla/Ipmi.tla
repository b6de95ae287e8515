--------------------------------- MODULE Ipmi ---------------------------------
(* The requests to the BMC (ipmi.c, and their callers in platform-powerpc.c).  *)
(* ipmi_transaction() sends one request and waits for its reply; a reply that  *)
(* comes after its request was given up stays in the driver's queue and is met *)
(* by a later one.  The daemon is blocked meanwhile: only the BMC and time go  *)
(* on.  Of a reply we keep its length, which a caller's buffer may cut, and    *)
(* whether the BMC completed the request.  The BMC is external.                *)
EXTENDS Integers, Sequences

CONSTANTS Blocks,   \* blocks of the BMC's mailbox, less than UCHAR_MAX
          Timeout,  \* ipmi_timeout
          MaxLate,  \* bound on requests that are given up
          MaxOps    \* bound on commands after the start

VARIABLES job,      \* what the daemon is doing: a request of the start, "idle", ...
          block,    \* the mailbox block asked for
          ask,      \* <<>>, or the request in ipmi_transaction()
          seq,      \* ipmi->seq
          due,      \* requests the BMC has not answered
          inbox,    \* replies not read yet
          mail,     \* the blocks that make up the boot order
          result,   \* per request of the start: bytes used, 0 if none
          used,     \* the last reply that was used, and what was asked
          late, ops
vars == <<job, block, ask, seq, due, inbox, mail, result, used, late, ops>>

\* What follows a request: those of the start are made one after the other.
NextJob == [box |-> "dev", dev |-> "net", net |-> "mac", mac |-> "id", id |-> "golden",
            golden |-> "idle", clear |-> "idle", sensor |-> "idle"]

\* The sizes of the callers' buffers, which are those of a full reply.
Header == 4
Buffer == [box |-> 20, dev |-> 8, net |-> 53, mac |-> 8, id |-> 16, golden |-> 16,
           clear |-> 1, sensor |-> 1, clearbox |-> 1]

\* ipmi_open()
Init == /\ job = "box" /\ block = 0 /\ ask = <<>> /\ seq = 0 /\ due = {} /\ inbox = <<>>
        /\ mail = <<>> /\ result = [j \in {"box", "dev", "net", "mac", "id", "golden"} |-> 0]
        /\ used = <<>> /\ late = 0 /\ ops = 0

-----------------------------------------------------------------------------
(* The callers, given the reply r of their request as cut to len bytes: what   *)
(* of it they use.                                                             *)

\* get_ipmi_boot_mailbox_block(): the size of the block, at most 0 for an error.
BoxUses(r, len) == IF len < Header \/ ~r.ok \/ r.block # block THEN -1 ELSE len - Header
DevUses(r, len) == IF len = Buffer["dev"] /\ r.ok THEN len ELSE 0
NetUses(r, len) == IF len >= 12 /\ r.ok THEN len ELSE 0
\* ipmi_get_bmc_mac(): no completion code is read, and any length will do.
MacUses(len) == IF len > 2 THEN len - 2 ELSE 0
IdUses(len) == IF len \in {12, 16} THEN len ELSE 0
Uses(r, len) == CASE job = "box" -> BoxUses(r, len)
                  [] job = "dev" -> DevUses(r, len)
                  [] job = "net" -> NetUses(r, len)
                  [] job = "mac" -> MacUses(len)
                  [] job \in {"id", "golden"} -> IdUses(len)
                  [] OTHER -> IF r.ok THEN 1 ELSE 0

GoOn == job' = NextJob[job] /\ block' = 0

\* get_ipmi_boot_mailbox(): the loop ends with the first block that is in error
\* or empty.
BoxDone(n) ==
    IF n < 1 \/ (block = 0 /\ n < 3)
    THEN GoOn /\ UNCHANGED <<mail, result>>
    ELSE /\ job' = job /\ block' = block + 1
         /\ mail' = Append(mail, [block |-> block, size |-> n])
         /\ result' = [result EXCEPT !["box"] = @ + n]

\* clear_ipmi_boot_mailbox(): block after block until one is refused.
ClearDone(n) ==
    /\ IF n = 1 THEN job' = job /\ block' = block + 1 ELSE job' = "idle" /\ block' = 0
    /\ UNCHANGED <<mail, result>>

\* The transaction returns with n bytes that its caller uses.
Done(n) ==
    CASE job = "box" -> BoxDone(n)
      [] job = "clearbox" -> ClearDone(n)
      [] OTHER -> /\ GoOn /\ mail' = mail
                  /\ result' = IF job \in DOMAIN result THEN [result EXCEPT ![job] = n] ELSE result

-----------------------------------------------------------------------------
(* ipmi_transaction()                                                          *)

\* ipmi_send(); poll() will wait until `limit'.
Send ==
    /\ ask = <<>> /\ job # "idle"
    /\ ask' = <<[kind |-> job, seq |-> seq, len |-> Buffer[job], waited |-> 0,
                 limit |-> Timeout]>>
    /\ due' = due \cup {[seq |-> seq, kind |-> job, block |-> block]}
    /\ seq' = seq + 1
    /\ UNCHANGED <<job, block, inbox, mail, result, used, late, ops>>
SendFails ==
    /\ ask = <<>> /\ job # "idle" /\ late < MaxLate /\ late' = late + 1
    /\ seq' = seq + 1 /\ Done(IF job = "box" THEN -1 ELSE 0)
    /\ UNCHANGED <<ask, due, inbox, used, ops>>

\* Is the reply that of the last request?  Mutant: any reply is.
InSequenceAny(r) == TRUE
InSequence(r) == r.seq = seq - 1

\* What is left of the time, after a reply to another request.  Mutant: the
\* time is not taken.
LimitAnew(a) == a.waited + Timeout
Limit(a) == a.waited + (Timeout - a.waited)

\* ipmi_recv() stores the length of what it read, and the next call may not read
\* more than that: a short reply to an earlier request cuts the one waited for.
Recv ==
    LET a == ask[1]
        r == Head(inbox)
        len == IF r.len < a.len THEN r.len ELSE a.len
    IN  /\ ask # <<>> /\ inbox # <<>>
        /\ inbox' = Tail(inbox)
        /\ CASE InSequence(r) ->
                  /\ ask' = <<>> /\ Done(Uses(r, len))
                  /\ used' = <<[asked |-> <<a.seq, a.kind>>, reply |-> <<r.seq, r.kind>>]>>
                  /\ late' = late
             [] ~InSequence(r) /\ a.waited >= Timeout ->
                  /\ ask' = <<>> /\ Done(IF job = "box" THEN -1 ELSE 0) /\ late' = late + 1
                  /\ used' = used
             [] OTHER ->
                  /\ ask' = <<[a EXCEPT !.len = len, !.limit = Limit(a)]>>
                  /\ UNCHANGED <<job, block, mail, result, used, late>>
        /\ UNCHANGED <<seq, due, ops>>

Expire ==
    /\ ask # <<>> /\ inbox = <<>> /\ ask[1].waited = ask[1].limit
    /\ ask' = <<>> /\ late' = late + 1 /\ Done(IF job = "box" THEN -1 ELSE 0)
    /\ UNCHANGED <<seq, due, inbox, used, ops>>

-----------------------------------------------------------------------------
(* Time, the BMC, and the commands that follow the start.                      *)

Tick == /\ ask # <<>> /\ ask[1].waited < ask[1].limit /\ late < MaxLate
        /\ ask' = <<[ask[1] EXCEPT !.waited = @ + 1]>>
        /\ UNCHANGED <<job, block, seq, due, inbox, mail, result, used, late, ops>>

\* A request is answered in full, or refused with a completion code only; a block
\* past the end of the mailbox is refused.
Answer(q) ==
    /\ q \in due /\ due' = due \ {q}
    /\ \E ok \in BOOLEAN :
         /\ q.kind \in {"box", "clearbox"} /\ q.block >= Blocks => ~ok
         /\ inbox' = Append(inbox, [seq |-> q.seq, kind |-> q.kind, block |-> q.block, ok |-> ok,
                                    len |-> IF ok THEN Buffer[q.kind] ELSE 1])
    /\ UNCHANGED <<job, block, ask, seq, mail, result, used, late, ops>>

\* clear_ipmi_bootdev_ipmi(), set_ipmi_os_boot_sensor(), clear_ipmi_boot_mailbox()
Command(j) ==
    /\ job = "idle" /\ ops < MaxOps /\ ops' = ops + 1
    /\ job' = j /\ block' = 0
    /\ UNCHANGED <<ask, seq, due, inbox, mail, result, used, late>>

Next == \/ Send \/ SendFails \/ Recv \/ Expire \/ Tick
        \/ \E q \in due : Answer(q)
        \/ \E j \in {"clear", "sensor", "clearbox"} : Command(j)
Spec == Init /\ [][Next]_vars

-----------------------------------------------------------------------------
\* ipmi_transaction(): whatever is late, refused or cut, a caller uses only the
\* reply to its own request, and the boot order of the mailbox is made of its
\* first blocks, each one whole: none is missing in between.
AnswersMatch ==
    /\ used # <<>> => used[1].reply = used[1].asked
    /\ \A i \in 1..Len(mail) : mail[i] = [block |-> i - 1, size |-> Buffer["box"] - Header]

\* ipmi_transaction(): however many late replies it meets, a request does not hold
\* up the daemon for longer than its timeout.
WaitBounded == ask # <<>> => ask[1].waited <= Timeout
=============================================================================
