---------------------------- MODULE PlatformProofs ----------------------------
(* Proofs about Ipmi, for any timeout, any number of blocks in the mailbox and *)
(* any number of requests that are given up; and about Platform, for any boot  *)
(* orders and mailboxes and any number of saves, restarts and changes.         *)
EXTENDS Ipmi, Platform, TLAPS

Jobs == {"box", "dev", "net", "mac", "id", "golden", "clear", "sensor", "clearbox", "idle"}

(* A message to or from the BMC belongs to a request that was made; to the     *)
(* one that is waited for only if it asks the same.  While the mailbox is read *)
(* no other request was made.                                                  *)
OfRequest(m, j, b, a, s) ==
    /\ m.seq \in Nat /\ m.seq < s
    /\ a # <<>> /\ m.seq = s - 1 => m.kind = j /\ m.block = b
    /\ j = "box" => m.kind = "box"

Asked(a, j, s) ==
    /\ a \in [kind : Jobs, seq : Nat, len : Nat, waited : Nat, limit : Nat]
    /\ a.waited <= a.limit /\ a.limit <= Timeout
    /\ a.seq = s - 1 /\ a.kind = j /\ j # "idle"
    /\ j = "box" => a.len \in {20, 1}

Requests == [seq : Nat, kind : Jobs \ {"idle"}, block : Nat]
Replies == [seq : Nat, kind : Jobs \ {"idle"}, block : Nat, ok : BOOLEAN, len : Nat]

(* A reply has the length of its kind if it was completed. *)
Length(m) == m.kind = "box" => m.len \in {20, 1}

(* The boot order: whole blocks, in order. *)
Whole(l) ==
    /\ l \in Seq([block : Nat, size : Int])
    /\ \A i \in 1 .. Len(l) : l[i] = [block |-> i - 1, size |-> 16]

IInv ==
    /\ job \in Jobs /\ block \in Nat /\ seq \in Nat
    /\ due \in SUBSET Requests /\ inbox \in Seq(Replies)
    /\ \A m \in due : OfRequest(m, job, block, ask, seq)
    /\ \A i \in 1 .. Len(inbox) : OfRequest(inbox[i], job, block, ask, seq) /\ Length(inbox[i])
    /\ ask # <<>> => ask = <<ask[1]>> /\ Asked(ask[1], job, seq)
    /\ Whole(mail) /\ (job = "box" => Len(mail) = block)
    /\ used # <<>> => used[1].reply = used[1].asked

-----------------------------------------------------------------------------
(* The caller goes on with what the transaction returned. *)
LEMMA BoxDoneKeeps ==
  ASSUME job = "box", block \in Nat, Whole(mail), Len(mail) = block,
         NEW n \in {-1, 16}, BoxDone(n)
  PROVE  /\ job' \in Jobs /\ block' \in Nat /\ Whole(mail')
         /\ job' = "box" => Len(mail') = block'
  <1>1. CASE n < 1 \/ (block = 0 /\ n < 3)
    <2>1. GoOn /\ mail' = mail
      BY <1>1 DEF BoxDone
    <2>2. job' = "dev" /\ block' = 0
      BY <2>1 DEF GoOn, NextJob
    <2> QED BY <2>1, <2>2 DEF Jobs
  <1>2. CASE ~(n < 1 \/ (block = 0 /\ n < 3))
    <2> DEFINE b == [block |-> block, size |-> n]
    <2>1. n = 16
      BY <1>2
    <2>2. job' = "box" /\ block' = block + 1 /\ mail' = Append(mail, b)
      BY <1>2 DEF BoxDone
    <2>3. b \in [block : Nat, size : Int] /\ b = [block |-> block, size |-> 16]
      BY <2>1
    <2> HIDE DEF b
    <2>4. mail' \in Seq([block : Nat, size : Int]) /\ Len(mail') = block + 1
      BY <2>2, <2>3 DEF Whole
    <2>5. ASSUME NEW i \in 1 .. Len(mail')
          PROVE  mail'[i] = [block |-> i - 1, size |-> 16]
      <3>1. CASE i <= Len(mail)
        BY <2>2, <2>3, <2>4, <3>1 DEF Whole
      <3>2. CASE i = block + 1
        <4>1. mail'[i] = b /\ i - 1 = block
          BY <2>2, <2>3, <3>2 DEF Whole
        <4> QED BY <2>3, <4>1
      <3> QED BY <2>4, <3>1, <3>2
    <2> QED BY <2>2, <2>4, <2>5 DEF Whole, Jobs
  <1> QED BY <1>1, <1>2

LEMMA DoneKeeps ==
  ASSUME IInv, job # "idle", NEW n \in Int, job = "box" => n \in {-1, 16}, Done(n)
  PROVE  /\ job' \in Jobs /\ block' \in Nat /\ Whole(mail')
         /\ job' = "box" => job = "box" /\ Len(mail') = block'
  <1>1. /\ job \in Jobs /\ block \in Nat /\ Whole(mail)
        /\ job = "box" => Len(mail) = block
    BY DEF IInv
  <1>2. CASE job = "box"
    <2>1. BoxDone(n)
      BY <1>2 DEF Done
    <2> QED BY <1>1, <1>2, <2>1, BoxDoneKeeps
  <1>3. CASE job = "clearbox"
    <2>1. ClearDone(n)
      BY <1>3 DEF Done
    <2>2. mail' = mail /\ block' \in Nat /\ job' \in {"clearbox", "idle"}
      BY <1>1, <1>3, <2>1 DEF ClearDone
    <2> QED BY <1>1, <2>2 DEF Jobs
  <1>4. CASE job \notin {"box", "clearbox"}
    <2>1. GoOn /\ mail' = mail
      BY <1>4 DEF Done
    <2>2. job \in {"dev", "net", "mac", "id", "golden", "clear", "sensor"}
      BY <1>1, <1>4 DEF Jobs
    <2>3. block' = 0 /\ job' \in {"net", "mac", "id", "golden", "idle"}
      BY <2>1, <2>2 DEF GoOn, NextJob
    <2> QED BY <1>1, <2>1, <2>3 DEF Jobs
  <1> QED BY <1>2, <1>3, <1>4

(* The transaction is over: of the messages still about only their age         *)
(* matters.                                                                    *)
LEMMA OverKeeps ==
  ASSUME IInv, job # "idle", NEW n \in Int, job = "box" => n \in {-1, 16}, Done(n),
         ask' = <<>>, due' = due, seq' \in Nat, seq' >= seq,
         inbox' = inbox \/ (inbox # <<>> /\ inbox' = Tail(inbox)),
         used' # <<>> => used'[1].reply = used'[1].asked
  PROVE  IInv'
  <1>1. /\ job' \in Jobs /\ block' \in Nat /\ Whole(mail')
        /\ job' = "box" => job = "box" /\ Len(mail') = block'
    BY DoneKeeps
  <1>2. ASSUME NEW m, OfRequest(m, job, block, ask, seq)
        PROVE  OfRequest(m, job', block', ask', seq')
    BY <1>1, <1>2 DEF OfRequest, IInv
  <1>3. \A m \in due' : OfRequest(m, job', block', ask', seq')
    BY <1>2 DEF IInv
  <1>4. inbox' \in Seq(Replies) /\ \A i \in 1 .. Len(inbox') : \E j \in 1 .. Len(inbox) :
                                       inbox'[i] = inbox[j]
    <2>1. inbox \in Seq(Replies)
      BY DEF IInv
    <2>2. CASE inbox' = inbox
      BY <2>1, <2>2
    <2>3. CASE inbox # <<>> /\ inbox' = Tail(inbox)
      <3>1. /\ inbox' \in Seq(Replies) /\ Len(inbox') = Len(inbox) - 1 /\ Len(inbox) \in Nat
            /\ \A i \in 1 .. Len(inbox') : inbox'[i] = inbox[i + 1]
        BY <2>1, <2>3
      <3>2. \A i \in 1 .. Len(inbox') : i + 1 \in 1 .. Len(inbox)
        BY <3>1
      <3> QED BY <3>1, <3>2
    <2> QED BY <2>2, <2>3
  <1>5. \A i \in 1 .. Len(inbox') : /\ OfRequest(inbox'[i], job', block', ask', seq')
                                    /\ Length(inbox'[i])
    BY <1>2, <1>4 DEF IInv
  <1>6. due' \in SUBSET Requests
    BY DEF IInv
  <1> QED BY <1>1, <1>3, <1>4, <1>5, <1>6, SMTT(30) DEF IInv, Whole, OfRequest, Length

-----------------------------------------------------------------------------
LEMMA InitIInv ==
  ASSUME Init
  PROVE  IInv
  <1>1. Whole(<<>>)
    BY DEF Whole
  <1> QED BY <1>1 DEF Init, IInv, Jobs

LEMMA SendKeeps ==
  ASSUME Timeout \in Nat, IInv, Send
  PROVE  IInv'
  <1> DEFINE a == [kind |-> job, seq |-> seq, len |-> Buffer[job], waited |-> 0,
                   limit |-> Timeout]
             q == [seq |-> seq, kind |-> job, block |-> block]
  <1>1. /\ ask = <<>> /\ job # "idle" /\ ask' = <<a>> /\ due' = due \cup {q} /\ seq' = seq + 1
        /\ UNCHANGED <<job, block, inbox, mail, used>>
    BY DEF Send
  <1>2. seq \in Nat /\ job \in Jobs /\ block \in Nat
    BY DEF IInv
  <1>3. Asked(a, job', seq') /\ <<a>> # <<>> /\ <<a>>[1] = a
    <2>1. a.waited = 0 /\ a.limit = Timeout /\ a.seq = seq /\ a.kind = job
      OBVIOUS
    <2>2. Buffer[job] \in Nat /\ (job = "box" => a.len = 20)
      BY <1>1, <1>2 DEF Buffer, Jobs
    <2>3. a \in [kind : Jobs, seq : Nat, len : Nat, waited : Nat, limit : Nat]
      BY <1>2, <2>2
    <2> QED BY <1>1, <1>2, <2>1, <2>2, <2>3 DEF Asked
  <1>4. q \in Requests /\ OfRequest(q, job', block', ask', seq')
    <2>1. q.seq = seq /\ q.kind = job /\ q.block = block
      OBVIOUS
    <2> QED BY <1>1, <1>2, <2>1 DEF Requests, OfRequest
  <1> HIDE DEF a, q
  <1>5. ASSUME NEW m, OfRequest(m, job, block, ask, seq)
        PROVE  OfRequest(m, job', block', ask', seq')
    BY <1>1, <1>2, <1>5 DEF OfRequest
  <1>6. due' \in SUBSET Requests /\ \A m \in due' : OfRequest(m, job', block', ask', seq')
    BY <1>1, <1>4, <1>5 DEF IInv
  <1>7. \A i \in 1 .. Len(inbox') : /\ OfRequest(inbox'[i], job', block', ask', seq')
                                    /\ Length(inbox'[i])
    BY <1>1, <1>5 DEF IInv
  <1>8. ask' # <<>> => ask' = <<ask'[1]>> /\ Asked(ask'[1], job', seq')
    BY <1>1, <1>3
  <1> QED BY <1>1, <1>2, <1>6, <1>7, <1>8 DEF IInv, OfRequest, Length, Whole, Asked

(* The request that is waited for is replaced by one with other times. *)
LEMMA WaitsOn ==
  ASSUME IInv, ask # <<>>, NEW a, Asked(a, job, seq), ask' = <<a>>,
         UNCHANGED <<job, block, seq, due, mail, used>>,
         inbox' = inbox \/ (inbox # <<>> /\ inbox' = Tail(inbox))
  PROVE  IInv'
  <1>1. ASSUME NEW m, OfRequest(m, job, block, ask, seq)
        PROVE  OfRequest(m, job', block', ask', seq')
    BY <1>1 DEF OfRequest
  <1>2. inbox' \in Seq(Replies) /\ \A i \in 1 .. Len(inbox') : \E j \in 1 .. Len(inbox) :
                                       inbox'[i] = inbox[j]
    <2>1. inbox \in Seq(Replies)
      BY DEF IInv
    <2>2. CASE inbox' = inbox
      BY <2>1, <2>2
    <2>3. CASE inbox # <<>> /\ inbox' = Tail(inbox)
      <3>1. /\ inbox' \in Seq(Replies) /\ Len(inbox') = Len(inbox) - 1 /\ Len(inbox) \in Nat
            /\ \A i \in 1 .. Len(inbox') : inbox'[i] = inbox[i + 1]
        BY <2>1, <2>3
      <3>2. \A i \in 1 .. Len(inbox') : i + 1 \in 1 .. Len(inbox)
        BY <3>1
      <3> QED BY <3>1, <3>2
    <2> QED BY <2>2, <2>3
  <1>3. \A i \in 1 .. Len(inbox') : /\ OfRequest(inbox'[i], job', block', ask', seq')
                                    /\ Length(inbox'[i])
    BY <1>1, <1>2 DEF IInv
  <1>4. due' \in SUBSET Requests /\ \A m \in due' : OfRequest(m, job', block', ask', seq')
    BY <1>1 DEF IInv
  <1>5. ask' # <<>> => ask' = <<ask'[1]>> /\ Asked(ask'[1], job', seq')
    <2>1. ask'[1] = a
      OBVIOUS
    <2> QED BY <2>1
  <1>6. /\ job' \in Jobs /\ block' \in Nat /\ seq' \in Nat /\ Whole(mail')
        /\ (job' = "box" => Len(mail') = block') /\ (used' # <<>> => used'[1].reply = used'[1].asked)
    BY DEF IInv
  <1> QED BY <1>2, <1>3, <1>4, <1>5, <1>6 DEF IInv, OfRequest, Length, Whole, Asked

LEMMA TickKeeps ==
  ASSUME Timeout \in Nat, IInv, Tick
  PROVE  IInv'
  <1> DEFINE a == [ask[1] EXCEPT !.waited = @ + 1]
  <1>1. /\ ask # <<>> /\ ask[1].waited < ask[1].limit /\ ask' = <<a>>
        /\ UNCHANGED <<job, block, seq, due, mail, used, inbox>>
    BY DEF Tick
  <1>2. Asked(ask[1], job, seq)
    BY <1>1 DEF IInv
  <1>3. Asked(a, job, seq)
    BY <1>1, <1>2 DEF Asked
  <1> HIDE DEF a
  <1> QED BY <1>1, <1>3, WaitsOn

(* ipmi_transaction() takes the next reply. *)
LEMMA RecvKeeps ==
  ASSUME Timeout \in Nat, IInv, Recv
  PROVE  IInv'
  <1> DEFINE a == ask[1]
             r == Head(inbox)
             len == IF r.len < a.len THEN r.len ELSE a.len
  <1>1. /\ ask # <<>> /\ inbox # <<>> /\ inbox' = Tail(inbox) /\ UNCHANGED <<seq, due, ops>>
    BY DEF Recv
  <1>2. /\ seq \in Nat /\ job \in Jobs /\ block \in Nat /\ inbox \in Seq(Replies)
        /\ Asked(a, job, seq) /\ (used # <<>> => used[1].reply = used[1].asked)
    BY <1>1 DEF IInv
  <1>3. r \in Replies /\ OfRequest(r, job, block, ask, seq) /\ Length(r)
    <2>1. r = inbox[1] /\ 1 \in 1 .. Len(inbox) /\ r \in Replies
      BY <1>1, <1>2
    <2> QED BY <2>1 DEF IInv
  <1>4. CASE InSequence(r)
    <2> DEFINE u == [asked |-> <<a.seq, a.kind>>, reply |-> <<r.seq, r.kind>>]
    <2>1. ask' = <<>> /\ Done(Uses(r, len)) /\ used' = <<u>>
      BY <1>4 DEF Recv
    <2>2. r.seq = a.seq /\ r.kind = a.kind /\ r.kind = job
      BY <1>1, <1>2, <1>3, <1>4 DEF InSequence, OfRequest, Asked
    <2>3. used'[1].reply = used'[1].asked
      <3>1. u.asked = u.reply
        BY <2>2
      <3> HIDE DEF u
      <3> QED BY <2>1, <3>1
    <2>4. len \in Nat /\ (job = "box" => len \in {20, 1})
      BY <1>2, <1>3, <2>2, SMTT(30) DEF Asked, Length, Replies
    <2>5. job # "idle"
      BY <1>3, <2>2 DEF Replies
    <2> HIDE DEF len, r, a, u
    <2>6. Uses(r, len) \in Int /\ (job = "box" => Uses(r, len) \in {-1, 16})
      <3>1. CASE job = "box"
        BY <2>4, <3>1 DEF Uses, BoxUses, Header
      <3>2. CASE job # "box"
        BY <1>2, <2>4, <2>5, <3>2 DEF Uses, DevUses, NetUses, MacUses, IdUses, Jobs
      <3> QED BY <3>1, <3>2
    <2> QED BY <1>1, <1>2, <2>1, <2>3, <2>5, <2>6, OverKeeps
  <1>5. CASE ~InSequence(r) /\ a.waited >= Timeout
    <2>1. /\ ask' = <<>> /\ Done(IF job = "box" THEN -1 ELSE 0) /\ used' = used
      BY <1>5 DEF Recv
    <2> DEFINE n == IF job = "box" THEN -1 ELSE 0
    <2>2. n \in Int /\ (job = "box" => n \in {-1, 16}) /\ job # "idle" /\ Done(n)
      BY <1>2, <2>1 DEF Asked
    <2> HIDE DEF n
    <2> QED BY <1>1, <1>2, <2>1, <2>2, OverKeeps
  <1>6. CASE ~InSequence(r) /\ ~(a.waited >= Timeout)
    <2> DEFINE b == [a EXCEPT !.len = len, !.limit = Limit(a)]
    <2>1. ask' = <<b>> /\ UNCHANGED <<job, block, mail, used>>
      BY <1>6 DEF Recv
    <2>2. len \in Nat /\ (job = "box" => len \in {20, 1})
      BY <1>2, <1>3, <1>6 DEF Asked, Length, OfRequest, Replies
    <2>3. Limit(a) = Timeout /\ a.waited <= Timeout
      BY <1>2 DEF Limit, Asked
    <2> HIDE DEF len, a, r
    <2>4. Asked(b, job, seq)
      <3>1. a \in [kind : Jobs, seq : Nat, len : Nat, waited : Nat, limit : Nat]
        BY <1>2 DEF Asked
      <3>2. b = [a EXCEPT !.len = len, !.limit = Timeout]
        BY <2>3
      <3> HIDE DEF b
      <3>3. /\ b \in [kind : Jobs, seq : Nat, len : Nat, waited : Nat, limit : Nat]
            /\ b.kind = a.kind /\ b.seq = a.seq /\ b.waited = a.waited /\ b.len = len
            /\ b.limit = Timeout
        BY <2>2, <3>1, <3>2, Zenon
      <3> QED BY <1>2, <2>2, <2>3, <3>3 DEF Asked
    <2> HIDE DEF b
    <2> QED BY <1>1, <2>1, <2>4, WaitsOn
  <1> QED BY <1>4, <1>5, <1>6

LEMMA GivenUp ==
  ASSUME IInv, SendFails \/ Expire
  PROVE  IInv'
  <1> DEFINE n == IF job = "box" THEN -1 ELSE 0
  <1>1. n \in Int /\ (job = "box" => n \in {-1, 16}) /\ seq \in Nat /\ seq + 1 \in Nat
    BY DEF IInv
  <1>2. job # "idle" /\ ask' = <<>>
    BY DEF SendFails, Expire, IInv, Asked
  <1>3. Done(n) /\ UNCHANGED <<due, inbox, used>> /\ (seq' = seq \/ seq' = seq + 1)
    BY DEF SendFails, Expire
  <1> HIDE DEF n
  <1>4. seq' \in Nat /\ seq' >= seq /\ (used' # <<>> => used'[1].reply = used'[1].asked)
    BY <1>1, <1>3 DEF IInv
  <1> QED BY <1>1, <1>2, <1>3, <1>4, OverKeeps

LEMMA AnswerKeeps ==
  ASSUME IInv, NEW q \in due, Answer(q)
  PROVE  IInv'
  <1>1. PICK ok \in BOOLEAN :
           inbox' = Append(inbox, [seq |-> q.seq, kind |-> q.kind, block |-> q.block, ok |-> ok,
                                   len |-> IF ok THEN Buffer[q.kind] ELSE 1])
    BY DEF Answer
  <1> DEFINE l == IF ok THEN Buffer[q.kind] ELSE 1
             r == [seq |-> q.seq, kind |-> q.kind, block |-> q.block, ok |-> ok, len |-> l]
  <1>2. q \in Requests /\ OfRequest(q, job, block, ask, seq) /\ inbox \in Seq(Replies)
    BY DEF IInv
  <1>3. l \in Nat /\ (q.kind = "box" => l \in {20, 1})
    BY <1>2 DEF Requests, Buffer, Jobs
  <1> HIDE DEF l
  <1>4. r \in Replies /\ r.seq = q.seq /\ r.kind = q.kind /\ r.block = q.block /\ r.len = l
    BY <1>2, <1>3 DEF Requests, Replies
  <1>5. inbox' = Append(inbox, r) /\ UNCHANGED <<job, block, ask, seq, mail, used>>
        /\ due' \subseteq due
    BY <1>1 DEF Answer, l
  <1> HIDE DEF r
  <1>6. OfRequest(r, job, block, ask, seq) /\ Length(r)
    BY <1>2, <1>3, <1>4 DEF OfRequest, Length
  <1>7. /\ inbox' \in Seq(Replies)
        /\ \A i \in 1 .. Len(inbox') : inbox'[i] = r \/ (i \in 1 .. Len(inbox) /\ inbox'[i] = inbox[i])
    BY <1>2, <1>4, <1>5
  <1>8. \A i \in 1 .. Len(inbox') : OfRequest(inbox'[i], job, block, ask, seq) /\ Length(inbox'[i])
    BY <1>6, <1>7 DEF IInv
  <1>9. due' \in SUBSET Requests /\ \A m \in due' : OfRequest(m, job, block, ask, seq)
    BY <1>5 DEF IInv
  <1> QED BY <1>5, <1>7, <1>8, <1>9 DEF IInv, OfRequest, Length, Whole, Asked

LEMMA CommandKeeps ==
  ASSUME IInv, NEW j \in {"clear", "sensor", "clearbox"}, Command(j)
  PROVE  IInv'
  <1>1. /\ job = "idle" /\ job' = j /\ block' = 0 /\ job' # "box" /\ job' \in Jobs
        /\ UNCHANGED <<ask, seq, due, inbox, mail, used>>
    BY DEF Command, Jobs
  <1>2. ask = <<>>
    BY <1>1 DEF IInv, Asked
  <1>3. ASSUME NEW m, OfRequest(m, job, block, ask, seq)
        PROVE  OfRequest(m, job', block', ask', seq')
    BY <1>1, <1>2, <1>3 DEF OfRequest
  <1>4. \A m \in due' : OfRequest(m, job', block', ask', seq')
    BY <1>1, <1>3 DEF IInv
  <1>5. \A i \in 1 .. Len(inbox') : /\ OfRequest(inbox'[i], job', block', ask', seq')
                                    /\ Length(inbox'[i])
    BY <1>1, <1>3 DEF IInv
  <1> QED BY <1>1, <1>2, <1>4, <1>5 DEF IInv, OfRequest, Length, Whole, Asked

LEMMA StepKeeps ==
  ASSUME Timeout \in Nat, IInv, [Next]_vars
  PROVE  IInv'
  <1>1. CASE UNCHANGED vars
    BY <1>1 DEF vars, IInv, OfRequest, Length, Whole, Asked
  <1> QED BY <1>1, SendKeeps, GivenUp, RecvKeeps, TickKeeps, AnswerKeeps, CommandKeeps DEF Next

LEMMA Invariant ==
  ASSUME Timeout \in Nat
  PROVE  Spec => []IInv
  <1>1. Init => IInv
    BY InitIInv
  <1>2. IInv /\ [Next]_vars => IInv'
    BY StepKeeps
  <1> QED BY <1>1, <1>2, PTL DEF Spec

-----------------------------------------------------------------------------
(* However late, refused or short the replies of the BMC, and however many     *)
(* requests were given up, a caller of ipmi_transaction() uses only the reply  *)
(* to its own request, and the boot order has no gap.                          *)
THEOREM RepliesAlwaysMatch ==
  ASSUME Timeout \in Nat
  PROVE  Spec => []AnswersMatch
  <1>1. IInv => AnswersMatch
    BY DEF IInv, AnswersMatch, Whole, Buffer, Header
  <1> QED BY <1>1, Invariant, PTL

(* ipmi_transaction() does not wait longer than its timeout, whatever it reads *)
(* meanwhile.                                                                  *)
THEOREM WaitAlwaysBounded ==
  ASSUME Timeout \in Nat
  PROVE  Spec => []WaitBounded
  <1>1. IInv => WaitBounded
    BY DEF IInv, WaitBounded, Asked
  <1> QED BY <1>1, Invariant, PTL

-----------------------------------------------------------------------------
(* Platform: what holds between two steps.                                     *)

AllOrders == Orders \cup {DefaultOrder, <<>>, <<"disk">>} \cup {b[1] : b \in Boxes}
Configs == [auto : BOOLEAN, order : AllOrders, net : {"none", "dhcp", "static", "ignore"},
            override : BOOLEAN, writes : BOOLEAN, preboot : BOOLEAN, nosnap : BOOLEAN,
            ipmi : {"none", "disk", "safe"}, persistent : BOOLEAN, mailbox : BOOLEAN,
            safe : BOOLEAN]
(* A configuration as a client sends it: it may ask to clear the boot device. *)
Forms == [auto : BOOLEAN, order : AllOrders, net : {"none", "dhcp", "static", "ignore"},
          override : BOOLEAN, writes : BOOLEAN, preboot : BOOLEAN, nosnap : BOOLEAN,
          ipmi : {"none", "disk", "safe", "invalid"}, persistent : BOOLEAN,
          mailbox : BOOLEAN, safe : BOOLEAN]

Bmcs == [dev : {"none", "disk", "safe"}, persistent : BOOLEAN,
         box : {<<>>} \cup {<<b>> : b \in Boxes}, net : {"none", "static", "ignore"}]

OrderOf(v) == v[1]

(* The values that a parameter may have: never a network override. *)
Storable(name, v) ==
    /\ name \in {"auto", "writes", "preboot"} => v \in {"", "true", "false"}
    /\ name = "net" => v \in {"none", "dhcp", "ignore"}
    /\ name = "bootdevs" => OrderOf(v) \in AllOrders

(* The parameters f, read back, give the configuration c. *)
Agrees(f, c) ==
    /\ c.auto <=> ~("auto" \in DOMAIN f /\ f["auto"] = "false")
    /\ c.preboot <=> ~("preboot" \in DOMAIN f /\ f["preboot"] = "false")
    /\ c.order # <<>> => "bootdevs" \in DOMAIN f /\ OrderOf(f["bootdevs"]) = c.order
    /\ ~c.override => c.net = IF "net" \in DOMAIN f THEN f["net"] ELSE "none"
    /\ ~c.writes => "writes" \in DOMAIN f /\ f["writes"] = "false"

InForce(c) == c \in Configs /\ (c.net = "static" => c.override)

Kept(name) == name \in DOMAIN nvram /\ nvram[name] = params[name].value

(* A network override keeps its mark.  A parameter that is not marked as       *)
(* modified is in NVRAM, unless a mailbox replaced it; what was saved is in    *)
(* NVRAM, and stays there when its parameters are written again.  Once the     *)
(* one-shot override was used the BMC has none, and a session that could use   *)
(* it does not have it.                                                        *)
PInv ==
    /\ bmc \in Bmcs /\ InForce(config)
    /\ \A n \in DOMAIN nvram : Storable(n, nvram[n])
    /\ \A n \in DOMAIN params : Storable(n, params[n].value)
    /\ original # <<>> => Storable("bootdevs", original[1]) /\ "bootdevs" \in DOMAIN params /\ boxed
    /\ up => DOMAIN nvram \subseteq DOMAIN params
    /\ ~up => DOMAIN params = {} /\ config = Defaults /\ original = <<>>
    /\ one \in {0, 1}
    /\ one = 1 => bmc.dev = "none" /\ (~counted => config.ipmi = "none")
    /\ ~boxed => \A n \in DOMAIN params \ Modified(params) : Kept(n)
    /\ saved # <<>> => /\ saved[1] \in Configs /\ Agrees(nvram, saved[1])
                       /\ \A n \in Modified(params) \ {"password"} : Kept(n)

-----------------------------------------------------------------------------
(* param_list_set() changes one parameter, and leaves it unmodified only if    *)
(* it was and has the value.                                                   *)
OneSet(pl, q, name, value) ==
    /\ DOMAIN pl \subseteq DOMAIN q /\ DOMAIN q \subseteq DOMAIN pl \cup {name}
    /\ \A n \in DOMAIN pl : n # name => q[n] = pl[n]
    /\ name \in DOMAIN q => q[name].value = value
    /\ name \in DOMAIN q /\ ~q[name].modified => name \in DOMAIN pl /\ q[name] = pl[name]

LEMMA ListSet ==
  ASSUME NEW pl, NEW name, NEW value
  PROVE  /\ OneSet(pl, ParamListSet(pl, name, value, TRUE), name, value)
         /\ name \in DOMAIN ParamListSet(pl, name, value, TRUE)
  BY DEF OneSet, ParamListSet, Put, Param, Has, Value

LEMMA ListSetNonEmpty ==
  ASSUME NEW pl, NEW name, NEW value, NEW empty
  PROVE  LET q == ParamListSetNonEmpty(pl, name, value, empty)
         IN  OneSet(pl, q, name, value) /\ (~empty => name \in DOMAIN q)
  <1>1. CASE ~Has(pl, name) /\ empty
    BY <1>1 DEF ParamListSetNonEmpty, OneSet, Has
  <1>2. CASE ~(~Has(pl, name) /\ empty)
    BY <1>2, ListSet, Zenon DEF ParamListSetNonEmpty
  <1> QED BY <1>1, <1>2

(* params_update_all(): the parameters are those of the configuration; one     *)
(* that is not modified is as it was.                                          *)
LEMMA AllSet ==
  ASSUME NEW pl, NEW c, InForce(c),
         \A n \in DOMAIN pl : Storable(n, pl[n].value)
  PROVE  LET q == UpdateAll(pl, c)
         IN  /\ DOMAIN pl \subseteq DOMAIN q
             /\ \A n \in DOMAIN q : Storable(n, q[n].value)
             /\ \A n \in DOMAIN q : ~q[n].modified => n \in DOMAIN pl /\ q[n] = pl[n]
             /\ Agrees([n \in DOMAIN q |-> q[n].value], c)
  <1> DEFINE set(l, name, b) == ParamListSetNonEmpty(l, name, FlagOr(b, TRUE), b)
             q1 == set(pl, "auto", c.auto)
             q2 == set(q1, "writes", c.writes)
             q3 == UpdateNetwork(q2, c)
             q4 == ParamListSetNonEmpty(q3, "bootdevs", BootdevStr(c.order), c.order = <<>>)
             q5 == set(q4, "preboot", c.preboot)
             one3 == OneSet(q2, q3, "net", c.net) /\ (c.net # "none" => "net" \in DOMAIN q3)
  <1>1. UpdateAll(pl, c) = q5
    BY DEF UpdateAll
  <1>2. OneSet(pl, q1, "auto", FlagOr(c.auto, TRUE)) /\ (~c.auto => "auto" \in DOMAIN q1)
    BY ListSetNonEmpty, Zenon
  <1>3. OneSet(q1, q2, "writes", FlagOr(c.writes, TRUE)) /\ (~c.writes => "writes" \in DOMAIN q2)
    <2> HIDE DEF q1
    <2> QED BY ListSetNonEmpty, Zenon
  <1>4. IF c.net # "none" /\ c.override THEN q3 = q2 ELSE one3
    <2> HIDE DEF q2
    <2> QED BY ListSetNonEmpty, Zenon DEF UpdateNetwork
  <1>5. /\ OneSet(q3, q4, "bootdevs", BootdevStr(c.order))
        /\ c.order # <<>> => "bootdevs" \in DOMAIN q4
    <2> HIDE DEF q3
    <2> QED BY ListSetNonEmpty, Zenon
  <1>6. OneSet(q4, q5, "preboot", FlagOr(c.preboot, TRUE)) /\ (~c.preboot => "preboot" \in DOMAIN q5)
    <2> HIDE DEF q4
    <2> QED BY ListSetNonEmpty, Zenon
  <1> HIDE DEF q1, q2, q3, q4, q5
  <1>7. /\ c.auto \in BOOLEAN /\ c.writes \in BOOLEAN /\ c.preboot \in BOOLEAN
        /\ c.order \in AllOrders /\ c.net \in {"none", "dhcp", "static", "ignore"}
    BY DEF InForce, Configs
  <1>8. /\ DOMAIN q2 \subseteq DOMAIN q3
        /\ DOMAIN q3 \subseteq DOMAIN q2 \cup {"net"}
        /\ \A n \in DOMAIN q2 : n # "net" => q3[n] = q2[n]
        /\ "net" \in DOMAIN q3 /\ ~q3["net"].modified => "net" \in DOMAIN q2 /\ q3["net"] = q2["net"]
    <2>1. CASE q3 = q2
      BY <2>1
    <2>2. CASE one3
      BY <2>2 DEF OneSet
    <2> QED BY <1>4, <2>1, <2>2
  <1>9. DOMAIN pl \subseteq DOMAIN q5
    BY <1>2, <1>3, <1>5, <1>6, <1>8 DEF OneSet
  <1>10. ASSUME NEW n \in DOMAIN q5, ~q5[n].modified PROVE n \in DOMAIN pl /\ q5[n] = pl[n]
    <2>1. n \in DOMAIN q4 /\ q5[n] = q4[n]
      BY <1>6, <1>10, Zenon DEF OneSet
    <2>2. n \in DOMAIN q3 /\ q4[n] = q3[n]
      BY <1>5, <1>10, <2>1, Zenon DEF OneSet
    <2>3. n \in DOMAIN q2 /\ q3[n] = q2[n]
      BY <1>8, <1>10, <2>1, <2>2, Zenon
    <2>4. n \in DOMAIN q1 /\ q2[n] = q1[n]
      BY <1>3, <1>10, <2>1, <2>2, <2>3, Zenon DEF OneSet
    <2> QED BY <1>2, <1>10, <2>1, <2>2, <2>3, <2>4, Zenon DEF OneSet
  <1>11. /\ "auto" \in DOMAIN q5 => q5["auto"].value = FlagOr(c.auto, TRUE)
         /\ ~c.auto => "auto" \in DOMAIN q5
         /\ "writes" \in DOMAIN q5 => q5["writes"].value = FlagOr(c.writes, TRUE)
         /\ ~c.writes => "writes" \in DOMAIN q5
         /\ "bootdevs" \in DOMAIN q5 => q5["bootdevs"].value = BootdevStr(c.order)
         /\ c.order # <<>> => "bootdevs" \in DOMAIN q5
         /\ "preboot" \in DOMAIN q5 => q5["preboot"].value = FlagOr(c.preboot, TRUE)
         /\ ~c.preboot => "preboot" \in DOMAIN q5
    <2>1. \A n : n # "preboot" => (n \in DOMAIN q5 <=> n \in DOMAIN q4) /\ (n \in DOMAIN q5 => q5[n] = q4[n])
      BY <1>6, Zenon DEF OneSet
    <2>2. \A n : n # "bootdevs" => (n \in DOMAIN q4 <=> n \in DOMAIN q3) /\ (n \in DOMAIN q4 => q4[n] = q3[n])
      BY <1>5, Zenon DEF OneSet
    <2>3. \A n : n # "net" => (n \in DOMAIN q3 <=> n \in DOMAIN q2) /\ (n \in DOMAIN q3 => q3[n] = q2[n])
      BY <1>8, Zenon
    <2>4. \A n : n # "writes" => (n \in DOMAIN q2 <=> n \in DOMAIN q1) /\ (n \in DOMAIN q2 => q2[n] = q1[n])
      BY <1>3, Zenon DEF OneSet
    <2>5. /\ "auto" \in DOMAIN q5 <=> "auto" \in DOMAIN q1
          /\ "auto" \in DOMAIN q5 => q5["auto"] = q1["auto"]
      BY <2>1, <2>2, <2>3, <2>4
    <2>6. /\ "writes" \in DOMAIN q5 <=> "writes" \in DOMAIN q2
          /\ "writes" \in DOMAIN q5 => q5["writes"] = q2["writes"]
      BY <2>1, <2>2, <2>3
    <2>7. /\ "bootdevs" \in DOMAIN q5 <=> "bootdevs" \in DOMAIN q4
          /\ "bootdevs" \in DOMAIN q5 => q5["bootdevs"] = q4["bootdevs"]
      BY <2>1
    <2>8. /\ "auto" \in DOMAIN q1 => q1["auto"].value = FlagOr(c.auto, TRUE)
          /\ "writes" \in DOMAIN q2 => q2["writes"].value = FlagOr(c.writes, TRUE)
          /\ "bootdevs" \in DOMAIN q4 => q4["bootdevs"].value = BootdevStr(c.order)
          /\ "preboot" \in DOMAIN q5 => q5["preboot"].value = FlagOr(c.preboot, TRUE)
      BY <1>2, <1>3, <1>5, <1>6, Zenon DEF OneSet
    <2> QED BY <1>2, <1>3, <1>5, <1>6, <2>5, <2>6, <2>7, <2>8, Zenon
  <1>12. ~c.override => /\ "net" \in DOMAIN q5 => q5["net"].value = c.net
                        /\ c.net # "none" => "net" \in DOMAIN q5
    BY <1>4, <1>5, <1>6, <1>8 DEF OneSet
  <1>13. "net" \in DOMAIN q5 => q5["net"].value \in {"none", "dhcp", "ignore"}
    <2>1. CASE q3 = q2
      <3>1. "net" \in DOMAIN q5 => "net" \in DOMAIN pl /\ q5["net"] = pl["net"]
        BY <1>2, <1>3, <1>5, <1>6, <2>1 DEF OneSet
      <3> QED BY <3>1, Zenon DEF Storable
    <2>2. CASE one3 /\ ~(c.net # "none" /\ c.override)
      BY <1>5, <1>6, <1>7, <2>2 DEF OneSet, InForce
    <2> QED BY <1>4, <2>1, <2>2
  <1>14. OrderOf(BootdevStr(c.order)) = c.order
    BY DEF OrderOf, BootdevStr
  <1>15. /\ \A b \in BOOLEAN : FlagOr(b, TRUE) \in {"", "true", "false"}
         /\ \A b \in BOOLEAN : b <=> FlagOr(b, TRUE) # "false"
    BY DEF FlagOr, Flag
  <1>16. ASSUME NEW n \in DOMAIN q5 PROVE Storable(n, q5[n].value)
    BY <1>7, <1>11, <1>13, <1>14, <1>15, Zenon DEF Storable
  <1>17. Agrees([n \in DOMAIN q5 |-> q5[n].value], c)
    <2> DEFINE f == [n \in DOMAIN q5 |-> q5[n].value]
    <2>1. DOMAIN f = DOMAIN q5 /\ \A n \in DOMAIN q5 : f[n] = q5[n].value
      OBVIOUS
    <2> HIDE DEF f
    <2>2. /\ c.auto <=> ~("auto" \in DOMAIN f /\ f["auto"] = "false")
          /\ c.preboot <=> ~("preboot" \in DOMAIN f /\ f["preboot"] = "false")
          /\ ~c.writes => "writes" \in DOMAIN f /\ f["writes"] = "false"
      BY <1>7, <1>11, <1>15, <2>1, Zenon
    <2>3. c.order # <<>> => "bootdevs" \in DOMAIN f /\ OrderOf(f["bootdevs"]) = c.order
      BY <1>11, <1>14, <2>1
    <2>4. ~c.override => c.net = IF "net" \in DOMAIN f THEN f["net"] ELSE "none"
      BY <1>12, <2>1
    <2> QED BY <2>2, <2>3, <2>4 DEF Agrees, f
  <1> QED BY <1>1, <1>9, <1>10, <1>16, <1>17

(* config_populate_bootdev(), config_populate_all(): what is read.             *)
LEMMA BootdevPopulated ==
  ASSUME NEW pl, \A n \in DOMAIN pl : Storable(n, pl[n].value), NEW c \in Configs
  PROVE  LET l == PopulateBootdev(c, pl)
         IN  /\ l \in Configs /\ l.net = c.net /\ l.override = c.override /\ l.ipmi = c.ipmi
             /\ l.auto = c.auto /\ l.preboot = c.preboot /\ l.writes = c.writes
             /\ "bootdevs" \in DOMAIN pl /\ OrderOf(pl["bootdevs"].value) # <<>> =>
                  l.order = OrderOf(pl["bootdevs"].value)
  <1> DEFINE order == IF Has(pl, "bootdevs") THEN OrderOf(Value(pl, "bootdevs")) ELSE <<>>
             o == IF order # <<>> THEN order ELSE IF c.auto THEN c.order ELSE <<>>
  <1>1. PopulateBootdev(c, pl) = [c EXCEPT !.order = o]
    BY DEF PopulateBootdev, OrderOf
  <1>2. order \in AllOrders
    BY Zenon DEF Has, Value, Storable, AllOrders
  <1>3. o \in AllOrders
    BY <1>2 DEF Configs, AllOrders
  <1>4. "bootdevs" \in DOMAIN pl /\ OrderOf(pl["bootdevs"].value) # <<>> =>
          o = OrderOf(pl["bootdevs"].value)
    BY DEF Has, Value
  <1> HIDE DEF o
  <1> QED BY <1>1, <1>3, <1>4 DEF Configs

(* The fields config_populate_all() sets before the boot order keep the type of a
   configuration, and it leaves the others alone.                              *)
Flagged(c, auto, net, writes, nosnap, preboot) ==
  [c EXCEPT !.auto = auto, !.net = net, !.writes = writes, !.nosnap = nosnap, !.preboot = preboot]

FlagsTaken(c, auto, net, writes, nosnap, preboot) ==
  LET flags == Flagged(c, auto, net, writes, nosnap, preboot)
  IN  /\ flags \in Configs /\ flags.net = net /\ flags.auto = auto /\ flags.writes = writes
      /\ flags.preboot = preboot /\ flags.override = c.override /\ flags.ipmi = c.ipmi

LEMMA FlagsSet ==
  ASSUME NEW c \in Configs, NEW auto \in BOOLEAN, NEW net \in {"none", "dhcp", "static", "ignore"},
         NEW writes \in BOOLEAN, NEW nosnap \in BOOLEAN, NEW preboot \in BOOLEAN
  PROVE  FlagsTaken(c, auto, net, writes, nosnap, preboot)
  <1> DEFINE f1 == [c EXCEPT !.auto = auto]
             f2 == [f1 EXCEPT !.net = net]
             f3 == [f2 EXCEPT !.writes = writes]
             f4 == [f3 EXCEPT !.nosnap = nosnap]
             f5 == [f4 EXCEPT !.preboot = preboot]
  <1>1. Flagged(c, auto, net, writes, nosnap, preboot) = f5
    BY DEF Flagged
  <1>2. f1 \in Configs /\ f1.auto = auto /\ f1.override = c.override /\ f1.ipmi = c.ipmi
    BY Zenon DEF Configs
  <1> HIDE DEF f1
  <1>3. f2 \in Configs /\ f2.auto = f1.auto /\ f2.net = net /\ f2.override = f1.override /\ f2.ipmi = f1.ipmi
    BY <1>2, Zenon DEF Configs
  <1> HIDE DEF f2
  <1>4. f3 \in Configs /\ f3.auto = f2.auto /\ f3.net = f2.net /\ f3.override = f2.override
        /\ f3.ipmi = f2.ipmi /\ f3.writes = writes
    BY <1>3, Zenon DEF Configs
  <1> HIDE DEF f3
  <1>5. f4 \in Configs /\ f4.auto = f3.auto /\ f4.net = f3.net /\ f4.override = f3.override
        /\ f4.ipmi = f3.ipmi /\ f4.writes = f3.writes
    BY <1>4, Zenon DEF Configs
  <1> HIDE DEF f4
  <1>6. f5 \in Configs /\ f5.auto = f4.auto /\ f5.net = f4.net /\ f5.override = f4.override
        /\ f5.ipmi = f4.ipmi /\ f5.writes = f4.writes /\ f5.preboot = preboot
    BY <1>5, Zenon DEF Configs
  <1> HIDE DEF f5
  <1> QED BY <1>1, <1>2, <1>3, <1>4, <1>5, <1>6 DEF FlagsTaken

(* What config_populate_all() reads out of a list of well-formed parameters.   *)
LEMMA AllPopulated ==
  ASSUME NEW pl, \A n \in DOMAIN pl : Storable(n, pl[n].value), NEW c \in Configs
  PROVE  LET l == PopulateAll(c, pl)
         IN  /\ l \in Configs /\ l.override = c.override /\ l.ipmi = c.ipmi
             /\ l.net = IF "net" \in DOMAIN pl THEN pl["net"].value ELSE "none"
             /\ l.auto <=> ~("auto" \in DOMAIN pl /\ pl["auto"].value = "false")
             /\ l.preboot <=> ~("preboot" \in DOMAIN pl /\ pl["preboot"].value = "false")
             /\ "writes" \in DOMAIN pl /\ pl["writes"].value = "false" => ~l.writes
             /\ "bootdevs" \in DOMAIN pl /\ OrderOf(pl["bootdevs"].value) # <<>> =>
                  l.order = OrderOf(pl["bootdevs"].value)
  <1> DEFINE get(name) == IF Has(pl, name) THEN Value(pl, name) ELSE "absent"
             auto == get("auto") # "false"
             net == IF get("net") = "absent" THEN "none" ELSE get("net")
             writes == IF get("writes") = "absent" THEN c.writes ELSE get("writes") = "true"
             nosnap == IF get("snap") = "absent" THEN c.nosnap ELSE get("snap") = "false"
             preboot == get("preboot") # "false"
             flags == Flagged(c, auto, net, writes, nosnap, preboot)
  <1>1. PopulateAll(c, pl) = PopulateBootdev(flags, pl)
    BY DEF PopulateAll, Flagged
  <1>2. /\ auto <=> ~("auto" \in DOMAIN pl /\ pl["auto"].value = "false")
        /\ preboot <=> ~("preboot" \in DOMAIN pl /\ pl["preboot"].value = "false")
        /\ auto \in BOOLEAN /\ preboot \in BOOLEAN
    BY DEF Has, Value
  <1>3. /\ net = IF "net" \in DOMAIN pl THEN pl["net"].value ELSE "none"
        /\ net \in {"none", "dhcp", "ignore"}
    <2>1. "net" \in DOMAIN pl => pl["net"].value \in {"none", "dhcp", "ignore"}
      BY Zenon DEF Storable
    <2> QED BY <2>1 DEF Has, Value
  <1>4. /\ writes \in BOOLEAN /\ nosnap \in BOOLEAN
        /\ "writes" \in DOMAIN pl /\ pl["writes"].value = "false" => ~writes
    BY Zenon DEF Has, Value, Configs
  <1> HIDE DEF auto, net, writes, nosnap, preboot
  <1>5. /\ flags \in Configs /\ flags.net = net /\ flags.auto = auto /\ flags.writes = writes
        /\ flags.preboot = preboot /\ flags.override = c.override /\ flags.ipmi = c.ipmi
    <2>1. /\ auto \in BOOLEAN /\ preboot \in BOOLEAN /\ writes \in BOOLEAN /\ nosnap \in BOOLEAN
          /\ net \in {"none", "dhcp", "static", "ignore"}
      <3>1. auto \in BOOLEAN /\ preboot \in BOOLEAN
        BY <1>2, Zenon
      <3>2. net \in {"none", "dhcp", "static", "ignore"}
        BY <1>3, Zenon
      <3>3. writes \in BOOLEAN /\ nosnap \in BOOLEAN
        BY <1>4, Zenon
      <3> QED BY <3>1, <3>2, <3>3, Zenon
    <2>2. FlagsTaken(c, auto, net, writes, nosnap, preboot)
      BY <2>1, FlagsSet, Zenon
    <2> QED BY <2>2, Zenon DEF FlagsTaken
  <1> HIDE DEF flags
  <1> DEFINE l == PopulateBootdev(flags, pl)
  <1>6. /\ l \in Configs /\ l.net = flags.net /\ l.override = flags.override /\ l.ipmi = flags.ipmi
        /\ l.auto = flags.auto /\ l.preboot = flags.preboot /\ l.writes = flags.writes
        /\ "bootdevs" \in DOMAIN pl /\ OrderOf(pl["bootdevs"].value) # <<>> =>
             l.order = OrderOf(pl["bootdevs"].value)
    BY <1>5, BootdevPopulated
  <1> HIDE DEF l
  <1>7. l = PopulateAll(c, pl)
    BY <1>1 DEF l
  <1> QED BY <1>2, <1>3, <1>4, <1>5, <1>6, <1>7

LEMMA DefaultsOk == InForce(Defaults) /\ Defaults.ipmi = "none"
  BY DEF InForce, Configs, Defaults, AllOrders

(* What was saved is what the next start reads.                                *)
LEMMA SavedRead == PInv => SavedLasts
  <1> SUFFICES ASSUME PInv, up, saved # <<>>
               PROVE  LET loaded == PopulateAll(Defaults, ParseNvram)
                      IN  /\ loaded.auto = saved[1].auto
                          /\ loaded.preboot = saved[1].preboot
                          /\ saved[1].order # <<>> => loaded.order = saved[1].order
                          /\ ~saved[1].override => loaded.net = saved[1].net
                          /\ saved[1].writes = FALSE => ~loaded.writes
    BY Zenon DEF SavedLasts
  <1> DEFINE pl == ParseNvram  l == PopulateAll(Defaults, ParseNvram)  c == saved[1]
  <1>1. DOMAIN pl = DOMAIN nvram /\ \A n \in DOMAIN pl : pl[n].value = nvram[n]
    BY DEF ParseNvram, Param
  <1>2. \A n \in DOMAIN pl : Storable(n, pl[n].value)
    BY <1>1 DEF PInv
  <1>3. Agrees(nvram, c) /\ c \in Configs
    BY DEF PInv
  <1>4. Defaults \in Configs
    BY DefaultsOk DEF InForce
  <1> HIDE DEF pl
  <1>5. /\ l \in Configs /\ l.net = IF "net" \in DOMAIN pl THEN pl["net"].value ELSE "none"
        /\ l.auto <=> ~("auto" \in DOMAIN pl /\ pl["auto"].value = "false")
        /\ l.preboot <=> ~("preboot" \in DOMAIN pl /\ pl["preboot"].value = "false")
        /\ "writes" \in DOMAIN pl /\ pl["writes"].value = "false" => ~l.writes
        /\ "bootdevs" \in DOMAIN pl /\ OrderOf(pl["bootdevs"].value) # <<>> =>
             l.order = OrderOf(pl["bootdevs"].value)
    BY <1>2, <1>4, AllPopulated DEF pl
  <1> HIDE DEF l, c
  <1>6. l.auto \in BOOLEAN /\ l.preboot \in BOOLEAN /\ c.auto \in BOOLEAN /\ c.preboot \in BOOLEAN
    BY <1>3, <1>5 DEF Configs
  <1>7. l.auto = c.auto /\ l.preboot = c.preboot
    BY <1>1, <1>3, <1>5, <1>6 DEF Agrees
  <1>8. c.order # <<>> => l.order = c.order
    BY <1>1, <1>3, <1>5 DEF Agrees
  <1>9. ~c.override => l.net = c.net
    BY <1>1, <1>3, <1>5 DEF Agrees
  <1>10. c.writes = FALSE => ~l.writes
    BY <1>1, <1>3, <1>5 DEF Agrees
  <1> QED BY <1>7, <1>8, <1>9, <1>10 DEF l, c

-----------------------------------------------------------------------------
(* write_nvram(): what has been written has the value of the list.             *)
LEMMA Wrote ==
  ASSUME NEW pl, NEW ws \in SUBSET Modified(pl), nvram' = WriteNvram(pl, ws)
  PROVE  /\ DOMAIN nvram' = DOMAIN nvram \cup ws /\ ws \subseteq DOMAIN pl
         /\ \A n \in ws : nvram'[n] = pl[n].value
         /\ \A n \in DOMAIN nvram : n \notin ws => nvram'[n] = nvram[n]
  BY DEF WriteNvram, Value, Modified

(* The parameters of a mailbox, and of before it.                              *)
LEMMA Replaced ==
  ASSUME NEW pl, NEW v, \A n \in DOMAIN pl : Storable(n, pl[n].value), Storable("bootdevs", v),
         NEW q, q = Unmodified(ParamListSet(pl, "bootdevs", v, FALSE), "bootdevs")
  PROVE  /\ DOMAIN q = DOMAIN pl \cup {"bootdevs"}
         /\ \A n \in DOMAIN q : Storable(n, q[n].value)
         /\ \A n \in DOMAIN pl : n # "bootdevs" => q[n] = pl[n]
         /\ ~q["bootdevs"].modified
  <1> DEFINE l == ParamListSet(pl, "bootdevs", v, FALSE)
  <1>1. /\ DOMAIN l = DOMAIN pl \cup {"bootdevs"} /\ l["bootdevs"].value = v
        /\ \A n \in DOMAIN pl : n # "bootdevs" => l[n] = pl[n]
    BY DEF ParamListSet, Put, Param, Has, Value
  <1> HIDE DEF l
  <1>2. q = Unmodified(l, "bootdevs")
    BY DEF l
  <1>3. /\ DOMAIN q = DOMAIN pl \cup {"bootdevs"}
        /\ q["bootdevs"] = Param(v, FALSE)
        /\ \A n \in DOMAIN pl : n # "bootdevs" => q[n] = pl[n]
    BY <1>1, <1>2, Zenon DEF Unmodified, Put, Value
  <1>4. q["bootdevs"].value = v /\ ~q["bootdevs"].modified
    <2>1. Param(v, FALSE).value = v /\ ~Param(v, FALSE).modified
      BY DEF Param
    <2> QED BY <1>3, <2>1, Zenon
  <1>5. \A n \in DOMAIN q : Storable(n, q[n].value)
    BY <1>3, <1>4, Zenon
  <1> QED BY <1>3, <1>4, <1>5, Zenon

(* load_config()                                                               *)
LEMMA StartKeeps ==
  ASSUME PInv, Start
  PROVE  PInv'
  <1>1. PICK failed : /\ LoadConfig(failed) /\ ~up /\ up' = TRUE /\ counted' = FALSE
                      /\ UNCHANGED <<nvram, bmc, saved, one, saves, restarts, events>>
    BY DEF Start
  <1> DEFINE pl == ParseNvram
             box == MailboxRead(failed)
             q == WithMailbox(pl, box)
             d == [Defaults EXCEPT !.mailbox = box # <<>>]
             stored == PopulateAll(d, q)
             dev == BootdevRead(failed)
             withdev == WithBootdev(stored, dev)
             net == NetworkRead(failed)
  <1>2. /\ params' = q /\ config' = WithNetwork(withdev, net) /\ boxed' = (box # <<>>)
        /\ original' = IF box # <<>> /\ Has(pl, "bootdevs") THEN <<Value(pl, "bootdevs")>> ELSE <<>>
    BY <1>1 DEF LoadConfig
  <1>3. /\ box \in {<<>>} \cup {<<b>> : b \in Boxes} /\ dev \in {"none", "disk", "safe"}
        /\ net \in {"none", "static", "ignore"} /\ bmc.persistent \in BOOLEAN
        /\ bmc.dev = "none" => dev = "none"
    BY DEF PInv, Bmcs, MailboxRead, BootdevRead, NetworkRead
  <1>4. DOMAIN pl = DOMAIN nvram /\ \A n \in DOMAIN pl : pl[n].value = nvram[n] /\ ~pl[n].modified
    BY DEF ParseNvram, Param
  <1>5. \A n \in DOMAIN pl : Storable(n, pl[n].value)
    BY <1>4 DEF PInv
  <1> HIDE DEF pl, box, dev, net
  <1>6. /\ DOMAIN pl \subseteq DOMAIN q /\ \A n \in DOMAIN q : Storable(n, q[n].value) /\ ~q[n].modified
        /\ box = <<>> => q = pl
        /\ box # <<>> => "bootdevs" \in DOMAIN q
    <2>1. CASE box = <<>>
      BY <1>4, <1>5, <2>1 DEF WithMailbox
    <2>2. CASE box # <<>>
      <3>1. PICK b \in Boxes : box = <<b>>
        BY <1>3, <2>2
      <3>2. Storable("bootdevs", b)
        BY DEF Storable, OrderOf, AllOrders
      <3>3. q = Unmodified(ParamListSet(pl, "bootdevs", b, FALSE), "bootdevs")
        BY <2>2, <3>1 DEF WithMailbox
      <3> HIDE DEF q
      <3>4. /\ DOMAIN q = DOMAIN pl \cup {"bootdevs"} /\ \A n \in DOMAIN q : Storable(n, q[n].value)
            /\ \A n \in DOMAIN pl : n # "bootdevs" => q[n] = pl[n]
            /\ ~q["bootdevs"].modified
        BY <1>5, <3>2, <3>3, Replaced, Zenon
      <3> QED BY <1>4, <2>2, <3>4
    <2> QED BY <2>1, <2>2
  <1> HIDE DEF q
  <1>7. d \in Configs /\ d.ipmi = "none" /\ d.override = FALSE
    BY Zenon DEF Defaults, Configs, AllOrders
  <1> HIDE DEF d
  <1>8. /\ stored \in Configs /\ stored.ipmi = "none"
        /\ stored.net = IF "net" \in DOMAIN q THEN q["net"].value ELSE "none"
    BY <1>6, <1>7, AllPopulated
  <1>9. stored.net # "static"
    BY <1>6, <1>8, Zenon DEF Storable
  <1> HIDE DEF stored
  <1>10. /\ withdev \in Configs /\ withdev.net = stored.net
         /\ dev = "none" => withdev.ipmi = "none"
    <2>1. stored \in Configs
      BY <1>8
    <2>2. ASSUME NEW p \in BOOLEAN, NEW safe \in BOOLEAN
          PROVE  LET w == [stored EXCEPT !.ipmi = dev, !.persistent = p, !.safe = safe]
                 IN  w \in Configs /\ w.net = stored.net
      BY <1>3, <2>1, Zenon DEF Configs
    <2>3. CASE dev = "none"
      BY <1>8, <2>3 DEF WithBootdev
    <2>4. CASE dev # "none"
      <3>1. withdev = [stored EXCEPT !.ipmi = dev, !.persistent = bmc.persistent, !.safe = dev = "safe"]
        BY <2>4 DEF WithBootdev
      <3> HIDE DEF withdev
      <3> QED BY <1>3, <2>2, <2>4, <3>1, Zenon
    <2> QED BY <2>3, <2>4
  <1> HIDE DEF withdev
  <1>11. InForce(config') /\ (dev = "none" => config'.ipmi = "none")
    <2>1. CASE net = "none"
      BY <1>2, <1>9, <1>10, <2>1 DEF WithNetwork, InForce
    <2>2. CASE net # "none"
      BY <1>2, <1>3, <1>10, <2>2, Zenon DEF WithNetwork, InForce, Configs
    <2> QED BY <2>1, <2>2
  <1>12. original' # <<>> =>
           Storable("bootdevs", original'[1]) /\ "bootdevs" \in DOMAIN params' /\ boxed'
    BY <1>2, <1>5, <1>6, Zenon DEF Has, Value
  <1>13. Modified(params') = {} /\ \A n \in DOMAIN params' : Storable(n, params'[n].value)
    BY <1>2, <1>6 DEF Modified
  <1>14. ~boxed' => \A n \in DOMAIN params' \ Modified(params') :
                      n \in DOMAIN nvram' /\ nvram'[n] = params'[n].value
    BY <1>1, <1>2, <1>4, <1>6, Zenon
  <1>15. DOMAIN nvram' \subseteq DOMAIN params'
    BY <1>1, <1>2, <1>4, <1>6
  <1>16. one' = 1 => bmc'.dev = "none" /\ (~counted' => config'.ipmi = "none")
    BY <1>1, <1>3, <1>11 DEF PInv
  <1> QED BY <1>1, <1>11, <1>12, <1>13, <1>14, <1>15, <1>16 DEF PInv, Kept, Modified

(* config_set() and save_config(), for what any client or the device handler   *)
(* sends.                                                                      *)
Sendable(c) ==
    /\ c \in Forms /\ (c.net = "static" => c.override)
    /\ config.ipmi = "none" => c.ipmi \in {"none", "invalid"}

LEMMA SetKeeps ==
  ASSUME PInv, NEW c, Sendable(c), ConfigSet(c)
  PROVE  PInv'
  <1> DEFINE cl == Cleared(c)
             back == Restores(c) /\ ~params["bootdevs"].modified
             r == Restored(params, c)
             after == RestoredConfig(params, cl)
             pl == UpdateAll(r, after)
  <1>1. /\ up /\ params' = pl /\ original' = (IF Restores(c) THEN <<>> ELSE original)
        /\ bmc' = [bmc EXCEPT !.dev = IF c.ipmi = "invalid" THEN "none" ELSE @,
                              !.box = IF Restores(c) THEN <<>> ELSE @]
        /\ UNCHANGED <<up, boxed, one, counted, restarts, events>>
        /\ \E ws \in SUBSET Modified(pl) :
             /\ nvram' = WriteNvram(pl, ws)
             /\ config' = IF ws = Modified(pl) THEN after ELSE config
             /\ saved' = IF ws = Modified(pl) /\ ~boxed THEN <<after>> ELSE <<>>
    BY Zenon DEF ConfigSet
  <1>2. /\ cl \in Configs /\ cl.net = c.net /\ cl.override = c.override /\ cl.mailbox = c.mailbox
        /\ config.ipmi = "none" => cl.ipmi = "none"
    <2>1. CASE c.ipmi = "invalid"
      BY <2>1, Zenon DEF Sendable, Cleared, Forms, Configs
    <2>2. CASE c.ipmi # "invalid"
      <3>1. c \in Configs
        BY <2>2 DEF Sendable, Forms, Configs
      <3> QED BY <2>2, <3>1 DEF Sendable, Cleared
    <2> QED BY <2>1, <2>2
  <1>3. Restores(cl) = Restores(c)
    BY <1>2 DEF Restores
  <1> HIDE DEF cl
  <1>4. /\ DOMAIN r = DOMAIN params /\ \A n \in DOMAIN r : Storable(n, r[n].value)
        /\ original = <<>> => r = params
    <2>1. CASE back
      <3>1. /\ Storable("bootdevs", original[1]) /\ "bootdevs" \in DOMAIN params /\ original # <<>>
            /\ \A n \in DOMAIN params : Storable(n, params[n].value)
        BY <2>1 DEF PInv, Restores
      <3>2. r = Unmodified(ParamListSet(params, "bootdevs", original[1], FALSE), "bootdevs")
        BY <2>1 DEF Restored
      <3> HIDE DEF r
      <3>3. DOMAIN r = DOMAIN params \cup {"bootdevs"} /\ \A n \in DOMAIN r : Storable(n, r[n].value)
        BY <3>1, <3>2, Replaced, Zenon
      <3> QED BY <3>1, <3>3, Zenon
    <2>2. CASE ~back
      <3>1. r = params
        BY <2>2, Zenon DEF Restored
      <3> QED BY <3>1 DEF PInv
    <2> QED BY <2>1, <2>2
  <1>5. /\ InForce(after) /\ (config.ipmi = "none" => after.ipmi = "none")
    <2>1. CASE back
      <3>1. after = PopulateBootdev(cl, r)
        BY <1>2, <1>3, <2>1 DEF RestoredConfig, Restored, Restores
      <3> HIDE DEF r, after
      <3>2. /\ after \in Configs /\ after.net = cl.net /\ after.override = cl.override
            /\ after.ipmi = cl.ipmi
        BY <1>2, <1>4, <3>1, BootdevPopulated
      <3> QED BY <1>2, <3>2 DEF InForce, Sendable
    <2>2. CASE ~back
      <3>1. after = cl
        BY <1>3, <2>2 DEF RestoredConfig
      <3> QED BY <1>2, <3>1 DEF InForce, Sendable
    <2> QED BY <2>1, <2>2
  <1> HIDE DEF r, after
  <1>6. /\ DOMAIN r \subseteq DOMAIN pl
        /\ \A n \in DOMAIN pl : Storable(n, pl[n].value)
        /\ \A n \in DOMAIN pl : ~pl[n].modified => n \in DOMAIN r /\ pl[n] = r[n]
        /\ Agrees([n \in DOMAIN pl |-> pl[n].value], after)
    BY <1>4, <1>5, AllSet, Zenon
  <1> HIDE DEF pl
  <1>7. PICK ws \in SUBSET Modified(pl) :
             /\ nvram' = WriteNvram(pl, ws)
             /\ config' = IF ws = Modified(pl) THEN after ELSE config
             /\ saved' = IF ws = Modified(pl) /\ ~boxed THEN <<after>> ELSE <<>>
    BY <1>1, Zenon
  <1>8. /\ DOMAIN nvram' = DOMAIN nvram \cup ws /\ ws \subseteq DOMAIN pl
        /\ \A n \in ws : nvram'[n] = pl[n].value
        /\ \A n \in DOMAIN nvram : n \notin ws => nvram'[n] = nvram[n]
    BY <1>7, Wrote, Zenon
  <1>9. bmc' \in Bmcs /\ (bmc.dev = "none" => bmc'.dev = "none")
    BY <1>1, Zenon DEF PInv, Bmcs
  <1>10. InForce(config') /\ (config.ipmi = "none" => config'.ipmi = "none")
    BY <1>5, <1>7 DEF PInv
  <1>11. \A n \in DOMAIN nvram' : Storable(n, nvram'[n])
    BY <1>6, <1>8 DEF PInv
  <1>12. original' # <<>> =>
           Storable("bootdevs", original'[1]) /\ "bootdevs" \in DOMAIN params' /\ boxed'
    BY <1>1, <1>4, <1>6 DEF PInv
  <1>13. DOMAIN nvram' \subseteq DOMAIN params'
    BY <1>1, <1>4, <1>6, <1>8 DEF PInv
  <1>14. ASSUME ~boxed PROVE \A n \in DOMAIN pl \ Modified(pl) : n \in DOMAIN nvram' /\ nvram'[n] = pl[n].value
    <2>1. original = <<>>
      BY <1>14 DEF PInv
    <2> TAKE n \in DOMAIN pl \ Modified(pl)
    <2>2. n \in DOMAIN params /\ pl[n] = params[n] /\ ~params[n].modified /\ n \notin ws
      BY <1>4, <1>6, <1>7, <2>1 DEF Modified
    <2>3. n \in DOMAIN nvram /\ nvram[n] = params[n].value
      BY <1>14, <2>2 DEF PInv, Kept, Modified
    <2> QED BY <1>8, <2>2, <2>3
  <1>15. ASSUME saved' # <<>>
         PROVE  /\ saved'[1] \in Configs /\ Agrees(nvram', saved'[1])
                /\ \A n \in Modified(pl) : n \in DOMAIN nvram' /\ nvram'[n] = pl[n].value
    <2>1. ws = Modified(pl) /\ ~boxed /\ saved' = <<after>>
      BY <1>7, <1>15
    <2>2. \A n \in DOMAIN pl : n \in DOMAIN nvram' /\ nvram'[n] = pl[n].value
      BY <1>8, <1>14, <2>1
    <2>3. DOMAIN nvram' = DOMAIN pl
      BY <1>1, <1>13, <2>2
    <2>4. Agrees(nvram', after)
      <3> DEFINE f == [n \in DOMAIN pl |-> pl[n].value]
      <3>1. DOMAIN f = DOMAIN nvram' /\ \A n \in DOMAIN nvram' : f[n] = nvram'[n]
        BY <2>2, <2>3
      <3>2. Agrees(f, after)
        BY <1>6
      <3> HIDE DEF f
      <3> QED BY <3>1, <3>2 DEF Agrees
    <2>5. saved'[1] = after
      BY <2>1
    <2> QED BY <1>5, <2>1, <2>2, <2>4, <2>5 DEF InForce, Modified
  <1>16. /\ ~boxed' => \A n \in DOMAIN params' \ Modified(params') :
                         n \in DOMAIN nvram' /\ nvram'[n] = params'[n].value
         /\ \A n \in DOMAIN params' : Storable(n, params'[n].value)
    BY <1>1, <1>6, <1>14
  <1>17. saved' # <<>> => /\ saved'[1] \in Configs /\ Agrees(nvram', saved'[1])
                          /\ \A n \in Modified(params') \ {"password"} :
                               n \in DOMAIN nvram' /\ nvram'[n] = params'[n].value
    BY <1>1, <1>15
  <1>18. one' \in {0, 1} /\ (one' = 1 => bmc'.dev = "none" /\ (~counted' => config'.ipmi = "none"))
    BY <1>1, <1>9, <1>10 DEF PInv
  <1> QED BY <1>1, <1>9, <1>10, <1>11, <1>12, <1>13, <1>16, <1>17, <1>18 DEF PInv, Kept, Modified

(* What a client was told, and a copy of it, are configurations in force.      *)
LEMMA SentInForce ==
  ASSUME NEW c, InForce(c)
  PROVE  /\ InForce(Sent(c)) /\ Sent(c).ipmi = c.ipmi
         /\ InForce(ConfigCopy(c)) /\ ConfigCopy(c).ipmi = c.ipmi
  <1> DEFINE o == c.override /\ c.net # "ignore"
  <1>1. c \in Configs /\ o \in BOOLEAN /\ (c.net = "static" => o)
    BY DEF InForce
  <1>2. /\ Sent(c) = [c EXCEPT !.nosnap = FALSE, !.override = o]
        /\ ConfigCopy(c) = [c EXCEPT !.preboot = FALSE, !.nosnap = FALSE, !.override = o]
    BY DEF Sent, ConfigCopy
  <1> HIDE DEF o
  <1> QED BY <1>1, <1>2, Zenon DEF InForce, Configs

(* A client may change a setting of it.                                        *)
LEMMA Edited ==
  ASSUME NEW x, InForce(x), config.ipmi = "none" => x.ipmi = "none",
         NEW b \in BOOLEAN, NEW o \in AllOrders, NEW n \in {"none", "dhcp"}
  PROVE  /\ Sendable(x) /\ Sendable([x EXCEPT !.safe = FALSE])
         /\ Sendable([x EXCEPT !.auto = b, !.safe = FALSE])
         /\ Sendable([x EXCEPT !.writes = b, !.safe = FALSE])
         /\ Sendable([x EXCEPT !.preboot = b, !.safe = FALSE])
         /\ Sendable([x EXCEPT !.order = o, !.safe = FALSE])
         /\ Sendable([x EXCEPT !.net = n, !.override = FALSE, !.safe = FALSE])
         /\ Sendable([x EXCEPT !.ipmi = "invalid", !.safe = FALSE])
         /\ Sendable([x EXCEPT !.mailbox = FALSE, !.safe = FALSE])
  <1>1. x \in Forms /\ (x.net = "static" => x.override)
    BY DEF InForce, Forms, Configs
  <1>2. Sendable(x) /\ Sendable([x EXCEPT !.safe = FALSE])
    BY <1>1, Zenon DEF Sendable, Forms
  <1>3. Sendable([x EXCEPT !.auto = b, !.safe = FALSE])
    BY <1>1, Zenon DEF Sendable, Forms
  <1>4. Sendable([x EXCEPT !.writes = b, !.safe = FALSE])
    BY <1>1, Zenon DEF Sendable, Forms
  <1>5. Sendable([x EXCEPT !.preboot = b, !.safe = FALSE])
    BY <1>1, Zenon DEF Sendable, Forms
  <1>6. Sendable([x EXCEPT !.order = o, !.safe = FALSE])
    BY <1>1, Zenon DEF Sendable, Forms
  <1>7. Sendable([x EXCEPT !.net = n, !.override = FALSE, !.safe = FALSE])
    BY <1>1, Zenon DEF Sendable, Forms
  <1>8. Sendable([x EXCEPT !.ipmi = "invalid", !.safe = FALSE])
    BY <1>1, Zenon DEF Sendable, Forms
  <1>9. Sendable([x EXCEPT !.mailbox = FALSE, !.safe = FALSE])
    BY <1>1, Zenon DEF Sendable, Forms
  <1> QED BY <1>2, <1>3, <1>4, <1>5, <1>6, <1>7, <1>8, <1>9

LEMMA SaveKeeps ==
  ASSUME PInv, SaveForm \/ ClearIpmi \/ ClearMailbox \/ SaveLanguage \/ LeaveSafeMode
  PROVE  PInv'
  <1> DEFINE s == Sent(config)
             k == ConfigCopy(config)
             t == Sent(ConfigCopy(config))
  <1>1. /\ InForce(s) /\ s.ipmi = config.ipmi /\ InForce(k) /\ k.ipmi = config.ipmi
        /\ InForce(t) /\ t.ipmi = config.ipmi
    BY SentInForce DEF PInv
  <1> HIDE DEF s, k, t
  <1>2. \A b \in BOOLEAN : /\ Sendable([s EXCEPT !.auto = b, !.safe = FALSE])
                           /\ Sendable([s EXCEPT !.writes = b, !.safe = FALSE])
                           /\ Sendable([s EXCEPT !.preboot = b, !.safe = FALSE])
    <2>1. <<>> \in AllOrders
      BY DEF AllOrders
    <2> QED BY <1>1, <2>1, Edited, Zenon
  <1>3. \A o \in Orders : Sendable([s EXCEPT !.order = o, !.safe = FALSE])
    <2>1. Orders \subseteq AllOrders
      BY SMTT(30) DEF AllOrders
    <2> QED BY <1>1, <2>1, Edited, Zenon
  <1>4. \A n \in {"none", "dhcp"} :
          Sendable([s EXCEPT !.net = n, !.override = FALSE, !.safe = FALSE])
    <2>1. <<>> \in AllOrders
      BY DEF AllOrders
    <2> QED BY <1>1, <2>1, Edited, Zenon
  <1>5. /\ Sendable([t EXCEPT !.ipmi = "invalid", !.safe = FALSE])
        /\ Sendable([t EXCEPT !.mailbox = FALSE, !.safe = FALSE])
        /\ Sendable(t) /\ Sendable([k EXCEPT !.safe = FALSE])
    <2>1. <<>> \in AllOrders
      BY DEF AllOrders
    <2> QED BY <1>1, <2>1, Edited, Zenon
  <1>6. PICK c : Sendable(c) /\ ConfigSet(c)
    <2>1. CASE SaveForm
      BY <1>2, <1>3, <1>4, <2>1, Zenon DEF SaveForm, s
    <2>2. CASE ClearIpmi \/ ClearMailbox \/ SaveLanguage \/ LeaveSafeMode
      BY <1>5, <2>2, Zenon DEF ClearIpmi, ClearMailbox, SaveLanguage, LeaveSafeMode, t, k
    <2> QED BY <2>1, <2>2
  <1> QED BY <1>6, SetKeeps

(* set_password(): what was saved is written again as it is.                   *)
LEMMA PasswordKeeps ==
  ASSUME PInv, NEW h, SetPassword(h)
  PROVE  PInv'
  <1> DEFINE pl == ParamListSet(params, "password", h, TRUE)
  <1>1. /\ up /\ params' = pl /\ \E ws \in SUBSET Modified(pl) : nvram' = WriteNvram(pl, ws)
        /\ UNCHANGED <<config, original, bmc, up, saved, boxed, one, counted, restarts, events>>
    BY Zenon DEF SetPassword
  <1>2. OneSet(params, pl, "password", h) /\ "password" \in DOMAIN pl
    BY ListSet, Zenon
  <1> HIDE DEF pl
  <1>3. PICK ws \in SUBSET Modified(pl) : nvram' = WriteNvram(pl, ws)
    BY <1>1
  <1>4. /\ DOMAIN nvram' = DOMAIN nvram \cup ws /\ ws \subseteq DOMAIN pl
        /\ \A n \in ws : nvram'[n] = pl[n].value
        /\ \A n \in DOMAIN nvram : n \notin ws => nvram'[n] = nvram[n]
    BY <1>3, Wrote, Zenon
  <1>5. /\ DOMAIN pl = DOMAIN params \cup {"password"}
        /\ \A n \in DOMAIN pl : n # "password" => n \in DOMAIN params /\ pl[n] = params[n]
        /\ ~pl["password"].modified => "password" \in DOMAIN params /\ pl["password"] = params["password"]
    BY <1>2, Zenon DEF OneSet
  <1>6. \A n \in DOMAIN pl : Storable(n, pl[n].value)
    BY <1>5, Zenon DEF PInv, Storable
  <1>7. \A n \in DOMAIN nvram' : Storable(n, nvram'[n])
    BY <1>4, <1>6 DEF PInv
  <1>8. DOMAIN nvram' \subseteq DOMAIN pl /\ DOMAIN params \subseteq DOMAIN pl
    BY <1>1, <1>4, <1>5 DEF PInv
  <1>9. ASSUME ~boxed PROVE \A n \in DOMAIN pl \ Modified(pl) : n \in DOMAIN nvram' /\ nvram'[n] = pl[n].value
    <2> TAKE n \in DOMAIN pl \ Modified(pl)
    <2>1. n \in DOMAIN params /\ pl[n] = params[n] /\ ~params[n].modified /\ n \notin ws
      BY <1>3, <1>5 DEF Modified
    <2>2. n \in DOMAIN nvram /\ nvram[n] = params[n].value
      BY <1>9, <2>1 DEF PInv, Kept, Modified
    <2> QED BY <1>4, <2>1, <2>2
  <1>10. ASSUME saved # <<>>
         PROVE  /\ Agrees(nvram', saved[1])
                /\ \A n \in Modified(pl) \ {"password"} : n \in DOMAIN nvram' /\ nvram'[n] = pl[n].value
    <2>1. \A n \in Modified(pl) \ {"password"} :
            n \in DOMAIN nvram /\ nvram[n] = params[n].value /\ pl[n] = params[n]
      BY <1>5, <1>10 DEF PInv, Kept, Modified
    <2>2. \A n : n # "password" => /\ n \in DOMAIN nvram' <=> n \in DOMAIN nvram
                                   /\ n \in DOMAIN nvram => nvram'[n] = nvram[n]
      BY <1>3, <1>4, <2>1
    <2>3. Agrees(nvram, saved[1])
      BY <1>10 DEF PInv
    <2>4. Agrees(nvram', saved[1])
      BY <2>2, <2>3 DEF Agrees
    <2>5. ASSUME NEW n \in Modified(pl) \ {"password"} PROVE n \in DOMAIN nvram' /\ nvram'[n] = pl[n].value
      BY <2>1, <2>2
    <2> QED BY <2>4, <2>5
  <1> QED BY <1>1, <1>6, <1>7, <1>8, <1>9, <1>10 DEF PInv, Kept, Modified

(* pre_boot() clears the BMC's device and counts the session.                  *)
LEMMA BootKeeps ==
  ASSUME PInv, PreBoot
  PROVE  PInv'
  <1>1. /\ one' = (IF ~counted /\ config.ipmi # "none" /\ ~config.persistent THEN one + 1 ELSE one)
        /\ counted' /\ bmc' = IF config.persistent THEN bmc ELSE [bmc EXCEPT !.dev = "none"]
        /\ UNCHANGED <<nvram, params, config, original, up, saved, boxed>>
    BY DEF PreBoot, CountBoot
  <1>2. bmc' \in Bmcs /\ (bmc.dev = "none" => bmc'.dev = "none") /\ (~config.persistent => bmc'.dev = "none")
    BY <1>1 DEF PInv, Bmcs
  <1>3. one' \in {0, 1} /\ (one' = 1 => bmc'.dev = "none")
    BY <1>1, <1>2 DEF PInv
  <1> QED BY <1>1, <1>2, <1>3 DEF PInv, Kept, Modified

LEMMA OperatorKeeps ==
  ASSUME PInv, Operator
  PROVE  PInv'
  <1>1. /\ UNCHANGED <<nvram, params, config, original, up, saved, boxed>>
        /\ \/ one' = 0
           \/ UNCHANGED <<one, counted>> /\ bmc'.dev = bmc.dev
        /\ bmc' \in Bmcs
    <2>1. bmc \in Bmcs
      BY SMTT(30) DEF PInv
    <2>2. CASE \E d \in {"disk", "safe"}, p \in BOOLEAN :
                 bmc' = [bmc EXCEPT !.dev = d, !.persistent = p] /\ one' = 0
      BY <2>1, <2>2, Zenon DEF Operator, Bmcs
    <2>3. CASE UNCHANGED <<one, counted>> /\ \E b \in {<<>>} \cup {<<x>> : x \in Boxes} : bmc' = [bmc EXCEPT !.box = b]
      BY <2>1, <2>3, Zenon DEF Operator, Bmcs
    <2>4. CASE UNCHANGED <<one, counted>> /\ \E n \in {"static", "ignore", "none"} : bmc' = [bmc EXCEPT !.net = n]
      BY <2>1, <2>4, Zenon DEF Operator, Bmcs
    <2> QED BY <2>2, <2>3, <2>4, Zenon DEF Operator
  <1> QED BY <1>1, SMTT(30) DEF PInv, Kept, Modified

LEMMA PlatformInitInv == PlatformInit => PInv
  <1> SUFFICES ASSUME PlatformInit PROVE PInv
    OBVIOUS
  <1>1. /\ DOMAIN params = {} /\ config = Defaults /\ original = <<>> /\ ~up /\ saved = <<>> /\ one = 0
        /\ bmc = [dev |-> "none", persistent |-> FALSE, box |-> <<>>, net |-> "none"]
    BY DEF PlatformInit
  <1>2. bmc \in Bmcs
    BY <1>1 DEF Bmcs
  <1>3. \A n \in DOMAIN nvram : Storable(n, nvram[n])
    <2>1. CASE nvram = <<>>
      <3>1. DOMAIN nvram = {}
        BY <2>1
      <3> QED BY <3>1
    <2>2. CASE nvram = [snap |-> "false", bootdevs |-> BootdevStr(<<"disk">>)]
      <3>1. DOMAIN nvram = {"snap", "bootdevs"} /\ nvram["bootdevs"] = BootdevStr(<<"disk">>)
        BY <2>2
      <3>2. OrderOf(BootdevStr(<<"disk">>)) \in AllOrders
        BY DEF OrderOf, BootdevStr, AllOrders
      <3> QED BY <3>1, <3>2, Zenon DEF Storable
    <2> QED BY <2>1, <2>2 DEF PlatformInit
  <1> QED BY <1>1, <1>2, <1>3, DefaultsOk DEF PInv, Modified

LEMMA PlatformStepInv == PInv /\ [PlatformNext]_pvars => PInv'
  <1> SUFFICES ASSUME PInv, [PlatformNext]_pvars PROVE PInv'
    OBVIOUS
  <1>1. CASE Stop
    <2>1. /\ ~up' /\ config' = Defaults /\ original' = <<>> /\ boxed' = FALSE
          /\ UNCHANGED <<nvram, bmc, saved, one, counted>>
      BY <1>1 DEF Stop
    <2>2. DOMAIN params' = {}
      BY <1>1 DEF Stop
    <2> QED BY <2>1, <2>2, DefaultsOk DEF PInv, Kept, Modified
  <1>2. CASE UNCHANGED pvars
    BY <1>2 DEF pvars, PInv, Kept, Modified
  <1> QED BY <1>1, <1>2, StartKeeps, SaveKeeps, PasswordKeeps, BootKeeps, OperatorKeeps
          DEF PlatformNext

THEOREM PlatformInductive == PlatformSpec => []PInv
BY PlatformInitInv, PlatformStepInv, PTL DEF PlatformSpec

(* save_config(), load_config(): whatever fails, is cleared or overridden in   *)
(* between, and however often the machine restarts, the configuration saved    *)
(* last is the one that is read.                                               *)
THEOREM SavedAlwaysLasts == PlatformSpec => []SavedLasts
BY PlatformInductive, SavedRead, PTL

(* params_update_network_values(): no sequence of saves, copies and restarts   *)
(* brings a static network override of the BMC into NVRAM.                     *)
THEOREM OverrideNeverStored == PlatformSpec => []OverrideNotStored
<1>1. PInv => OverrideNotStored
  BY Zenon DEF PInv, OverrideNotStored, Storable
<1> QED BY <1>1, PlatformInductive, PTL

(* pre_boot(), load_config(): a one-shot boot device is in force in at most    *)
(* one session that boots, for any number of restarts, saves and boots.        *)
THEOREM OneShotAtMostOnce == PlatformSpec => []OneShotOnce
<1>1. PInv => OneShotOnce
  BY DEF PInv, OneShotOnce
<1> QED BY <1>1, PlatformInductive, PTL
=============================================================================
