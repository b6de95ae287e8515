------------------------------ MODULE BootProofs ------------------------------
(***************************************************************************)
(* Proofs about what is booted: PxeSearch, which looks for a configuration *)
(* on the network, for any number of searches side by side and any number  *)
(* of names in a lease; and Autoboot, for any devices, options,            *)
(* configurations, boot tasks and countdown waiters.                       *)
(***************************************************************************)
EXTENDS PxeSearch, Autoboot, WellFoundedInduction, TLAPS

SearchT ==
    [kind : {"none", "auto", "conf", "url"}, numeric : BOOLEAN, current : 1 .. Names + 1,
     load : [File -> {"none", "process", "queued"}],
     outcome : [File -> {"none", "failed", "parsed"}],
     conf : {"none", "held", "freed"}, told : BOOLEAN, tmp : SUBSET File]

(* The names before the current one have failed, those after it have not   *)
(* been tried, and only the current one has a load.                        *)
InOrder(s) ==
    /\ \A f \in File : /\ f < s.current => s.outcome[f] = "failed" /\ s.load[f] = "none"
                       /\ f > s.current => s.outcome[f] = "none" /\ s.load[f] = "none"
    /\ s.told => s.current = Names + 1

Good(s) ==
    /\ s \in SearchT
    /\ s.kind = "none" => /\ s.current = 1 /\ ~s.told
                          /\ \A f \in File : s.load[f] = "none" /\ s.outcome[f] = "none"
    /\ s.kind \in {"conf", "url"} =>
         \A f \in File : f # 1 => s.load[f] = "none" /\ s.outcome[f] = "none"
    /\ s.kind = "auto" => InOrder(s)
    /\ \A f \in File : s.load[f] # "none" => s.conf = "held"

(* A job in the queue is a load that is queued. *)
QueueOf(q, ss) ==
    /\ q \in Seq(Searches \X File)
    /\ \A i \in DOMAIN q : ss[q[i][1]].load[q[i][2]] = "queued"

IInv ==
    /\ srch \in [Searches -> SearchT]
    /\ \A r \in Searches : Good(srch[r])
    /\ QueueOf(queue, srch)

-----------------------------------------------------------------------------
(* A search that is about to try its current name. *)
Ready(s) ==
    /\ s \in SearchT /\ s.kind = "auto" /\ s.conf = "held" /\ ~s.told
    /\ \A f \in File : /\ s.load[f] = "none"
                       /\ f < s.current => s.outcome[f] = "failed"
                       /\ f >= s.current => s.outcome[f] = "none"

(* v is s with the names from .. to failed. *)
FailedIn(v, s, from, to) ==
    /\ v \in SearchT /\ v.kind = s.kind /\ v.load = s.load /\ v.conf = s.conf /\ v.told = s.told
    /\ \A f \in File : v.outcome[f] = IF from <= f /\ f <= to THEN "failed" ELSE s.outcome[f]

LEMMA FailFields ==
  ASSUME Names \in Nat \ {0}, NEW s \in SearchT, NEW from \in Nat, NEW to \in Int
  PROVE  FailedIn(Fail(s, from, to), s, from, to)
  <1> DEFINE o == [f \in File |-> IF f \in from .. to THEN "failed" ELSE s.outcome[f]]
  <1>1. o \in [File -> {"none", "failed", "parsed"}]
    BY DEF SearchT
  <1>2. \A f \in File : o[f] = IF from <= f /\ f <= to THEN "failed" ELSE s.outcome[f]
    BY DEF File
  <1>3. Fail(s, from, to) = [s EXCEPT !.outcome = o]
    BY DEF Fail
  <1> HIDE DEF o
  <1> QED BY <1>1, <1>2, <1>3 DEF SearchT, FailedIn

LEMMA CurrentFields ==
  ASSUME NEW s \in SearchT, NEW n \in 1 .. Names + 1
  PROVE  /\ [s EXCEPT !.current = n] \in SearchT
         /\ [s EXCEPT !.current = n].current = n
         /\ [s EXCEPT !.current = n].kind = s.kind
         /\ [s EXCEPT !.current = n].load = s.load
         /\ [s EXCEPT !.current = n].outcome = s.outcome
         /\ [s EXCEPT !.current = n].conf = s.conf
         /\ [s EXCEPT !.current = n].told = s.told
  BY DEF SearchT

(* t is s with the load of f started, or failed. *)
Started(t, s, f, way) ==
    /\ t \in SearchT /\ t.kind = s.kind /\ t.current = s.current /\ t.conf = s.conf
    /\ t.told = s.told
    /\ t.load = [s.load EXCEPT ![f] = way]
    /\ t.outcome = s.outcome

LEMMA LoadStarted ==
  ASSUME NEW s \in SearchT, NEW f \in File, NEW way \in {"process", "queued"}
  PROVE  Started(LoadUrl(s, f, way), s, f, way)
  <1>1. CASE way = "process"
    <2>1. LoadUrl(s, f, way) = [s EXCEPT !.load = [s.load EXCEPT ![f] = "process"],
                                         !.tmp = s.tmp \cup {f}]
      BY <1>1 DEF LoadUrl
    <2>2. [s.load EXCEPT ![f] = "process"] \in [File -> {"none", "process", "queued"}]
      BY DEF SearchT
    <2>3. s.tmp \cup {f} \in SUBSET File
      BY DEF SearchT
    <2> QED BY <1>1, <2>1, <2>2, <2>3, Zenon DEF SearchT, Started
  <1>2. CASE way = "queued"
    <2>1. LoadUrl(s, f, way) = [s EXCEPT !.load = [s.load EXCEPT ![f] = "queued"]]
      BY <1>2 DEF LoadUrl
    <2>2. [s.load EXCEPT ![f] = "queued"] \in [File -> {"none", "process", "queued"}]
      BY DEF SearchT
    <2> QED BY <1>2, <2>1, <2>2 DEF SearchT, Started
  <1> QED BY <1>1, <1>2

LEMMA LoadNotStarted ==
  ASSUME NEW s \in SearchT, NEW f \in File
  PROVE  LoadUrl(s, f, "nostart") = [s EXCEPT !.outcome = [s.outcome EXCEPT ![f] = "failed"]]
  BY DEF LoadUrl

(* pxe_load_next_filename() keeps the order. *)
LEMMA LoadNext ==
  ASSUME Names \in Nat \ {0}, NEW s, Ready(s), NEW t \in LoadNextFilename(s)
  PROVE  Good(t) /\ ~t.told /\ t.kind = "auto"
  <1>1. /\ s.current \in Nat /\ s.current >= 1 /\ s.current <= Names + 1 /\ s \in SearchT
        /\ Names \in Int
    BY DEF Ready, SearchT
  <1>2. CASE t = [Fail(s, s.current, Names) EXCEPT !.current = Names + 1]
    <2> DEFINE v == Fail(s, s.current, Names)
    <2>1. /\ v \in SearchT /\ v.kind = "auto" /\ ~v.told
          /\ \A f \in File : v.load[f] = "none" /\ v.outcome[f] = "failed"
      <3>1. /\ v \in SearchT /\ v.kind = s.kind /\ v.told = s.told /\ v.load = s.load
            /\ v.conf = s.conf
            /\ \A f \in File : v.outcome[f] =
                                 IF s.current <= f /\ f <= Names THEN "failed" ELSE s.outcome[f]
        <4>1. FailedIn(v, s, s.current, Names)
          BY <1>1, FailFields, Zenon
        <4> HIDE DEF v
        <4> QED BY <4>1 DEF FailedIn
      <3> HIDE DEF v
      <3> QED BY <1>1, <3>1 DEF Ready, File
    <2> HIDE DEF v
    <2>2. t = [v EXCEPT !.current = Names + 1]
      BY <1>2 DEF v
    <2>3. /\ t \in SearchT /\ t.current = Names + 1 /\ t.kind = v.kind /\ t.load = v.load
          /\ t.outcome = v.outcome /\ t.told = v.told
      BY <2>1, <2>2, CurrentFields
    <2> QED BY <2>1, <2>3 DEF Good, InOrder, File
  <1>3. ASSUME NEW n \in s.current .. Names, NEW way \in {"process", "queued"},
               t = LoadUrl([Fail(s, s.current, n - 1) EXCEPT !.current = n], n, way)
        PROVE  Good(t) /\ ~t.told /\ t.kind = "auto"
    <2>m. PICK m \in Int : m = n - 1
      BY <1>1
    <2> DEFINE v == Fail(s, s.current, m)
               u == [v EXCEPT !.current = n]
    <2>0. n \in Nat /\ n \in File /\ n \in 1 .. Names + 1 /\ s.current <= n
      BY <1>1 DEF File
    <2>1. /\ v \in SearchT /\ v.kind = "auto" /\ v.conf = "held" /\ ~v.told
          /\ \A f \in File : /\ v.load[f] = "none"
                             /\ f < n => v.outcome[f] = "failed"
                             /\ f >= n => v.outcome[f] = "none"
      <3>1. /\ v \in SearchT /\ v.kind = s.kind /\ v.told = s.told /\ v.load = s.load
            /\ v.conf = s.conf
            /\ \A f \in File : v.outcome[f] =
                                 IF s.current <= f /\ f <= m THEN "failed" ELSE s.outcome[f]
        <4>1. FailedIn(v, s, s.current, m)
          BY <1>1, FailFields, Zenon
        <4> HIDE DEF v
        <4> QED BY <4>1 DEF FailedIn
      <3> HIDE DEF v
      <3>2. s.kind = "auto" /\ s.conf = "held" /\ ~s.told
        BY DEF Ready
      <3>3. ASSUME NEW f \in File
            PROVE  /\ v.load[f] = "none"
                   /\ f < n => v.outcome[f] = "failed"
                   /\ f >= n => v.outcome[f] = "none"
        <4>1. f \in Nat /\ (f <= m <=> f < n)
          BY <2>0, <2>m DEF File
        <4>2. /\ s.load[f] = "none"
              /\ f < s.current => s.outcome[f] = "failed"
              /\ f >= s.current => s.outcome[f] = "none"
          BY DEF Ready
        <4> QED BY <1>1, <2>0, <3>1, <4>1, <4>2
      <3> QED BY <3>1, <3>2, <3>3
    <2> HIDE DEF v
    <2>2. /\ u \in SearchT /\ u.current = n /\ u.kind = v.kind /\ u.load = v.load
          /\ u.outcome = v.outcome /\ u.told = v.told /\ u.conf = v.conf
      BY <2>0, <2>1, CurrentFields
    <2> HIDE DEF u
    <2>3. t = LoadUrl(u, n, way)
      BY <1>3, <2>m DEF u, v
    <2>4. /\ t \in SearchT /\ t.kind = u.kind /\ t.current = n /\ t.conf = u.conf
          /\ t.told = u.told /\ t.load = [u.load EXCEPT ![n] = way] /\ t.outcome = u.outcome
      <3>1. Started(t, u, n, way)
        BY <2>0, <2>2, <2>3, LoadStarted, Zenon
      <3> QED BY <2>2, <3>1 DEF Started
    <2>5. \A f \in File : f # n => t.load[f] = "none"
      <3>1. u.load \in [File -> {"none", "process", "queued"}]
        BY <2>2 DEF SearchT
      <3> QED BY <2>1, <2>2, <2>4, <3>1
    <2>6. \A f \in File : f < n \/ f = n \/ f > n
      BY <2>0 DEF File
    <2>7. InOrder(t) /\ ~t.told
      BY <2>0, <2>1, <2>2, <2>4, <2>5, <2>6 DEF InOrder, File
    <2> QED BY <2>1, <2>2, <2>4, <2>7 DEF Good
  <1>4. Ways(s) \subseteq {"process", "nostart", "queued"}
    BY DEF Ways
  <1>5. \/ t = [Fail(s, s.current, Names) EXCEPT !.current = Names + 1]
        \/ \E n \in s.current .. Names, way \in {"process", "queued"} :
             t = LoadUrl([Fail(s, s.current, n - 1) EXCEPT !.current = n], n, way)
    BY <1>1, <1>4 DEF LoadNextFilename, File
  <1> QED BY <1>2, <1>3, <1>5, Zenon

-----------------------------------------------------------------------------
(* A search with fewer loads than before is as good: the queue was started *)
(* or the searches were reinitialised.                                     *)
Lighter(t, s) ==
    /\ t \in SearchT /\ t.kind = s.kind /\ t.current = s.current /\ t.conf = s.conf
    /\ t.told = s.told /\ t.outcome = s.outcome
    /\ \A f \in File : t.load[f] # "none" => s.load[f] # "none"

LEMMA LighterGood ==
  ASSUME NEW s, NEW t, Good(s), Lighter(t, s)
  PROVE  Good(t)
  <1>1. \A f \in File : s.load[f] = "none" => t.load[f] = "none"
    BY DEF Lighter
  <1>2. s.kind = "auto" => InOrder(t)
    BY <1>1 DEF Good, InOrder, Lighter
  <1> QED BY <1>1, <1>2 DEF Good, Lighter

LEMMA StartPendingLighter ==
  ASSUME NEW ss \in [Searches -> SearchT], NEW q, QueueOf(q, ss), NEW bad, NEW r \in Searches
  PROVE  /\ StartPending(ss, q, bad) \in [Searches -> SearchT]
         /\ Lighter(StartPending(ss, q, bad)[r], ss[r])
  <1> DEFINE mine(x) == {f \in File : <<x, f>> \in {q[i] : i \in DOMAIN q}}
             load(x) == [f \in File |-> IF f \notin mine(x) THEN ss[x].load[f]
                                        ELSE IF <<x, f>> \in bad THEN "none" ELSE "process"]
             tmp(x) == ss[x].tmp \cup {f \in mine(x) : <<x, f>> \notin bad}
             t(x) == [ss[x] EXCEPT !.load = load(x), !.tmp = tmp(x)]
  <1>1. StartPending(ss, q, bad) = [x \in Searches |-> t(x)]
    BY DEF StartPending
  <1>2. ASSUME NEW x \in Searches
        PROVE  t(x) \in SearchT /\ Lighter(t(x), ss[x])
    <2>1. ss[x] \in SearchT
      OBVIOUS
    <2>2. load(x) \in [File -> {"none", "process", "queued"}]
      BY <2>1 DEF SearchT
    <2>3. tmp(x) \in SUBSET File
      BY <2>1 DEF SearchT
    <2>4. ASSUME NEW f \in File, load(x)[f] # "none"
          PROVE  ss[x].load[f] # "none"
      <3>1. CASE f \in mine(x)
        <4>1. PICK i \in DOMAIN q : q[i] = <<x, f>>
          BY <3>1
        <4>2. ss[q[i][1]].load[q[i][2]] = "queued"
          BY DEF QueueOf
        <4>3. q[i][1] = x /\ q[i][2] = f
          BY <4>1
        <4> QED BY <4>2, <4>3
      <3>2. CASE f \notin mine(x)
        BY <2>4, <3>2
      <3> QED BY <3>1, <3>2
    <2> HIDE DEF load, tmp, mine
    <2> QED BY <2>1, <2>2, <2>3, <2>4, Zenon DEF SearchT, Lighter
  <1> HIDE DEF t
  <1> QED BY <1>1, <1>2

-----------------------------------------------------------------------------
(* The queue after search r became s. *)
LEMMA QueueKept ==
  ASSUME NEW ss \in [Searches -> SearchT], NEW q, QueueOf(q, ss), NEW r \in Searches,
         NEW s \in SearchT, \A g \in File : ss[r].load[g] = "queued" => s.load[g] = "queued"
  PROVE  /\ QueueOf(q, [ss EXCEPT ![r] = s])
         /\ QueueOf(Queued(q, r, s), [ss EXCEPT ![r] = s])
  <1> DEFINE zz == [ss EXCEPT ![r] = s]
  <1>1. ASSUME NEW i \in DOMAIN q
        PROVE  zz[q[i][1]].load[q[i][2]] = "queued"
    <2>1. q[i] \in Searches \X File
      BY DEF QueueOf
    <2>2. q[i][1] \in Searches /\ q[i][2] \in File
      BY <2>1
    <2>3. ss[q[i][1]].load[q[i][2]] = "queued"
      BY DEF QueueOf
    <2>4. CASE q[i][1] = r
      BY <2>2, <2>3, <2>4
    <2>5. CASE q[i][1] # r
      BY <2>2, <2>3, <2>5
    <2> QED BY <2>4, <2>5
  <1>2. zz[r] = s
    OBVIOUS
  <1>3. QueueOf(q, zz)
    BY <1>1 DEF QueueOf
  <1> DEFINE new == {g \in File : s.load[g] = "queued" /\ <<r, g>> \notin {q[i] : i \in DOMAIN q}}
             g0 == CHOOSE g \in new : TRUE
  <1>4. CASE new # {}
    <2>1. g0 \in new
      BY <1>4
    <2>2. g0 \in File /\ s.load[g0] = "queued"
      BY <2>1
    <2>3. Queued(q, r, s) = Append(q, <<r, g0>>)
      BY <1>4, Zenon DEF Queued
    <2> HIDE DEF new, g0, zz
    <2>4. q \in Seq(Searches \X File) /\ <<r, g0>> \in Searches \X File
      BY <2>2 DEF QueueOf
    <2>5. ASSUME NEW i \in DOMAIN Append(q, <<r, g0>>)
          PROVE  \/ i \in DOMAIN q /\ Append(q, <<r, g0>>)[i] = q[i]
                 \/ Append(q, <<r, g0>>)[i] = <<r, g0>>
      BY <2>4
    <2>6. ASSUME NEW i \in DOMAIN Append(q, <<r, g0>>)
          PROVE  zz[Append(q, <<r, g0>>)[i][1]].load[Append(q, <<r, g0>>)[i][2]] = "queued"
      <3>1. CASE i \in DOMAIN q /\ Append(q, <<r, g0>>)[i] = q[i]
        BY <1>1, <3>1
      <3>2. CASE Append(q, <<r, g0>>)[i] = <<r, g0>>
        <4>1. <<r, g0>>[1] = r /\ <<r, g0>>[2] = g0
          OBVIOUS
        <4> QED BY <1>2, <2>2, <3>2, <4>1
      <3> QED BY <2>5, <3>1, <3>2
    <2> QED BY <1>3, <2>3, <2>4, <2>6 DEF QueueOf, zz
  <1>5. CASE new = {}
    BY <1>3, <1>5 DEF Queued
  <1> QED BY <1>3, <1>4, <1>5

LEMMA EmptyQueue ==
  ASSUME NEW ss
  PROVE  QueueOf(<<>>, ss)
  BY DEF QueueOf

-----------------------------------------------------------------------------
(* pxe_parse() and device_handler_process_url(). *)
LEMMA BeginGood ==
  ASSUME Names \in Nat \ {0}, NEW s, Good(s), s.kind = "none", NEW k \in {"auto", "conf", "url"},
         NEW t \in Begin(s, k)
  PROVE  Good(t)
  <1> DEFINE new == [s EXCEPT !.kind = k, !.conf = "held"]
  <1>1. /\ s \in SearchT /\ s.current = 1 /\ ~s.told
        /\ \A f \in File : s.load[f] = "none" /\ s.outcome[f] = "none"
    BY DEF Good
  <1>2. /\ new \in SearchT /\ new.kind = k /\ new.conf = "held" /\ new.current = 1
        /\ new.told = s.told /\ new.load = s.load /\ new.outcome = s.outcome
    BY <1>1, Zenon DEF SearchT
  <1>3. CASE k = "auto"
    <2>1. t \in LoadNextFilename(new)
      BY <1>3 DEF Begin
    <2> HIDE DEF new
    <2>2. Ready(new)
      BY <1>1, <1>2, <1>3 DEF Ready, File
    <2> QED BY <2>1, <2>2, LoadNext
  <1>4. CASE k # "auto"
    <2>1. 1 \in File /\ k \in {"conf", "url"}
      BY <1>4 DEF File
    <2>2. PICK way \in {"process", "queued", "nostart"} :
             t = IF way = "nostart"
                 THEN [LoadUrl(new, 1, way) EXCEPT !.conf = "freed", !.told = (k = "url")]
                 ELSE LoadUrl(new, 1, way)
      BY <1>4, Zenon DEF Begin, Ways
    <2> HIDE DEF new
    <2>3. CASE way = "nostart"
      <3> DEFINE o == [new.outcome EXCEPT ![1] = "failed"]
                 b == (k = "url")
      <3>1. t = [[new EXCEPT !.outcome = o] EXCEPT !.conf = "freed", !.told = b]
        BY <1>2, <2>1, <2>2, <2>3, LoadNotStarted, Zenon
      <3>2. /\ o \in [File -> {"none", "failed", "parsed"}] /\ b \in BOOLEAN
            /\ \A f \in File : f # 1 => o[f] = "none"
        <4>1. new.outcome \in [File -> {"none", "failed", "parsed"}]
          BY <1>2 DEF SearchT
        <4> QED BY <1>1, <1>2, <4>1, Zenon
      <3> HIDE DEF o, b
      <3>3. /\ t \in SearchT /\ t.kind = k /\ t.load = s.load /\ t.outcome = o
        BY <1>2, <3>1, <3>2, Zenon DEF SearchT
      <3> QED BY <1>1, <2>1, <3>2, <3>3 DEF Good
    <2>4. CASE way \in {"process", "queued"}
      <3>1. t = LoadUrl(new, 1, way)
        BY <2>2, <2>4
      <3>2. Started(t, new, 1, way)
        BY <1>2, <2>1, <2>4, <3>1, LoadStarted, Zenon
      <3>3. new.load \in [File -> {"none", "process", "queued"}]
        BY <1>2 DEF SearchT
      <3>4. /\ t \in SearchT /\ t.kind = k /\ t.conf = "held" /\ t.outcome = s.outcome
            /\ \A f \in File : f # 1 => t.load[f] = "none"
        BY <1>1, <1>2, <2>1, <3>2, <3>3 DEF Started
      <3> QED BY <1>1, <2>1, <3>4 DEF Good
    <2> QED BY <2>2, <2>3, <2>4
  <1> QED BY <1>3, <1>4

-----------------------------------------------------------------------------
(* One search changes, the others and the rest of the queue stay. *)
LEMMA OneSearch ==
  ASSUME NEW ss \in [Searches -> SearchT], \A x \in Searches : Good(ss[x]),
         NEW r \in Searches, NEW s, Good(s)
  PROVE  /\ [ss EXCEPT ![r] = s] \in [Searches -> SearchT]
         /\ \A x \in Searches : Good([ss EXCEPT ![r] = s][x])
  <1>1. s \in SearchT
    BY DEF Good
  <1>2. [ss EXCEPT ![r] = s] \in [Searches -> SearchT]
    BY <1>1
  <1>3. ASSUME NEW x \in Searches
        PROVE  Good([ss EXCEPT ![r] = s][x])
    <2>1. CASE x = r
      <3>1. [ss EXCEPT ![r] = s][x] = s
        BY <2>1
      <3> QED BY <3>1
    <2>2. CASE x # r
      <3>1. [ss EXCEPT ![r] = s][x] = ss[x]
        BY <2>2
      <3> QED BY <3>1
    <2> QED BY <2>1, <2>2
  <1> QED BY <1>2, <1>3

LEMMA StartPendingGood ==
  ASSUME NEW ss \in [Searches -> SearchT], \A x \in Searches : Good(ss[x]),
         NEW q, QueueOf(q, ss), NEW bad
  PROVE  /\ StartPending(ss, q, bad) \in [Searches -> SearchT]
         /\ \A x \in Searches : Good(StartPending(ss, q, bad)[x])
         /\ \A x \in Searches : StartPending(ss, q, bad)[x].kind = ss[x].kind
  <1> DEFINE zz == StartPending(ss, q, bad)
  <1>1. ASSUME NEW x \in Searches
        PROVE  zz \in [Searches -> SearchT] /\ Lighter(zz[x], ss[x])
    BY StartPendingLighter
  <1>2. zz \in [Searches -> SearchT]
    <2>1. CASE Searches = {}
      BY <2>1 DEF StartPending
    <2>2. CASE Searches # {}
      BY <1>1, <2>2
    <2> QED BY <2>1, <2>2
  <1> HIDE DEF zz
  <1>3. ASSUME NEW x \in Searches
        PROVE  Good(zz[x]) /\ zz[x].kind = ss[x].kind
    <2>1. Lighter(zz[x], ss[x]) /\ Good(ss[x])
      BY <1>1
    <2>2. Good(zz[x])
      BY <2>1, LighterGood
    <2> QED BY <2>1, <2>2 DEF Lighter
  <1> QED BY <1>2, <1>3 DEF zz

-----------------------------------------------------------------------------
LEMMA InitIInv ==
  ASSUME Names \in Nat \ {0}, PxeInit
  PROVE  IInv
  <1>1. ASSUME NEW n \in BOOLEAN
        PROVE  Good(NoSearch(n))
    <2>1. NoSearch(n) \in SearchT
      BY DEF NoSearch, SearchT, File
    <2> QED BY <2>1 DEF Good, NoSearch
  <1>2. ASSUME NEW r \in Searches
        PROVE  Good(srch[r])
    <2>1. PICK n \in BOOLEAN : srch[r] = NoSearch(n)
      BY DEF PxeInit
    <2> QED BY <1>1, <2>1
  <1>3. srch \in [Searches -> SearchT]
    <2>1. \A n \in BOOLEAN : NoSearch(n) \in SearchT
      BY <1>1 DEF Good
    <2> QED BY <2>1 DEF PxeInit
  <1>4. QueueOf(queue, srch)
    BY EmptyQueue DEF PxeInit
  <1> QED BY <1>2, <1>3, <1>4 DEF IInv

(* A search that has not begun has no job in the queue. *)
LEMMA NotBegun ==
  ASSUME NEW s, Good(s), s.kind = "none"
  PROVE  \A g \in File : s.load[g] # "queued"
  BY SMTT(30) DEF Good

LEMMA LeaseKeeps ==
  ASSUME Names \in Nat \ {0}, IInv, NEW r \in Searches, NEW k \in {"auto", "conf"}, Lease(r, k)
  PROVE  IInv'
  <1>0. PICK bad \in SUBSET {queue[i] : i \in DOMAIN queue} :
           \E s \in Begin(StartPending(srch, queue, bad)[r], k) :
             /\ srch' = [StartPending(srch, queue, bad) EXCEPT ![r] = s]
             /\ queue' = Queued(<<>>, r, s)
    BY Zenon DEF Lease
  <1>1. PICK s \in Begin(StartPending(srch, queue, bad)[r], k) :
           /\ srch' = [StartPending(srch, queue, bad) EXCEPT ![r] = s]
           /\ queue' = Queued(<<>>, r, s)
    BY <1>0, Zenon
  <1> DEFINE ss == StartPending(srch, queue, bad)
  <1>2. /\ ss \in [Searches -> SearchT] /\ \A x \in Searches : Good(ss[x])
        /\ ss[r].kind = "none"
    BY StartPendingGood DEF IInv, Lease
  <1> HIDE DEF ss
  <1>3. s \in Begin(ss[r], k) /\ srch' = [ss EXCEPT ![r] = s]
    BY <1>1 DEF ss
  <1>4. Good(s)
    BY <1>2, <1>3, BeginGood
  <1>5. QueueOf(queue', srch')
    <2>1. \A g \in File : ss[r].load[g] = "queued" => s.load[g] = "queued"
      BY <1>2, NotBegun
    <2>2. s \in SearchT
      BY <1>4 DEF Good
    <2>3. QueueOf(Queued(<<>>, r, s), [ss EXCEPT ![r] = s])
      BY <1>2, <2>1, <2>2, EmptyQueue, QueueKept, Zenon
    <2> QED BY <1>1, <1>3, <2>3, Zenon
  <1>6. srch' \in [Searches -> SearchT] /\ \A x \in Searches : Good(srch'[x])
    BY <1>2, <1>3, <1>4, OneSearch
  <1> QED BY <1>5, <1>6, SMTT(30) DEF IInv, QueueOf, Good, SearchT, InOrder, File

(* A search begins while the queue waits. *)
LEMMA Begun ==
  ASSUME Names \in Nat \ {0}, IInv, NEW r \in Searches, srch[r].kind = "none",
         NEW k \in {"auto", "conf", "url"}, NEW s \in Begin(srch[r], k)
  PROVE  /\ [srch EXCEPT ![r] = s] \in [Searches -> SearchT]
         /\ \A x \in Searches : Good([srch EXCEPT ![r] = s][x])
         /\ QueueOf(Queued(queue, r, s), [srch EXCEPT ![r] = s])
  <1>1. /\ srch \in [Searches -> SearchT] /\ \A x \in Searches : Good(srch[x])
        /\ QueueOf(queue, srch) /\ Good(srch[r])
    BY DEF IInv
  <1>2. Good(s)
    BY <1>1, BeginGood
  <1>3. s \in SearchT
    BY <1>2 DEF Good
  <1>4. \A g \in File : srch[r].load[g] = "queued" => s.load[g] = "queued"
    BY <1>1, NotBegun
  <1>5. QueueOf(Queued(queue, r, s), [srch EXCEPT ![r] = s])
    BY <1>1, <1>3, <1>4, QueueKept, Zenon
  <1> QED BY <1>1, <1>2, <1>5, OneSearch

LEMMA StaticConfigKeeps ==
  ASSUME Names \in Nat \ {0}, IInv, NEW r \in Searches, NEW k \in {"auto", "url"},
         StaticConfig(r, k)
  PROVE  IInv'
  <1>0. PICK s \in Begin(srch[r], k) :
           \E bad \in SUBSET {Queued(queue, r, s)[i] : i \in DOMAIN Queued(queue, r, s)} :
             /\ srch' = StartPending([srch EXCEPT ![r] = s], Queued(queue, r, s), bad)
             /\ queue' = <<>>
    BY Zenon DEF StaticConfig
  <1>1. PICK bad :
           /\ srch' = StartPending([srch EXCEPT ![r] = s], Queued(queue, r, s), bad)
           /\ queue' = <<>>
    BY <1>0
  <1>2. srch[r].kind = "none"
    BY DEF StaticConfig
  <1>3. /\ [srch EXCEPT ![r] = s] \in [Searches -> SearchT]
        /\ \A x \in Searches : Good([srch EXCEPT ![r] = s][x])
        /\ QueueOf(Queued(queue, r, s), [srch EXCEPT ![r] = s])
    BY <1>2, Begun
  <1>4. srch' \in [Searches -> SearchT] /\ \A x \in Searches : Good(srch'[x])
    BY <1>1, <1>3, StartPendingGood, Zenon
  <1>5. QueueOf(queue', srch')
    BY <1>1, EmptyQueue
  <1> QED BY <1>4, <1>5, Zenon DEF IInv, QueueOf, Good, SearchT, InOrder, File

LEMMA ProcessUrlKeeps ==
  ASSUME Names \in Nat \ {0}, IInv, NEW r \in Searches, NEW k \in {"auto", "url"},
         ProcessUrl(r, k)
  PROVE  IInv'
  <1>1. PICK s \in Begin(srch[r], k) :
           srch' = [srch EXCEPT ![r] = s] /\ queue' = Queued(queue, r, s)
    BY Zenon DEF ProcessUrl
  <1>2. srch[r].kind = "none"
    BY DEF ProcessUrl
  <1>3. /\ srch' \in [Searches -> SearchT] /\ \A x \in Searches : Good(srch'[x])
        /\ QueueOf(queue', srch')
    BY <1>1, <1>2, Begun, Zenon
  <1> QED BY <1>3, Zenon DEF IInv, QueueOf, Good, SearchT, InOrder, File

(* Search r becomes s, none of its queued loads is lost. *)
LEMMA Became ==
  ASSUME IInv, NEW r \in Searches, NEW s, Good(s), srch' = [srch EXCEPT ![r] = s],
         \A g \in File : srch[r].load[g] = "queued" => s.load[g] = "queued",
         queue' = queue \/ queue' = Queued(queue, r, s)
  PROVE  IInv'
  <1>1. /\ srch \in [Searches -> SearchT] /\ \A x \in Searches : Good(srch[x])
        /\ QueueOf(queue, srch)
    BY DEF IInv
  <1>2. s \in SearchT
    BY DEF Good
  <1>3. QueueOf(queue', srch')
    <2>1. /\ QueueOf(queue, [srch EXCEPT ![r] = s])
          /\ QueueOf(Queued(queue, r, s), [srch EXCEPT ![r] = s])
      BY <1>1, <1>2, QueueKept, Zenon
    <2> QED BY <2>1
  <1>4. srch' \in [Searches -> SearchT] /\ \A x \in Searches : Good(srch'[x])
    BY <1>1, OneSearch
  <1> QED BY <1>3, <1>4, SMTT(30) DEF IInv, QueueOf, Good, SearchT, InOrder, File

LEMMA LocalDirectoryKeeps ==
  ASSUME Names \in Nat \ {0}, IInv, NEW r \in Searches, LocalDirectory(r)
  PROVE  IInv'
  <1> DEFINE s == [srch[r] EXCEPT !.kind = "auto", !.conf = "freed"]
  <1>1. Good(srch[r]) /\ srch[r] \in SearchT /\ srch[r].kind = "none"
    BY DEF IInv, LocalDirectory
  <1>2. /\ srch' = [srch EXCEPT ![r] = s] /\ queue' = queue
    BY Zenon DEF LocalDirectory, IInv
  <1>3. /\ s \in SearchT /\ s.kind = "auto" /\ s.current = srch[r].current
        /\ s.told = srch[r].told /\ s.load = srch[r].load /\ s.outcome = srch[r].outcome
    BY <1>1, Zenon DEF SearchT
  <1> HIDE DEF s
  <1>4. Good(s)
    BY <1>1, <1>3 DEF Good, InOrder, File
  <1> QED BY <1>2, <1>3, <1>4, Became, Zenon

(* The load of f ends; t is the search with its outcome. *)
Ended(t, s, f) ==
    /\ t \in SearchT /\ t.kind = s.kind /\ t.current = s.current
    /\ t.load = [s.load EXCEPT ![f] = "none"]
    /\ \A g \in File : g # f => t.outcome[g] = s.outcome[g]

(* A load that ends was the only one of its search. *)
LEMMA OnlyLoad ==
  ASSUME Names \in Nat \ {0}, NEW s, Good(s), NEW f \in File, s.load[f] # "none"
  PROVE  /\ \A g \in File : g # f => s.load[g] = "none"
         /\ s.kind \in {"conf", "url"} => f = 1
         /\ s.kind # "none"
         /\ s.kind = "auto" => f = s.current /\ ~s.told
         /\ s.conf = "held"
  <1>1. f \in Nat /\ s.current \in Nat /\ f # Names + 1
    BY DEF Good, SearchT, File
  <1>2. s.kind # "none" /\ s.conf = "held" /\ s.kind \in {"auto", "conf", "url"}
    BY DEF Good, SearchT
  <1>3. CASE s.kind = "auto"
    <2>1. f = s.current
      BY <1>1, <1>3 DEF Good, InOrder
    <2>2. \A g \in File : g # f => s.load[g] = "none"
      BY <1>1, <1>3, <2>1 DEF Good, InOrder, File
    <2>3. ~s.told
      BY <1>1, <1>3, <2>1 DEF Good, InOrder
    <2> QED BY <1>2, <1>3, <2>1, <2>2, <2>3
  <1>4. CASE s.kind \in {"conf", "url"}
    BY <1>2, <1>4 DEF Good
  <1> QED BY <1>2, <1>3, <1>4

LEMMA EndedGood ==
  ASSUME Names \in Nat \ {0}, NEW s, Good(s), NEW f \in File, s.load[f] # "none",
         NEW t, Ended(t, s, f), s.kind = "auto" => t.told = s.told
  PROVE  /\ Good(t)
         /\ \A g \in File : t.load[g] = "none"
  <1>1. s.load \in [File -> {"none", "process", "queued"}]
    BY DEF Good, SearchT
  <1>2. \A g \in File : t.load[g] = "none"
    BY <1>1, OnlyLoad DEF Ended
  <1>3. CASE s.kind = "auto"
    <2>1. f = s.current /\ ~s.told
      BY <1>3, OnlyLoad
    <2>2. t.kind = "auto" /\ t.current = s.current /\ ~t.told /\ f \in Nat /\ t \in SearchT
      BY <1>3, <2>1 DEF Ended, File
    <2>3. \A g \in File : (g < s.current \/ g > s.current) => g # f
      BY <2>1, <2>2 DEF File
    <2>4. \A g \in File : g # f => t.outcome[g] = s.outcome[g]
      BY DEF Ended
    <2>5. \A g \in File : /\ g < s.current => s.outcome[g] = "failed"
                          /\ g > s.current => s.outcome[g] = "none"
      BY <1>3 DEF Good, InOrder
    <2>6. InOrder(t)
      BY <1>2, <2>2, <2>3, <2>4, <2>5, Zenon DEF InOrder
    <2> QED BY <1>2, <2>2, <2>6 DEF Good
  <1>4. CASE s.kind \in {"conf", "url"}
    <2>1. f = 1
      BY <1>4, OnlyLoad
    <2>2. \A g \in File : g # 1 => t.outcome[g] = "none"
      BY <1>4, <2>1 DEF Ended, Good
    <2>3. t \in SearchT /\ t.kind \in {"conf", "url"}
      BY <1>4 DEF Ended
    <2> QED BY <1>2, <2>2, <2>3 DEF Good
  <1>5. s.kind \in {"auto", "conf", "url"}
    BY OnlyLoad DEF Good, SearchT
  <1> QED BY <1>3, <1>4, <1>5

(* Search r has no queued load while its load of f is a process. *)
LEMMA NoneQueued ==
  ASSUME Names \in Nat \ {0}, NEW s, Good(s), NEW f \in File, s.load[f] = "process"
  PROVE  \A g \in File : s.load[g] # "queued"
  <1>1. \A g \in File : g # f => s.load[g] = "none"
    BY OnlyLoad
  <1> QED BY <1>1

(* The search after its load of f has ended, and its fields. *)
End(s, f, o, c, b, m) ==
    [s EXCEPT !.load = [s.load EXCEPT ![f] = "none"], !.outcome = [s.outcome EXCEPT ![f] = o],
              !.conf = c, !.told = b, !.tmp = m]

EndedAs(t, s, f, o, c, b) == Ended(t, s, f) /\ t.told = b /\ t.conf = c /\ t.outcome[f] = o

LEMMA EndedFields ==
  ASSUME NEW s \in SearchT, NEW f \in File, NEW o \in {"failed", "parsed"},
         NEW c \in {"held", "freed"}, NEW b \in BOOLEAN, NEW m \in SUBSET File
  PROVE  EndedAs(End(s, f, o, c, b, m), s, f, o, c, b)
  <1> DEFINE t == End(s, f, o, c, b, m)
             l == [s.load EXCEPT ![f] = "none"]
             u == [s.outcome EXCEPT ![f] = o]
  <1>1. l \in [File -> {"none", "process", "queued"}]
    BY DEF SearchT
  <1>2. /\ u \in [File -> {"none", "failed", "parsed"}] /\ u[f] = o
        /\ \A g \in File : g # f => u[g] = s.outcome[g]
    BY DEF SearchT
  <1>3. t = [s EXCEPT !.load = l, !.outcome = u, !.conf = c, !.told = b, !.tmp = m]
    BY DEF End
  <1>4. l = [s.load EXCEPT ![f] = "none"]
    OBVIOUS
  <1> HIDE DEF l, u, t
  <1>5. /\ t \in SearchT /\ t.kind = s.kind /\ t.current = s.current /\ t.load = l
        /\ t.outcome = u /\ t.conf = c /\ t.told = b
    BY <1>1, <1>2, <1>3, Zenon DEF SearchT
  <1>6. EndedAs(t, s, f, o, c, b)
    BY <1>2, <1>4, <1>5 DEF Ended, EndedAs
  <1> QED BY <1>6 DEF t

LEMMA ParsedKeeps ==
  ASSUME Names \in Nat \ {0}, IInv, NEW r \in Searches, NEW f \in File, Parsed(r, f)
  PROVE  IInv'
  <1> DEFINE p == srch[r]
             m == p.tmp \ {f}
             s == End(p, f, "parsed", "freed", p.told, m)
  <1>1. Good(p) /\ p \in SearchT /\ p.load[f] = "process" /\ queue' = queue
    BY DEF IInv, Parsed
  <1>2. srch' = [srch EXCEPT ![r] = s]
    <2>1. srch \in [Searches -> SearchT]
      BY DEF IInv
    <2>2. s = [p EXCEPT !.load[f] = "none", !.outcome[f] = "parsed", !.conf = "freed",
                        !.tmp = m]
      BY <1>1, Zenon DEF SearchT, End
    <2>3. srch' = [srch EXCEPT ![r] = [p EXCEPT !.load[f] = "none", !.outcome[f] = "parsed",
                                                !.conf = "freed", !.tmp = m]]
      BY <2>1, Zenon DEF Parsed
    <2> QED BY <2>2, <2>3, Zenon
  <1>3. m \in SUBSET File /\ p.told \in BOOLEAN
    BY <1>1 DEF SearchT
  <1> HIDE DEF m
  <1>4. EndedAs(s, p, f, "parsed", "freed", p.told)
    <2>1. "parsed" \in {"failed", "parsed"} /\ "freed" \in {"held", "freed"}
      OBVIOUS
    <2> QED BY <1>1, <1>3, <2>1, EndedFields, Zenon
  <1> HIDE DEF s, p
  <1>5. Good(s)
    BY <1>1, <1>4, EndedGood DEF EndedAs
  <1>6. \A g \in File : p.load[g] # "queued"
    BY <1>1, NoneQueued
  <1> QED BY <1>1, <1>2, <1>5, <1>6, Became, Zenon DEF p

LEMMA UrlLoadedKeeps ==
  ASSUME Names \in Nat \ {0}, IInv, NEW r \in Searches, NEW unread \in BOOLEAN,
         UrlLoaded(r, unread)
  PROVE  IInv'
  <1> DEFINE p == srch[r]
             o == IF unread THEN "failed" ELSE "parsed"
             s == End(p, 1, o, "freed", unread, p.tmp)
  <1>1. /\ Good(p) /\ p \in SearchT /\ p.load[1] = "process" /\ p.kind = "url"
        /\ queue' = queue /\ 1 \in File
    BY DEF IInv, UrlLoaded, File
  <1>2. o \in {"failed", "parsed"} /\ p.tmp \in SUBSET File
    BY <1>1 DEF SearchT
  <1>3. srch' = [srch EXCEPT ![r] = s]
    <2>1. srch \in [Searches -> SearchT]
      BY DEF IInv
    <2>2. s = [p EXCEPT !.load[1] = "none", !.conf = "freed", !.told = unread, !.outcome[1] = o]
      BY <1>1, Zenon DEF SearchT, End
    <2>3. srch' = [srch EXCEPT ![r] = [p EXCEPT !.load[1] = "none", !.conf = "freed",
                                                !.told = unread, !.outcome[1] = o]]
      BY DEF UrlLoaded
    <2> QED BY <2>2, <2>3, Zenon
  <1> HIDE DEF o
  <1>4. EndedAs(s, p, 1, o, "freed", unread)
    <2>1. "freed" \in {"held", "freed"}
      OBVIOUS
    <2> QED BY <1>1, <1>2, <2>1, EndedFields, Zenon
  <1> HIDE DEF s, p
  <1>5. Good(s)
    BY <1>1, <1>4, EndedGood DEF EndedAs
  <1>6. \A g \in File : p.load[g] # "queued"
    BY <1>1, NoneQueued
  <1> QED BY <1>1, <1>3, <1>5, <1>6, Became, Zenon DEF p

LEMMA UrlFailedKeeps ==
  ASSUME Names \in Nat \ {0}, IInv, NEW r \in Searches, UrlFailed(r)
  PROVE  IInv'
  <1> DEFINE p == srch[r]
             s == End(p, 1, "failed", p.conf, p.told, {})
  <1>1. /\ Good(p) /\ p \in SearchT /\ p.load[1] = "process" /\ p.kind = "url"
        /\ queue' = queue /\ 1 \in File
    BY DEF IInv, UrlFailed, File
  <1>2. p.conf \in {"held", "freed"} /\ p.told \in BOOLEAN /\ {} \in SUBSET File
    <2>1. p.conf = "held"
      BY <1>1, OnlyLoad
    <2> QED BY <1>1, <2>1 DEF SearchT
  <1>3. srch' = [srch EXCEPT ![r] = s]
    <2>1. srch \in [Searches -> SearchT]
      BY DEF IInv
    <2>2. s = [p EXCEPT !.load[1] = "none", !.outcome[1] = "failed", !.tmp = {}]
      BY <1>1, Zenon DEF SearchT, End
    <2>3. srch' = [srch EXCEPT ![r] = [p EXCEPT !.load[1] = "none", !.outcome[1] = "failed",
                                                !.tmp = {}]]
      BY <2>1, Zenon DEF UrlFailed
    <2> QED BY <2>2, <2>3, Zenon
  <1>4. EndedAs(s, p, 1, "failed", p.conf, p.told)
    <2>1. "failed" \in {"failed", "parsed"}
      OBVIOUS
    <2> QED BY <1>1, <1>2, <2>1, EndedFields, Zenon
  <1> HIDE DEF s, p
  <1>5. Good(s)
    BY <1>1, <1>4, EndedGood DEF EndedAs
  <1>6. \A g \in File : p.load[g] # "queued"
    BY <1>1, NoneQueued
  <1> QED BY <1>1, <1>3, <1>5, <1>6, Became, Zenon DEF p

(* pxe_conf_parse_cb() goes on to the next name. *)
LEMMA NextFilenameGood ==
  ASSUME Names \in Nat \ {0}, NEW s, Good(s), s.kind = "auto", s.conf = "held", ~s.told,
         \A g \in File : s.load[g] = "none",
         s.current \in File, s.outcome[s.current] = "failed", NEW t \in NextFilename(s)
  PROVE  Good(t)
  <1> DEFINE n == s.current + 1
             u == [s EXCEPT !.current = n]
  <1>1. s \in SearchT /\ s.current \in Nat /\ n \in 1 .. Names + 1 /\ n \in Nat
    BY DEF Good, File
  <1>2. PICK v \in LoadNextFilename(u) :
           t = IF v.current > Names THEN [v EXCEPT !.told = TRUE, !.conf = "freed"] ELSE v
    BY Zenon DEF NextFilename
  <1>3. \A f \in File : /\ f < n => f < s.current \/ f = s.current
                        /\ f >= n => f > s.current
    BY <1>1 DEF File
  <1>4. \A f \in File : /\ f < s.current => s.outcome[f] = "failed"
                        /\ f > s.current => s.outcome[f] = "none"
    BY DEF Good, InOrder
  <1> HIDE DEF n
  <1>5. /\ u \in SearchT /\ u.current = n /\ u.kind = s.kind /\ u.load = s.load
        /\ u.outcome = s.outcome /\ u.conf = s.conf /\ u.told = s.told
    BY <1>1, CurrentFields
  <1> HIDE DEF u
  <1>6. Ready(u)
    BY <1>3, <1>4, <1>5 DEF Ready
  <1>7. Good(v) /\ ~v.told /\ v.kind = "auto"
    BY <1>6, LoadNext
  <1>8. CASE v.current > Names
    <2>1. v \in SearchT /\ v.current = Names + 1 /\ InOrder(v)
      BY <1>7, <1>8 DEF Good, SearchT
    <2>2. t = [v EXCEPT !.told = TRUE, !.conf = "freed"]
      BY <1>2, <1>8
    <2>3. /\ t \in SearchT /\ t.kind = "auto" /\ t.current = Names + 1
          /\ t.load = v.load /\ t.outcome = v.outcome
      BY <1>7, <2>1, <2>2, Zenon DEF SearchT
    <2>4. \A f \in File : f < Names + 1 /\ ~(f > Names + 1)
      BY DEF File
    <2>5. \A f \in File : v.load[f] = "none" /\ v.outcome[f] = "failed"
      BY <2>1, <2>4 DEF InOrder
    <2>6. InOrder(t)
      BY <2>3, <2>5, <2>4 DEF InOrder
    <2> QED BY <2>3, <2>5, <2>6 DEF Good
  <1>9. CASE ~(v.current > Names)
    BY <1>2, <1>7, <1>9
  <1> QED BY <1>8, <1>9

LEMMA PxeFailedKeeps ==
  ASSUME Names \in Nat \ {0}, IInv, NEW r \in Searches, NEW f \in File, NEW unread \in BOOLEAN,
         PxeFailed(r, f, unread)
  PROVE  IInv'
  <1> DEFINE p == srch[r]
             m == IF unread THEN p.tmp ELSE p.tmp \ {f}
             s == End(p, f, "failed", p.conf, p.told, m)
             z == [p EXCEPT !.load[f] = "none", !.outcome[f] = "failed",
                            !.tmp = IF unread THEN @ ELSE @ \ {f}]
  <1>1. /\ Good(p) /\ p \in SearchT /\ p.load[f] = "process"
    BY DEF IInv, PxeFailed
  <1>2. PICK t \in IF z.kind = "auto" THEN NextFilename(z) ELSE {[z EXCEPT !.told = TRUE]} :
           srch' = [srch EXCEPT ![r] = t] /\ queue' = Queued(queue, r, t)
    BY Zenon DEF PxeFailed
  <1>3. z = s
    BY <1>1, Zenon DEF SearchT, End
  <1>4. m \in SUBSET File /\ p.told \in BOOLEAN /\ p.conf = "held"
    <2>1. p.conf = "held"
      BY <1>1, OnlyLoad
    <2> QED BY <1>1, <2>1 DEF SearchT
  <1> HIDE DEF m, z
  <1>5. Ended(s, p, f) /\ s.told = p.told /\ s.conf = "held" /\ s.outcome[f] = "failed"
    <2>1. "failed" \in {"failed", "parsed"} /\ p.conf \in {"held", "freed"}
      BY <1>4
    <2>2. EndedAs(s, p, f, "failed", p.conf, p.told)
      BY <1>1, <1>4, <2>1, EndedFields, Zenon
    <2> HIDE DEF s
    <2> QED BY <1>4, <2>2 DEF EndedAs
  <1> HIDE DEF s
  <1>6. Good(s) /\ \A g \in File : s.load[g] = "none"
    BY <1>1, <1>5, EndedGood
  <1>7. Good(t)
    <2>1. CASE s.kind = "auto"
      <3>1. t \in NextFilename(s)
        BY <1>2, <1>3, <2>1
      <3>2. p.kind = "auto" /\ s.current = p.current
        BY <1>5, <2>1 DEF Ended
      <3>3. f = p.current /\ ~p.told
        BY <1>1, <3>2, OnlyLoad
      <3> QED BY <1>5, <1>6, <2>1, <3>1, <3>2, <3>3, NextFilenameGood
    <2>2. CASE s.kind # "auto"
      <3>1. t = [s EXCEPT !.told = TRUE]
        BY <1>2, <1>3, <2>2
      <3>2. s \in SearchT /\ s.kind # "none"
        <4>1. p.kind # "none"
          BY <1>1, OnlyLoad
        <4> QED BY <1>5, <4>1 DEF Ended
      <3>3. /\ t \in SearchT /\ t.kind = s.kind /\ t.current = s.current
            /\ t.load = s.load /\ t.outcome = s.outcome /\ t.conf = s.conf
        BY <3>1, <3>2, Zenon DEF SearchT
      <3> QED BY <1>6, <2>2, <3>2, <3>3 DEF Good
    <2> QED BY <2>1, <2>2
  <1>8. \A g \in File : p.load[g] # "queued"
    BY <1>1, NoneQueued
  <1> QED BY <1>2, <1>7, <1>8, Became, Zenon DEF p

LEMMA ReinitKeeps ==
  ASSUME Names \in Nat \ {0}, IInv, PxeReinit
  PROVE  IInv'
  <1> DEFINE none == [f \in File |-> "none"]
             t(r) == [srch[r] EXCEPT !.load = none]
  <1>1. none \in [File -> {"none", "process", "queued"}] /\ \A f \in File : none[f] = "none"
    OBVIOUS
  <1>2. srch' = [r \in Searches |-> t(r)] /\ queue' = <<>>
    BY DEF PxeReinit
  <1> HIDE DEF none
  <1>3. ASSUME NEW r \in Searches
        PROVE  t(r) \in SearchT /\ Good(t(r))
    <2>1. srch[r] \in SearchT /\ Good(srch[r])
      BY DEF IInv
    <2>2. Lighter(t(r), srch[r])
      BY <1>1, <2>1 DEF SearchT, Lighter
    <2>3. Good(t(r))
      BY <2>1, <2>2, LighterGood
    <2> QED BY <2>2, <2>3 DEF Lighter
  <1> HIDE DEF t
  <1>4. srch' \in [Searches -> SearchT] /\ \A x \in Searches : Good(srch'[x])
    BY <1>2, <1>3
  <1>5. QueueOf(queue', srch')
    BY <1>2, EmptyQueue
  <1> QED BY <1>4, <1>5, Zenon DEF IInv, QueueOf, Good, SearchT, InOrder, File

LEMMA StepKeeps ==
  ASSUME Names \in Nat \ {0}, IInv, [PxeNext]_pxevars
  PROVE  IInv'
  <1>1. CASE srch' = srch /\ queue' = queue
    BY <1>1, Zenon DEF IInv, QueueOf
  <1>2. CASE Resolver
    BY <1>1, <1>2 DEF Resolver
  <1>3. CASE UNCHANGED pxevars
    BY <1>1, <1>3 DEF pxevars
  <1> QED
    BY <1>2, <1>3, LeaseKeeps, StaticConfigKeeps, ProcessUrlKeeps, LocalDirectoryKeeps,
       ParsedKeeps, PxeFailedKeeps, UrlLoadedKeeps, UrlFailedKeeps, ReinitKeeps DEF PxeNext

LEMMA Invariant ==
  ASSUME Names \in Nat \ {0}
  PROVE  PxeSpec => []IInv
  <1>1. PxeInit => IInv
    BY InitIInv
  <1>2. IInv /\ [PxeNext]_pxevars => IInv'
    BY StepKeeps
  <1> QED BY <1>1, <1>2, PTL DEF PxeSpec

-----------------------------------------------------------------------------
(* Whatever the leases, the URLs, the state of the resolver and the        *)
(* reinitialisations, a name is tried only after all before it failed, and *)
(* the user hears of a failure only when every name failed (pxe-parser.c). *)
THEOREM NamesInOrder ==
  ASSUME Names \in Nat \ {0}
  PROVE  PxeSpec => []FilesInOrder
  <1>1. IInv => FilesInOrder
    <2> SUFFICES ASSUME IInv, NEW r \in Searches
                 PROVE  /\ \A f \in File : srch[r].load[f] # "none" \/ srch[r].outcome[f] # "none"
                               => \A g \in 1 .. f - 1 : srch[r].outcome[g] = "failed"
                        /\ srch[r].told /\ srch[r].kind = "auto" =>
                               \A f \in File : srch[r].outcome[f] = "failed"
      BY DEF FilesInOrder
    <2> DEFINE s == srch[r]
    <2>1. Good(s) /\ s.current \in Nat /\ s.kind \in {"none", "auto", "conf", "url"}
      BY DEF IInv, Good, SearchT
    <2> HIDE DEF s
    <2>2. CASE s.kind = "auto"
      BY <2>1, <2>2 DEF Good, InOrder, File, s
    <2>3. CASE s.kind # "auto"
      BY <2>1, <2>3 DEF Good, File, s
    <2> QED BY <2>2, <2>3
  <1> QED BY <1>1, Invariant, PTL

(* The context a load will call back with is not freed while the load is   *)
(* there (pxe_conf_parse_cb, process_url_cb).                              *)
THEOREM ContextAlwaysHeld ==
  ASSUME Names \in Nat \ {0}
  PROVE  PxeSpec => []ContextHeld
  <1>1. IInv => ContextHeld
    BY DEF IInv, Good, ContextHeld
  <1> QED BY <1>1, Invariant, PTL

(* A callback of a search finds its context, and goes on in order: both of *)
(* the above (pxe-parser.c, paths.c).                                      *)
THEOREM SearchesAlwaysSound ==
  ASSUME Names \in Nat \ {0}
  PROVE  PxeSpec => []SearchesSound
  <1>1. FilesInOrder /\ ContextHeld => SearchesSound
    BY DEF SearchesSound
  <1> QED BY <1>1, NamesInOrder, ContextAlwaysHeld, PTL

-----------------------------------------------------------------------------
(* A set of positive numbers that is not empty has a least element.         *)
LEMMA LeastIndex ==
    ASSUME NEW S \in SUBSET Nat, S # {}
    PROVE  \E i \in S : \A j \in S : i =< j
<1>1. PICK i \in S : \A j \in S : ~(<<j, i>> \in OpToRel(<, Nat))
  BY NatLessThanWellFounded, WFMin, Zenon
<1>2. \A j \in S : ~(j < i)
  BY <1>1, Zenon DEF OpToRel
<1> QED BY <1>2

(* autoboot_option_priority(): the priority of a device in the boot order   *)
(* is that of the first entry it matches, and LOCAL_FIRST or lower; a       *)
(* device that matches no entry is disabled.                                *)
THEOREM LocalPriorityFirstMatch ==
    ASSUME NEW order, Len(order) \in Nat, NEW dev
    PROVE  \/ /\ LocalPriority(order, dev) = DISABLED
              /\ \A j \in 1 .. Len(order) : ~OptionMatches(order[j], dev)
           \/ \E i \in 1 .. Len(order) :
                 /\ LocalPriority(order, dev) = LOCAL_FIRST + i - 1
                 /\ OptionMatches(order[i], dev)
                 /\ \A j \in 1 .. i - 1 : ~OptionMatches(order[j], dev)
<1> DEFINE hits == {i \in 1 .. Len(order) : OptionMatches(order[i], dev)}
           first == CHOOSE i \in hits : \A j \in hits : i =< j
<1>1. CASE hits = {}
  BY <1>1 DEF LocalPriority
<1>2. CASE hits # {}
  <2>1. \E i \in hits : \A j \in hits : i =< j
    <3>1. hits \in SUBSET Nat
      OBVIOUS
    <3> HIDE DEF hits
    <3> QED BY <1>2, <3>1, LeastIndex
  <2>2. first \in hits /\ \A j \in hits : first =< j
    BY <2>1
  <2>3. LocalPriority(order, dev) = LOCAL_FIRST + first - 1
    <3>1. LocalPriority(order, dev) = LOCAL_FIRST + first - 1
      BY <1>2, Zenon DEF LocalPriority
    <3> QED BY <3>1
  <2>4. \A j \in 1 .. first - 1 : ~OptionMatches(order[j], dev)
    <3> SUFFICES ASSUME NEW j \in 1 .. first - 1, OptionMatches(order[j], dev)
                 PROVE  FALSE
      OBVIOUS
    <3> HIDE DEF first
    <3>1. first \in 1 .. Len(order)
      BY <2>2
    <3>2. j \in hits
      BY <3>1
    <3>3. first =< j
      BY <3>2, <2>2
    <3> QED BY <3>1, <3>3
  <2> HIDE DEF first
  <2> QED BY <2>2, <2>3, <2>4
<1> QED BY <1>1, <1>2

(* default_option_priority() is an unsigned number. *)
LEMMA PriorityNat ==
    ASSUME NEW temp, NEW c \in Configs, NEW dev
    PROVE  Priority(temp, c, dev) \in Nat
<1>1. Len(c.autoboot_opts) \in Nat
  BY BoundAssumption
<1>2. LocalPriority(c.autoboot_opts, dev) \in Nat
  BY <1>1, LocalPriorityFirstMatch DEF DISABLED, LOCAL_FIRST
<1> QED BY <1>2 DEF Priority, TEMP_USER, REMOTE, LOCAL_FIRST, DISABLED

-----------------------------------------------------------------------------
(* Types.  The operators the actions share are dealt with first.            *)
BootTyped ==
    /\ phase \in {"running", "rebooting", "down", "crashed"}
    /\ default_boot_option \in Options \cup {None}
    /\ pending_boot \in Tasks \cup {None}
    /\ pending_boot_is_default \in BOOLEAN
    /\ live \subseteq Tasks
    /\ origin \in [Tasks -> {"default", "user"}]

LEMMA BootTypes ==
    ASSUME TypeOK, NEW def \in Options \cup {None}, NEW tasks \in SUBSET Tasks,
           NEW kind \in {"default", "user"}, Boot(def, tasks, kind)
    PROVE  BootTyped'
BY DEF Boot, TypeOK, BootTyped

LEMMA DefaultTimeoutTypes ==
    ASSUME TypeOK, NEW def \in Options \cup {None}, NEW sec \in Nat,
           NEW armed \in [Timers -> {"off", "armed", "due"}],
           DefaultTimeout(def, sec, armed)
    PROVE  /\ BootTyped'
           /\ sec_to_boot' \in Nat
           /\ last_boot_option' \in Options \cup {None}
           /\ timeout_waiter' \in Timers \cup {None}
           /\ timers' \in [Timers -> {"off", "armed", "due"}]
<1>1. CASE def = None \/ pending_boot # None
  BY <1>1 DEF DefaultTimeout, TypeOK, BootTyped, bootvars
<1>2. CASE ~(def = None \/ pending_boot # None) /\ sec > 0
  BY <1>2 DEF DefaultTimeout, TypeOK, BootTyped, bootvars
<1>3. CASE ~(def = None \/ pending_boot # None) /\ ~(sec > 0)
  <2>1. Boot(def, live, "default")
    BY <1>3 DEF DefaultTimeout
  <2>2. BootTyped'
    BY <2>1, BootTypes DEF TypeOK
  <2> QED BY <1>3, <2>2 DEF DefaultTimeout, TypeOK
<1> QED BY <1>1, <1>2, <1>3

LEMMA CancelDefaultTypes ==
    ASSUME TypeOK, NEW enabled \in BOOLEAN, NEW all \in BOOLEAN,
           CancelDefault(enabled, all)
    PROVE  /\ BootTyped'
           /\ autoboot_enabled' \in BOOLEAN
           /\ timeout_waiter' \in Timers \cup {None}
           /\ timers' \in [Timers -> {"off", "armed", "due"}]
BY Zenon DEF CancelDefault, TypeOK, BootTyped, bootvars

LEMMA FinaliseTypes ==
    ASSUME TypeOK, NEW o \in Options, Finalise(o)
    PROVE  TypeOK'
<1> DEFINE prio == Priority(temp_autoboot, config, Info(o))
<1>1. prio \in Nat
  BY PriorityNat, SMTT(30) DEF TypeOK
<1> HIDE DEF prio
<1>2. CASE SetDefaultIgnored(o) \/ SetDefaultFault(o)
  BY <1>2, SMTT(30) DEF Finalise, SetDefaultIgnored, SetDefaultFault, TypeOK, bootvars,
     timevars, choosevars, switches
<1>3. CASE SetDefaultReplaces(o)
  BY <1>1, <1>3 DEF Finalise, SetDefaultReplaces, TypeOK, bootvars,
     timevars, choosevars, switches, prio
<1>4. CASE SetDefaultChosen(o)
  <2>1. config.autoboot_timeout_sec \in Nat
    BY BoundAssumption DEF TypeOK
  <2>2. DefaultTimeout(o, config.autoboot_timeout_sec, timers)
    BY <1>4 DEF SetDefaultChosen
  <2>3. /\ BootTyped'
        /\ sec_to_boot' \in Nat
        /\ last_boot_option' \in Options \cup {None}
        /\ timeout_waiter' \in Timers \cup {None}
        /\ timers' \in [Timers -> {"off", "armed", "due"}]
    BY <2>1, <2>2, DefaultTimeoutTypes DEF TypeOK
  <2>4. default_boot_option_priority' = prio /\ age' = 0
    BY <1>4 DEF SetDefaultChosen, prio
  <2> QED BY <1>1, <2>3, <2>4 DEF Finalise, TypeOK, BootTyped, switches
<1> QED BY <1>2, <1>3, <1>4 DEF Finalise

LEMMA TypeStep == TypeOK /\ [Next]_vars => TypeOK'
<1> SUFFICES ASSUME TypeOK, [Next]_vars PROVE TypeOK'
  OBVIOUS
<1> USE DEF bootvars, timevars, choosevars, switches, found
<1>1. ASSUME NEW o \in Options, Finalise(o) PROVE TypeOK'
  BY <1>1, FinaliseTypes
<1>2. ASSUME NEW d \in Devices, NEW new \in SUBSET Options, Discover(d, new)
      PROVE  TypeOK'
  BY <1>2 DEF Discover, TypeOK
<1>3. ASSUME NEW w \in Timers, TimerFire(w) PROVE TypeOK'
  <2>1. [timers EXCEPT ![w] = "off"] \in [Timers -> {"off", "armed", "due"}]
    BY DEF TypeOK
  <2>2. DefaultTimeout(default_boot_option, sec_to_boot,
                       [timers EXCEPT ![w] = "off"])
    BY <1>3 DEF TimerFire
  <2>3. /\ BootTyped'
        /\ sec_to_boot' \in Nat
        /\ last_boot_option' \in Options \cup {None}
        /\ timeout_waiter' \in Timers \cup {None}
        /\ timers' \in [Timers -> {"off", "armed", "due"}]
    BY <2>1, <2>2, DefaultTimeoutTypes, Zenon DEF TypeOK
  <2> QED BY <1>3, <2>3 DEF TimerFire, TypeOK, BootTyped
<1>4. ASSUME Tick PROVE TypeOK'
  <2>1. age' \in Nat
    BY <1>4 DEF Tick, TypeOK
  <2>2. timers' \in [Timers -> {"off", "armed", "due"}]
    BY <1>4 DEF Tick, TypeOK
  <2> QED BY <1>4, <2>1, <2>2 DEF Tick, TypeOK
<1>5. ASSUME NEW o \in boot_options \cup {None}, NEW c \in BOOLEAN, UserBoot(o, c)
      PROVE  TypeOK'
  <2>1. BootTyped'
    BY <1>5, BootTypes DEF UserBoot, TypeOK
  <2> QED BY <1>5, <2>1 DEF UserBoot, TypeOK, BootTyped
<1>6. ASSUME NEW t \in Tasks, BootCompletes(t) PROVE TypeOK'
  BY <1>6 DEF BootCompletes, TypeOK
<1>7. ASSUME UserCancel PROVE TypeOK'
  <2>1. CancelDefault(FALSE, FALSE)
    BY <1>7, Zenon DEF UserCancel
  <2> QED BY <1>7, <2>1, CancelDefaultTypes, Zenon DEF UserCancel, TypeOK, BootTyped
<1>8. ASSUME NEW d \in Devices, Remove(d) PROVE TypeOK'
  <2>1. CASE default_boot_option \in OptionsOf(d)
    <3>1. CancelDefault(FALSE, FALSE)
      BY <1>8, <2>1, Zenon DEF Remove
    <3> QED BY <1>8, <3>1, CancelDefaultTypes, Zenon DEF Remove, TypeOK, BootTyped
  <2>2. CASE default_boot_option \notin OptionsOf(d)
    BY <1>8, <2>2 DEF Remove, TypeOK
  <2> QED BY <2>1, <2>2
<1>9. ASSUME NEW d \in Devices, Requery(d) PROVE TypeOK'
  <2>1. CASE default_boot_option \in OptionsOf(d)
    <3>1. CancelDefault(autoboot_enabled, FALSE)
      BY <1>9, <2>1, Zenon DEF Requery
    <3>2. autoboot_enabled \in BOOLEAN
      BY SMTT(30) DEF TypeOK
    <3> QED BY <1>9, <3>1, <3>2, CancelDefaultTypes, Zenon DEF Requery, TypeOK, BootTyped
  <2>2. CASE default_boot_option \notin OptionsOf(d)
    BY <1>9, <2>2 DEF Requery, TypeOK
  <2> QED BY <2>1, <2>2
<1>10. ASSUME NEW opt \in TempChoices, ApplyTempAutoboot(opt) PROVE TypeOK'
  <2>1. CASE RescanNeeded(opt)
    <3>1. CancelDefault(TRUE, FALSE)
      BY <1>10, <2>1, Zenon DEF ApplyTempAutoboot
    <3>2. work' \subseteq Options
      BY <1>10, <2>1 DEF ApplyTempAutoboot, Rescans, TypeOK
    <3> QED BY <1>10, <3>1, <3>2, CancelDefaultTypes, Zenon
            DEF ApplyTempAutoboot, TypeOK, BootTyped
  <2>2. CASE ~RescanNeeded(opt)
    BY <1>10, <2>2 DEF ApplyTempAutoboot, TypeOK
  <2> QED BY <2>1, <2>2
<1>11. ASSUME NEW c \in Configs, Reinit(c) PROVE TypeOK'
  <2>1. CancelDefault(FALSE, TRUE)
    BY <1>11, Zenon DEF Reinit
  <2> QED BY <1>11, <2>1, CancelDefaultTypes, Zenon DEF Reinit, TypeOK, BootTyped
<1>12. ASSUME Down PROVE TypeOK'
  BY <1>12 DEF Down, TypeOK
<1>13. ASSUME UNCHANGED vars PROVE TypeOK'
  BY <1>13 DEF vars, TypeOK
<1> QED BY <1>1, <1>2, <1>3, <1>4, <1>5, <1>6, <1>7, <1>8, <1>9, <1>10, <1>11,
        <1>12, <1>13 DEF Next

LEMMA TypeInit == Init => TypeOK
<1> SUFFICES ASSUME Init PROVE TypeOK
  OBVIOUS
<1>1. autoboot_enabled \in BOOLEAN
  BY Zenon DEF Init, AutobootActive
<1> QED BY <1>1, Zenon DEF Init, TypeOK

(* The handler's variables keep their types in every behaviour, whatever    *)
(* the devices, options, configurations and numbers of tasks and timers.    *)
THEOREM TypeCorrect == Spec => []TypeOK
BY TypeInit, TypeStep, PTL DEF Spec

-----------------------------------------------------------------------------
(* Safety.  DefaultBootCancellable needs to know that the flag              *)
(* pending_boot_is_default tells who started the pending boot.              *)
FlagAgrees ==
    \A t \in live : pending_boot_is_default <=> origin[t] = "default"

(* The inductive invariant *)
Inv ==
    /\ TypeOK
    /\ SingleBoot
    /\ FlagAgrees
    /\ DefaultBootCancellable
    /\ CountdownArmed
    /\ QuietWhenDisabled
    /\ NoDanglingDefault

(* What a call of boot() from a state without another download leaves.      *)
LEMMA BootKeeps ==
    ASSUME TypeOK, NEW def \in Options \cup {None}, NEW kind \in {"default", "user"},
           Boot(def, {}, kind), kind = "default" => def # None /\ autoboot_enabled',
           ~autoboot_enabled' => def = None
    PROVE  /\ SingleBoot' /\ FlagAgrees' /\ DefaultBootCancellable'
           /\ CountdownArmed' /\ QuietWhenDisabled'
           /\ default_boot_option' \in {None, def}
<1> USE DEF SingleBoot, FlagAgrees, DefaultBootCancellable, CountdownArmed,
            QuietWhenDisabled
<1>1. CASE live' = {} /\ default_boot_option' = None
  BY <1>1
<1>2. ASSUME NEW t \in Tasks, pending_boot' = t, live' = {t},
             origin' = [origin EXCEPT ![t] = kind],
             default_boot_option' = def,
             pending_boot_is_default' = (kind = "default")
      PROVE  /\ SingleBoot' /\ FlagAgrees' /\ DefaultBootCancellable'
             /\ CountdownArmed' /\ QuietWhenDisabled'
  <2>1. origin'[t] = kind
    BY <1>2 DEF TypeOK
  <2>2. t # None
    BY NoneAssumption
  <2> QED BY <1>2, <2>1, <2>2, Zenon
<1>3. \/ live' = {} /\ default_boot_option' = None
      \/ \E t \in Tasks : /\ pending_boot' = t
                          /\ live' = {t}
                          /\ origin' = [origin EXCEPT ![t] = kind]
                          /\ default_boot_option' = def
                          /\ pending_boot_is_default' = (kind = "default")
  BY DEF Boot
<1> QED BY <1>1, <1>2, <1>3

LEMMA DefaultTimeoutKeeps ==
    ASSUME Inv, NEW def \in Options \cup {None}, NEW sec \in Nat,
           NEW armed \in [Timers -> {"off", "armed", "due"}],
           DefaultTimeout(def, sec, armed),
           autoboot_enabled' = autoboot_enabled,
           def # None => autoboot_enabled,
           default_boot_option # None => def # None
    PROVE  /\ SingleBoot' /\ FlagAgrees' /\ DefaultBootCancellable'
           /\ CountdownArmed' /\ QuietWhenDisabled'
           /\ default_boot_option' \in {None, def}
<1>1. CASE def = None \/ pending_boot # None
  BY <1>1 DEF DefaultTimeout, Inv, TypeOK, SingleBoot, FlagAgrees,
     DefaultBootCancellable, CountdownArmed, QuietWhenDisabled, bootvars
<1>2. CASE ~(def = None \/ pending_boot # None) /\ sec > 0
  BY <1>2 DEF DefaultTimeout, Inv, TypeOK, SingleBoot, FlagAgrees,
     DefaultBootCancellable, CountdownArmed, QuietWhenDisabled, bootvars
<1>3. CASE ~(def = None \/ pending_boot # None) /\ ~(sec > 0)
  <2>1. live = {}
    BY <1>3, NoneAssumption DEF Inv, SingleBoot, TypeOK
  <2>2. Boot(def, {}, "default")
    BY <1>3, <2>1 DEF DefaultTimeout
  <2>3. TypeOK
    BY DEF Inv
  <2> QED BY <1>3, <2>2, <2>3, BootKeeps
<1> QED BY <1>1, <1>2, <1>3, SMTT(30)

(* device_handler_cancel_default() takes a boot the countdown started with  *)
(* it, or fails in waiter_remove().                                         *)
LEMMA CancelDefaultKeeps ==
    ASSUME Inv, NEW enabled \in BOOLEAN, NEW all \in BOOLEAN,
           CancelDefault(enabled, all)
    PROVE  /\ SingleBoot' /\ FlagAgrees' /\ DefaultBootCancellable'
           /\ CountdownArmed' /\ QuietWhenDisabled'
           /\ default_boot_option' = None \/ phase' = "crashed"
<1>1. CASE timeout_waiter # None /\ timers[timeout_waiter] = "off"
  BY <1>1 DEF CancelDefault, Inv, SingleBoot, FlagAgrees, DefaultBootCancellable,
     CountdownArmed, QuietWhenDisabled, bootvars
<1>2. CASE ~(timeout_waiter # None /\ timers[timeout_waiter] = "off")
  <2> DEFINE stops == /\ pending_boot # None
                      /\ \/ all
                         \/ default_boot_option # None /\ pending_boot_is_default
  <2>1. default_boot_option' = None /\ origin' = origin
    BY <1>2 DEF CancelDefault
  <2>2. CASE stops
    <3>1. live' = live \ {pending_boot}
      BY <1>2, <2>2 DEF CancelDefault
    <3>2. live' = {}
      BY <3>1, SMTT(30) DEF Inv, SingleBoot
    <3> QED BY <2>1, <3>2 DEF SingleBoot, FlagAgrees, DefaultBootCancellable,
            CountdownArmed, QuietWhenDisabled
  <2>3. CASE ~stops
    <3>1. UNCHANGED <<live, pending_boot, pending_boot_is_default>>
      BY <1>2, <2>3 DEF CancelDefault
    <3>2. \A t \in live : origin[t] # "default"
      BY <2>3, NoneAssumption, SMTT(30) DEF Inv, TypeOK, DefaultBootCancellable
    <3> QED BY <2>1, <3>1, <3>2 DEF Inv, SingleBoot, FlagAgrees,
            DefaultBootCancellable, CountdownArmed, QuietWhenDisabled
  <2> QED BY <2>2, <2>3
<1> QED BY <1>1, <1>2

LEMMA InvStep == Inv /\ [Next]_vars => Inv'
<1> SUFFICES ASSUME Inv, [Next]_vars PROVE Inv'
  OBVIOUS
<1> USE DEF bootvars, timevars, choosevars, switches, found
<1> DEFINE Safe == /\ SingleBoot /\ FlagAgrees /\ DefaultBootCancellable
                   /\ CountdownArmed /\ QuietWhenDisabled
<1>0. TypeOK /\ TypeOK'
  BY TypeStep DEF Inv
<1>s. (UNCHANGED <<bootvars, timers, default_boot_option, autoboot_enabled>>) => Safe'
  BY DEF Inv, SingleBoot, FlagAgrees, DefaultBootCancellable, CountdownArmed,
     QuietWhenDisabled
<1> SUFFICES Safe' /\ NoDanglingDefault'
  BY <1>0 DEF Inv
<1>1. ASSUME NEW o \in Options, Finalise(o) PROVE Safe' /\ NoDanglingDefault'
  <2>1. autoboot_enabled' = autoboot_enabled /\ boot_options' = boot_options \cup {o}
        /\ Running
    BY <1>1 DEF Finalise
  <2>2. CASE SetDefaultIgnored(o) \/ SetDefaultFault(o)
    BY <1>s, <2>1, <2>2 DEF SetDefaultIgnored, SetDefaultFault, Inv,
       NoDanglingDefault, Running
  <2>3. CASE SetDefaultReplaces(o)
    <3>1. /\ UNCHANGED <<bootvars, timers>> /\ default_boot_option # None
          /\ default_boot_option' = o /\ autoboot_enabled
      BY <2>3 DEF SetDefaultReplaces
    <3>2. o # None
      BY NoneAssumption
    <3>3. Safe'
      BY <2>1, <3>1, <3>2 DEF Inv, SingleBoot, FlagAgrees, DefaultBootCancellable,
         CountdownArmed, QuietWhenDisabled
    <3> QED BY <2>1, <3>1, <3>3 DEF NoDanglingDefault
  <2>4. CASE SetDefaultChosen(o)
    <3>1. /\ DefaultTimeout(o, config.autoboot_timeout_sec, timers)
          /\ autoboot_enabled /\ default_boot_option = None
      BY <2>4 DEF SetDefaultChosen
    <3>2. /\ config.autoboot_timeout_sec \in Nat
          /\ timers \in [Timers -> {"off", "armed", "due"}]
      BY <1>0, BoundAssumption DEF TypeOK
    <3>3. Safe' /\ default_boot_option' \in {None, o}
      BY <2>1, <3>1, <3>2, DefaultTimeoutKeeps
    <3> QED BY <2>1, <3>3 DEF NoDanglingDefault
  <2> QED BY <1>1, <2>2, <2>3, <2>4 DEF Finalise
<1>2. ASSUME NEW d \in Devices, NEW new \in SUBSET Options, Discover(d, new)
      PROVE  Safe' /\ NoDanglingDefault'
  BY <1>2, <1>s DEF Discover, Inv, NoDanglingDefault, Idle, Running
<1>3. ASSUME NEW w \in Timers, TimerFire(w) PROVE Safe' /\ NoDanglingDefault'
  <2>1. /\ DefaultTimeout(default_boot_option, sec_to_boot,
                          [timers EXCEPT ![w] = "off"])
        /\ autoboot_enabled' = autoboot_enabled /\ boot_options' = boot_options
        /\ Running
    BY <1>3 DEF TimerFire, Idle
  <2>2. /\ [timers EXCEPT ![w] = "off"] \in [Timers -> {"off", "armed", "due"}]
        /\ default_boot_option \in Options \cup {None} /\ sec_to_boot \in Nat
    BY <1>0 DEF TypeOK
  <2>3. default_boot_option # None => autoboot_enabled
    BY DEF Inv, QuietWhenDisabled
  <2>4. Safe' /\ default_boot_option' \in {None, default_boot_option}
    BY <2>1, <2>2, <2>3, DefaultTimeoutKeeps, Zenon
  <2> QED BY <2>1, <2>4 DEF Inv, NoDanglingDefault
<1>4. ASSUME Tick PROVE Safe' /\ NoDanglingDefault'
  <2>1. ASSUME NEW w \in Timers, timers[w] # "off" PROVE timers'[w] # "off"
    BY <1>0, <1>4, <2>1 DEF Tick, TypeOK
  <2> QED BY <1>4, <2>1 DEF Tick, Inv, SingleBoot, FlagAgrees,
          DefaultBootCancellable, CountdownArmed, QuietWhenDisabled,
          NoDanglingDefault, Idle, Running
<1>5. ASSUME NEW o \in boot_options \cup {None}, NEW c \in BOOLEAN, UserBoot(o, c)
      PROVE  Safe' /\ NoDanglingDefault'
  <2> DEFINE def == IF pending_boot = None THEN default_boot_option ELSE None
  <2>1. live \ {pending_boot} = {}
    BY DEF Inv, SingleBoot
  <2>2. /\ Boot(def, {}, "user")
        /\ autoboot_enabled' = autoboot_enabled /\ boot_options' = boot_options
        /\ Running
    BY <1>5, <2>1, SMTT(30) DEF UserBoot, Idle
  <2>3. def \in Options \cup {None} /\ (~autoboot_enabled => def = None)
    BY <1>0 DEF TypeOK, Inv, QuietWhenDisabled
  <2>4. Safe' /\ default_boot_option' \in {None, def}
    <3> HIDE DEF def
    <3> QED BY <1>0, <2>2, <2>3, BootKeeps
  <2> QED BY <2>2, <2>4 DEF Inv, NoDanglingDefault
<1>6. ASSUME NEW t \in Tasks, BootCompletes(t) PROVE Safe' /\ NoDanglingDefault'
  <2>1. live' = {} /\ default_boot_option' = None
    BY <1>6 DEF BootCompletes, Inv, SingleBoot
  <2> QED BY <2>1 DEF SingleBoot, FlagAgrees, DefaultBootCancellable,
          CountdownArmed, QuietWhenDisabled, NoDanglingDefault
<1>c. ASSUME NEW enabled \in BOOLEAN, NEW all \in BOOLEAN, CancelDefault(enabled, all)
      PROVE  Safe' /\ NoDanglingDefault'
  BY <1>c, CancelDefaultKeeps DEF NoDanglingDefault, Running
<1>7. ASSUME UserCancel PROVE Safe' /\ NoDanglingDefault'
  BY <1>7, <1>c, Zenon DEF UserCancel
<1>8. ASSUME NEW d \in Devices, Remove(d) PROVE Safe' /\ NoDanglingDefault'
  <2>1. CASE default_boot_option \in OptionsOf(d)
    BY <1>8, <1>c, <2>1, Zenon DEF Remove
  <2>2. CASE default_boot_option \notin OptionsOf(d)
    BY <1>8, <1>s, <2>2 DEF Remove, Inv, NoDanglingDefault, Idle, Running
  <2> QED BY <2>1, <2>2
<1>9. ASSUME NEW d \in Devices, Requery(d) PROVE Safe' /\ NoDanglingDefault'
  <2>1. CASE default_boot_option \in OptionsOf(d)
    <3>1. CancelDefault(autoboot_enabled, FALSE) /\ autoboot_enabled \in BOOLEAN
      BY <1>0, <1>9, <2>1, Zenon DEF Requery, TypeOK
    <3> QED BY <1>c, <3>1, Zenon
  <2>2. CASE default_boot_option \notin OptionsOf(d)
    BY <1>9, <1>s, <2>2 DEF Requery, Inv, NoDanglingDefault, Idle, Running
  <2> QED BY <2>1, <2>2
<1>10. ASSUME NEW opt \in TempChoices, ApplyTempAutoboot(opt)
       PROVE  Safe' /\ NoDanglingDefault'
  <2>1. CASE RescanNeeded(opt)
    BY <1>10, <1>c, <2>1, Zenon DEF ApplyTempAutoboot
  <2>2. CASE ~RescanNeeded(opt)
    BY <1>10, <1>s, <2>2 DEF ApplyTempAutoboot, Inv, NoDanglingDefault, Idle, Running
  <2> QED BY <2>1, <2>2
<1>11. ASSUME NEW c \in Configs, Reinit(c) PROVE Safe' /\ NoDanglingDefault'
  BY <1>11, <1>c, Zenon DEF Reinit
<1>12. ASSUME Down PROVE Safe' /\ NoDanglingDefault'
  BY <1>12, <1>s DEF Down, NoDanglingDefault, Running
<1>13. ASSUME UNCHANGED vars PROVE Safe' /\ NoDanglingDefault'
  BY <1>13, <1>s DEF vars, Inv, NoDanglingDefault, Running
<1> HIDE DEF Safe
<1> QED BY <1>1, <1>2, <1>3, <1>4, <1>5, <1>6, <1>7, <1>8, <1>9, <1>10, <1>11,
        <1>12, <1>13, ZenonT(30) DEF Next

LEMMA Invariance == Spec => []Inv
<1>1. Init => Inv
  BY TypeInit DEF Init, Inv, SingleBoot, FlagAgrees, DefaultBootCancellable,
     CountdownArmed, QuietWhenDisabled, NoDanglingDefault
<1> QED BY <1>1, InvStep, PTL DEF Spec

(* At most one boot is in progress, and handler->pending_boot names it.     *)
THEOREM SingleBootAlways == Spec => []SingleBoot
BY Invariance, PTL DEF Inv

(* A key press reaches every boot the countdown started.                    *)
THEOREM DefaultBootAlwaysCancellable == Spec => []DefaultBootCancellable
BY Invariance, PTL DEF Inv

(* A default option that is not yet being booted has a countdown timer.     *)
THEOREM CountdownAlwaysArmed == Spec => []CountdownArmed
BY Invariance, PTL DEF Inv

(* The default option is one of a device the handler knows, and there is    *)
(* none while autoboot is off.                                              *)
THEOREM DefaultAlwaysValid == Spec => [](NoDanglingDefault /\ QuietWhenDisabled)
BY Invariance, PTL DEF Inv

-----------------------------------------------------------------------------
(* Action properties.                                                       *)

(* Nothing switches autoboot on again once it is off.                       *)
THEOREM CancelIsFinal == Spec => StaysCancelled
<1> USE DEF bootvars, timevars, choosevars, switches, found
<1>1. ASSUME TypeOK, [Next]_vars, ~autoboot_enabled PROVE ~autoboot_enabled'
  <2>1. ASSUME NEW all, CancelDefault(FALSE, all) PROVE ~autoboot_enabled'
    BY <1>1, <2>1 DEF CancelDefault
  <2>2. ASSUME CancelDefault(autoboot_enabled, FALSE) PROVE ~autoboot_enabled'
    BY <1>1, <2>2 DEF CancelDefault
  <2>3. ASSUME NEW d \in Devices, Remove(d) PROVE ~autoboot_enabled'
    BY <1>1, <2>1, <2>3, Zenon DEF Remove
  <2>4. ASSUME NEW d \in Devices, Requery(d) PROVE ~autoboot_enabled'
    BY <1>1, <2>2, <2>4, Zenon DEF Requery
  <2>5. ASSUME NEW opt \in TempChoices, ApplyTempAutoboot(opt)
        PROVE  ~autoboot_enabled'
    BY <1>1, <2>5 DEF ApplyTempAutoboot, RescanNeeded
  <2>6. ASSUME NEW c \in Configs, Reinit(c) PROVE ~autoboot_enabled'
    BY <2>1, <2>6, Zenon DEF Reinit
  <2>7. ASSUME UserCancel PROVE ~autoboot_enabled'
    BY <2>1, <2>7, Zenon DEF UserCancel
  <2>8. ASSUME UNCHANGED autoboot_enabled PROVE ~autoboot_enabled'
    BY <1>1, <2>8
  <2> QED BY <1>1, <2>3, <2>4, <2>5, <2>6, <2>7, <2>8, Zenon
          DEF Next, vars, Finalise, Discover, TimerFire, Tick, UserBoot,
              BootCompletes, Down
<1>2. TypeOK /\ [Next]_vars => [~autoboot_enabled => ~autoboot_enabled']_vars
  BY <1>1
<1> QED BY <1>2, TypeCorrect, PTL DEF Spec, StaysCancelled

(* Only the user and a reinit stop a boot the user asked for.               *)
THEOREM UserBootAlwaysKept == Spec => UserBootKept
<1> USE DEF bootvars, timevars, choosevars, switches, found
<1> DEFINE Kept == \A t \in live : origin[t] = "user" => t \in live'
<1>1. ASSUME Inv, NEW enabled, CancelDefault(enabled, FALSE) PROVE Kept
  BY <1>1 DEF CancelDefault, Inv, TypeOK, SingleBoot, FlagAgrees
<1>2. ASSUME Inv, UserCancel PROVE Kept
  BY <1>1, <1>2, Zenon DEF UserCancel
<1>3. ASSUME Inv, NEW d \in Devices, Remove(d) PROVE Kept
  BY <1>1, <1>3, Zenon DEF Remove
<1>4. ASSUME Inv, NEW d \in Devices, Requery(d) PROVE Kept
  BY <1>1, <1>4, Zenon DEF Requery
<1>5. ASSUME Inv, NEW opt \in TempChoices, ApplyTempAutoboot(opt) PROVE Kept
  BY <1>1, <1>5, Zenon DEF ApplyTempAutoboot
<1> DEFINE Stops == \/ UserCancel
                    \/ \E d \in Devices : Remove(d) \/ Requery(d)
                    \/ \E opt \in TempChoices : ApplyTempAutoboot(opt)
<1>6. Inv => [Stops => Kept]_vars
  <2> HIDE DEF Kept
  <2> QED BY <1>2, <1>3, <1>4, <1>5, SMTT(30)
<1> QED BY <1>6, Invariance, PTL DEF UserBootKept

-----------------------------------------------------------------------------
(* Priorities.  The stored priority may be stale after an override, but     *)
(* only in one direction: the current option is never less urgent than the  *)
(* handler believes.                                                        *)
PriorityBound ==
    Running /\ default_boot_option # None
        => /\ PriorityNow(default_boot_option) =< default_boot_option_priority
           /\ default_boot_option_priority \in 1 .. DISABLED - 1

LEMMA PriorityPositive ==
    ASSUME NEW temp, NEW c \in Configs, NEW dev
    PROVE  Priority(temp, c, dev) \in Nat /\ Priority(temp, c, dev) >= 1
<1>1. Len(c.autoboot_opts) \in Nat
  BY BoundAssumption
<1>2. /\ LocalPriority(c.autoboot_opts, dev) \in Nat
      /\ LocalPriority(c.autoboot_opts, dev) >= 1
  BY <1>1, LocalPriorityFirstMatch DEF DISABLED, LOCAL_FIRST
<1> QED BY <1>2 DEF Priority, TEMP_USER, REMOTE, LOCAL_FIRST, DISABLED

(* A step that keeps the configuration, the override and the stored         *)
(* priority, and at most drops the default, keeps the bound.                *)
LEMMA PriorityKept ==
    ASSUME PriorityBound, Running,
           UNCHANGED <<temp_autoboot, config, default_boot_option_priority>>,
           default_boot_option' \in {None, default_boot_option}
    PROVE  PriorityBound'
BY DEF PriorityBound, PriorityNow

LEMMA CancelDefaultDrops ==
    ASSUME NEW enabled, NEW all, CancelDefault(enabled, all)
    PROVE  PriorityBound'
BY DEF CancelDefault, PriorityBound, Running

LEMMA PriorityStep == Inv /\ PriorityBound /\ [Next]_vars => PriorityBound'
<1> SUFFICES ASSUME Inv, PriorityBound, [Next]_vars PROVE PriorityBound'
  OBVIOUS
<1> USE DEF bootvars, timevars, choosevars, switches, found
<1>0. TypeOK
  BY DEF Inv
<1>1. ASSUME NEW o \in Options, Finalise(o) PROVE PriorityBound'
  <2>1. UNCHANGED <<temp_autoboot, config>> /\ Running
    BY <1>1 DEF Finalise
  <2>2. PriorityNow(o) \in Nat /\ PriorityNow(o) >= 1
    BY <1>0, PriorityPositive DEF PriorityNow, TypeOK
  <2>3. CASE SetDefaultIgnored(o) \/ SetDefaultFault(o)
    BY <2>1, <2>3, PriorityKept, SMTT(30) DEF SetDefaultIgnored, SetDefaultFault
  <2>4. CASE SetDefaultReplaces(o)
    <3>1. /\ default_boot_option' = o
          /\ default_boot_option_priority' = PriorityNow(o)
          /\ PriorityNow(o) < default_boot_option_priority
          /\ default_boot_option # None
      BY <2>4 DEF SetDefaultReplaces, PriorityNow
    <3>2. PriorityNow(o)' = PriorityNow(o)
      BY <2>1 DEF PriorityNow
    <3> QED BY <2>1, <2>2, <3>1, <3>2 DEF PriorityBound, DISABLED, PriorityNow
  <2>5. CASE SetDefaultChosen(o)
    <3>1. /\ DefaultTimeout(o, config.autoboot_timeout_sec, timers)
          /\ autoboot_enabled /\ default_boot_option = None
          /\ default_boot_option_priority' = PriorityNow(o)
          /\ PriorityNow(o) < DISABLED
      BY <2>5 DEF SetDefaultChosen, PriorityNow
    <3>2. /\ config.autoboot_timeout_sec \in Nat
          /\ timers \in [Timers -> {"off", "armed", "due"}]
          /\ autoboot_enabled' = autoboot_enabled
      BY <1>0, <1>1, BoundAssumption DEF TypeOK, Finalise
    <3>3. default_boot_option' \in {None, o}
      BY <3>1, <3>2, DefaultTimeoutKeeps
    <3> QED BY <2>1, <2>2, <3>1, <3>3 DEF PriorityBound, PriorityNow, DISABLED
  <2> QED BY <1>1, <2>3, <2>4, <2>5 DEF Finalise
<1>2. ASSUME NEW d \in Devices, NEW new \in SUBSET Options, Discover(d, new)
      PROVE  PriorityBound'
  BY <1>2, PriorityKept DEF Discover, Idle
<1>3. ASSUME NEW w \in Timers, TimerFire(w) PROVE PriorityBound'
  <2>1. default_boot_option' \in {None, default_boot_option}
    BY <1>3 DEF TimerFire, DefaultTimeout, Boot
  <2> QED BY <1>3, <2>1, PriorityKept, SMTT(30) DEF TimerFire, Idle
<1>4. ASSUME Tick PROVE PriorityBound'
  BY <1>4, PriorityKept DEF Tick, Idle
<1>5. ASSUME NEW o \in boot_options \cup {None}, NEW c \in BOOLEAN, UserBoot(o, c)
      PROVE  PriorityBound'
  <2>1. default_boot_option' \in {None, default_boot_option}
    BY <1>5 DEF UserBoot, Boot
  <2> QED BY <1>5, <2>1, PriorityKept DEF UserBoot, Idle
<1>6. ASSUME NEW t \in Tasks, BootCompletes(t) PROVE PriorityBound'
  BY <1>6, PriorityKept DEF BootCompletes, Idle
<1>7. ASSUME UserCancel PROVE PriorityBound'
  BY <1>7, CancelDefaultDrops, Zenon DEF UserCancel
<1>8. ASSUME NEW d \in Devices, Remove(d) PROVE PriorityBound'
  BY <1>8, CancelDefaultDrops, PriorityKept, Zenon DEF Remove, Idle
<1>9. ASSUME NEW d \in Devices, Requery(d) PROVE PriorityBound'
  BY <1>9, CancelDefaultDrops, PriorityKept, Zenon DEF Requery, Idle
<1>10. ASSUME NEW opt \in TempChoices, ApplyTempAutoboot(opt) PROVE PriorityBound'
  <2>1. CASE RescanNeeded(opt)
    BY <1>10, <2>1, CancelDefaultDrops, Zenon DEF ApplyTempAutoboot
  <2>2. CASE ~RescanNeeded(opt) /\ default_boot_option = None
    BY <1>10, <2>2 DEF ApplyTempAutoboot, PriorityBound
  <2>3. CASE ~RescanNeeded(opt) /\ default_boot_option # None
    <3>1. OptionMatches(opt, Info(default_boot_option))
      BY <2>3 DEF RescanNeeded, Inv, QuietWhenDisabled
    <3>2. /\ temp_autoboot' = opt /\ opt # NoTemp
          /\ UNCHANGED <<phase, default_boot_option, default_boot_option_priority>>
          /\ Running
      BY <1>10, <2>3, TempAssumption, SMTT(30) DEF ApplyTempAutoboot, Idle
    <3>3. PriorityNow(default_boot_option)' = TEMP_USER
      BY <3>1, <3>2 DEF PriorityNow, Priority
    <3> QED BY <2>3, <3>2, <3>3 DEF PriorityBound, TEMP_USER, DISABLED
  <2> QED BY <2>1, <2>2, <2>3
<1>11. ASSUME NEW c \in Configs, Reinit(c) PROVE PriorityBound'
  BY <1>11, CancelDefaultDrops, Zenon DEF Reinit
<1>12. ASSUME Down PROVE PriorityBound'
  BY <1>12 DEF Down, PriorityBound, Running
<1>13. ASSUME UNCHANGED vars PROVE PriorityBound'
  BY <1>13 DEF vars, PriorityBound, PriorityNow, Running
<1> QED BY <1>1, <1>2, <1>3, <1>4, <1>5, <1>6, <1>7, <1>8, <1>9, <1>10, <1>11,
        <1>12, <1>13, ZenonT(30) DEF Next

LEMMA PriorityInvariance == Spec => [](Inv /\ PriorityBound)
<1>1. Init => PriorityBound
  BY DEF Init, PriorityBound
<1> QED BY <1>1, Invariance, PriorityStep, PTL DEF Spec

(* An option of a higher priority always becomes the default, although      *)
(* set_default() compares it with a priority that may be stale.             *)
THEOREM HigherPriorityAlwaysWins == Spec => HigherPriorityWins
<1> USE DEF bootvars, timevars, choosevars, switches, found
<1> DEFINE Wins == \A o \in (work \ work') \cap DefaultOptions :
                       /\ autoboot_enabled
                       /\ default_boot_option # None
                       /\ PriorityNow(o) < PriorityNow(default_boot_option)
                       => default_boot_option' = o \/ phase' = "crashed"
<1>1. ASSUME Inv, PriorityBound, NEW q \in Options, Finalise(q) PROVE Wins
  <2> SUFFICES ASSUME q \in DefaultOptions, autoboot_enabled,
                      default_boot_option # None,
                      PriorityNow(q) < PriorityNow(default_boot_option)
               PROVE  default_boot_option' = q \/ phase' = "crashed"
    BY <1>1 DEF Finalise
  <2>1. PriorityNow(q) \in Nat /\ PriorityNow(default_boot_option) \in Nat
    BY <1>1, PriorityPositive DEF PriorityNow, Inv, TypeOK
  <2>2. PriorityNow(q) < default_boot_option_priority /\ PriorityNow(q) < DISABLED
    BY <1>1, <2>1, SMTT(30) DEF PriorityBound, Finalise, DISABLED
  <2>3. ~SetDefaultIgnored(q)
    BY <1>1, <2>1, <2>2 DEF SetDefaultIgnored, PriorityNow, PriorityBound, Finalise,
       DISABLED
  <2> QED BY <1>1, <2>3 DEF Finalise, SetDefaultFault, SetDefaultReplaces,
          SetDefaultChosen
<1>2. ASSUME [Next]_vars, \A q \in Options : ~Finalise(q) PROVE Wins
  <2>1. work \subseteq work' \/ work = {}
    BY <1>2, Zenon DEF Next, vars, Discover, TimerFire, Tick, UserBoot, BootCompletes,
       UserCancel, Remove, Requery, ApplyTempAutoboot, Reinit, Down, Idle
  <2> QED BY <2>1, SMTT(30)
<1>3. Inv /\ PriorityBound /\ [Next]_vars => [Wins]_vars
  <2> HIDE DEF Wins
  <2> QED BY <1>1, <1>2
<1> QED BY <1>3, PriorityInvariance, PTL DEF Spec, HigherPriorityWins
===============================================================================
