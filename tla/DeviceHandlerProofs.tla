------------------------ MODULE DeviceHandlerProofs ------------------------
(* Proofs about DeviceHandler, for any devices and options and any bound on    *)
(* the number of devices.                                                      *)
EXTENDS DeviceHandler, FiniteSetTheorems, WellFoundedInduction, TLAPS

(* A client that was told of the devices of told, and has the options fd: the  *)
(* first entry for a device has its options, and those after it have none.     *)
Entries(v, fd, told) ==
    \A d \in Device :
        /\ d \in told => v[d] # <<>>
        /\ v[d] # <<>> => v[d][1] = fd \cap OptionsOf(d)
        /\ \A i \in 2 .. Len(v[d]) : v[d][i] = {}

(* An option in the queue waits for a device that is not among ds. *)
Waits(o, g, ds) == g[o] < Len(Needs[o]) /\ Needs[o][g[o] + 1] \notin ds

Registry ==
    /\ devices \in Seq(Device) /\ notified \subseteq Present
    /\ found \subseteq Options /\ unresolved \subseteq Options
    /\ got \in [Options -> Nat] /\ \A o \in Options : got[o] <= Len(Needs[o])
    /\ \A o \in unresolved : Waits(o, got, Present)
    /\ \A o \in found \cup unresolved : Owner[o] \in Present
    /\ \A o \in found : Owner[o] \in notified
    /\ view \in [Device -> Seq(SUBSET Options)]
    /\ connected => Entries(view, found, notified)

Async ==
    /\ requery \subseteq Present \cap Net
    /\ crypts \subseteq Present \cap Crypt

IInv == phase # "client_assert" /\ (phase = "run" => Registry /\ Async)
-----------------------------------------------------------------------------


(* A set of numbers has a least one. *)
LEMMA Least ==
  ASSUME NEW S \in SUBSET Nat, S # {}
  PROVE  \E x \in S : \A y \in S : x <= y
  <1> DEFINE R == OpToRel(<, Nat)
  <1>1. IsWellFoundedOn(R, Nat)
    BY NatLessThanWellFounded, Zenon
  <1>2. \A x, y \in Nat : y < x => <<y, x>> \in R
    BY DEF OpToRel
  <1> HIDE DEF R
  <1>3. PICK x \in S : \A y \in S : ~(<<y, x>> \in R)
    BY <1>1, WFMin, Zenon
  <1>4. ASSUME NEW y \in S PROVE x <= y
    <2>1. x \in Nat /\ y \in Nat /\ ~(y < x)
      BY <1>2, <1>3, Zenon
    <2> QED BY <2>1
  <1> QED BY <1>4

(* Resources are resolved up to the first one that is not there. *)
LEMMA ResolveStops ==
  ASSUME NEW o \in Options, got[o] \in Nat, got[o] <= Len(Needs[o]), NEW have
  PROVE  LET n == Resolve(o, have)
         IN /\ n \in Nat /\ got[o] <= n /\ n <= Len(Needs[o])
            /\ n < Len(Needs[o]) => Needs[o][n + 1] \notin have
  <1> DEFINE l == Len(Needs[o])
             g == got[o]
             ok(n) == \A i \in g + 1 .. n : Needs[o][i] \in have
             P(n) == ok(n) /\ \A m \in n + 1 .. l : ~ok(m)
             T == {m \in g + 1 .. l : Needs[o][m] \notin have}
  <1>1. l \in Nat /\ g \in Nat /\ g <= l
    BY OptionAssumption
  <1>2. \E n \in g .. l : P(n)
    <2>1. CASE T = {}
      <3>1. l \in g .. l /\ P(l)
        BY <1>1, <2>1
      <3> QED BY <3>1
    <2>2. CASE T # {}
      <3>1. T \in SUBSET Nat
        BY <1>1
      <3>2. PICK x \in T : \A y \in T : x <= y
        BY <2>2, <3>1, Least, Zenon
      <3> DEFINE n == x - 1
      <3>3. n \in g .. l /\ n + 1 = x
        BY <1>1, <3>2
      <3>4. ok(n)
        BY <1>1, <3>2, <3>3
      <3>5. ASSUME NEW m \in n + 1 .. l PROVE ~ok(m)
        <4>1. x \in g + 1 .. m /\ Needs[o][x] \notin have
          BY <1>1, <3>2, <3>3
        <4> QED BY <4>1
      <3> QED BY <3>3, <3>4, <3>5
    <2> QED BY <2>1, <2>2
  <1>3. Resolve(o, have) = CHOOSE n \in g .. l : P(n)
    BY DEF Resolve
  <1> DEFINE n == Resolve(o, have)
  <1> HIDE DEF P
  <1>4. n \in g .. l /\ P(n)
    BY <1>2, <1>3
  <1> HIDE DEF n
  <1>5. ASSUME n < l, Needs[o][n + 1] \in have PROVE FALSE
    <2>1. n \in Nat /\ g <= n /\ n + 1 \in n + 1 .. l
      BY <1>1, <1>4, <1>5
    <2>2. ASSUME NEW i \in g + 1 .. n + 1 PROVE Needs[o][i] \in have
      <3>1. i \in g + 1 .. n \/ i = n + 1
        BY <1>1, <2>1
      <3> QED BY <1>4, <1>5, <3>1 DEF P
    <2> QED BY <1>4, <2>1, <2>2 DEF P
  <1> QED BY <1>1, <1>4, <1>5 DEF n

LEMMA WithoutRange ==
  ASSUME NEW S, NEW s \in Seq(S), NEW e
  PROVE  /\ Without(s, e) \in Seq(S)
         /\ Range(Without(s, e)) \subseteq Range(s)
         /\ Range(s) \ {e} \subseteq Range(Without(s, e))
  <1>1. CASE ~\E i \in 1 .. Len(s) : s[i] = e
    <2>1. {i \in DOMAIN s : s[i] = e} = {}
      BY <1>1
    <2>2. Without(s, e) = s
      BY <2>1 DEF Without
    <2> QED BY <2>2
  <1>2. CASE \E i \in 1 .. Len(s) : s[i] = e
    <2> DEFINE I == {i \in DOMAIN s : s[i] = e}
               k == CHOOSE n \in I : \A m \in I : n <= m
               a == SubSeq(s, 1, k - 1)
               b == SubSeq(s, k + 1, Len(s))
               t == a \o b
    <2>1. I # {} /\ I \in SUBSET Nat
      BY <1>2
    <2>2. k \in 1 .. Len(s) /\ s[k] = e
      <3>1. \E n \in I : \A m \in I : n <= m
        BY <2>1, Least, Zenon
      <3>2. k \in I
        BY <3>1
      <3> QED BY <3>2
    <2>3. Without(s, e) = t
      BY <2>1, Zenon DEF Without
    <2> HIDE DEF k
    <2>4. /\ t \in Seq(S) /\ Len(t) = Len(s) - 1
          /\ \A i \in 1 .. Len(t) : t[i] = IF i < k THEN s[i] ELSE s[i + 1]
      <3>1. a \in Seq(S) /\ Len(a) = k - 1 /\ \A i \in 1 .. k - 1 : a[i] = s[i]
        <4>1. \A i \in 1 .. k - 1 : s[i] \in S
          BY <2>2
        <4>2. 1 \in Int /\ k - 1 \in Int
          BY <2>2
        <4> QED BY <2>2, <4>1, <4>2
      <3>2. b \in Seq(S) /\ Len(b) = Len(s) - k
            /\ \A i \in 1 .. Len(s) - k : b[i] = s[k + i]
        <4>1. \A i \in k + 1 .. Len(s) : s[i] \in S
          BY <2>2
        <4>2. k + 1 \in Int /\ Len(s) \in Int
          BY <2>2
        <4> QED BY <2>2, <4>1, <4>2
      <3> HIDE DEF a, b
      <3>3. /\ t \in Seq(S) /\ Len(t) = Len(a) + Len(b)
            /\ \A i \in 1 .. Len(a) + Len(b) : t[i] = IF i <= Len(a) THEN a[i] ELSE b[i - Len(a)]
        <4>1. a \in Seq(S) /\ b \in Seq(S)
          BY <3>1, <3>2
        <4> QED BY <4>1
      <3> HIDE DEF t
      <3>4. Len(t) = Len(s) - 1
        BY <2>2, <3>1, <3>2, <3>3
      <3>5. ASSUME NEW i \in 1 .. Len(t) PROVE t[i] = IF i < k THEN s[i] ELSE s[i + 1]
        <4>1. t[i] = IF i <= Len(a) THEN a[i] ELSE b[i - Len(a)]
          BY <3>3, SMTT(30)
        <4>2. CASE i < k
          BY <2>2, <3>1, <4>1, <4>2
        <4>3. CASE i >= k
          <5>1. i - Len(a) \in 1 .. Len(s) - k /\ k + (i - Len(a)) = i + 1 /\ ~(i <= Len(a))
            BY <2>2, <3>1, <3>4, <4>3
          <5>2. b[i - Len(a)] = s[k + (i - Len(a))]
            BY <3>2, <5>1
          <5> QED BY <2>2, <4>1, <4>3, <5>1, <5>2
        <4> QED BY <2>2, <4>2, <4>3
      <3> QED BY <3>3, <3>4, <3>5
    <2> HIDE DEF t
    <2>5. Range(t) \subseteq Range(s)
      BY <2>2, <2>4 DEF Range
    <2>6. ASSUME NEW j \in 1 .. Len(s), s[j] # e PROVE s[j] \in Range(t)
      <3>1. CASE j < k
        BY <2>2, <2>4, <3>1 DEF Range
      <3>2. CASE j > k
        <4>1. j - 1 \in 1 .. Len(t) /\ t[j - 1] = s[j]
          BY <2>2, <2>4, <3>2
        <4> QED BY <2>4, <4>1 DEF Range
      <3> QED BY <2>2, <2>6, <3>1, <3>2
    <2>7. Range(s) \ {e} \subseteq Range(t)
      BY <2>6 DEF Range
    <2> QED BY <2>3, <2>4, <2>5, <2>7
  <1> QED BY <1>1, <1>2
-----------------------------------------------------------------------------
(* What a client has after a message: views, their entries.                    *)
Views == [Device -> Seq(SUBSET Options)]

LEMMA ViewAddEntries ==
  ASSUME NEW v \in Views, NEW fd, NEW told, Entries(v, fd, told), NEW ds \in SUBSET Device,
         \A d \in ds : fd \cap OptionsOf(d) = {}
  PROVE  ViewAdd(v, ds) \in Views /\ Entries(ViewAdd(v, ds), fd, told \cup ds)
  <1> DEFINE x == ViewAdd(v, ds)
  <1>1. ASSUME NEW d \in Device
        PROVE  /\ x[d] \in Seq(SUBSET Options)
               /\ d \in told \cup ds => x[d] # <<>>
               /\ x[d] # <<>> => x[d][1] = fd \cap OptionsOf(d)
               /\ \A i \in 2 .. Len(x[d]) : x[d][i] = {}
    <2> DEFINE s == v[d]
    <2>1. /\ s \in Seq(SUBSET Options) /\ (d \in told => s # <<>>)
          /\ (s # <<>> => s[1] = fd \cap OptionsOf(d))
          /\ \A i \in 2 .. Len(s) : s[i] = {}
      BY DEF Entries, Views
    <2> HIDE DEF s
    <2>2. CASE d \in ds
      <3>1. x[d] = Append(s, {}) /\ fd \cap OptionsOf(d) = {}
        BY <2>2 DEF ViewAdd, s
      <3> QED BY <2>1, <2>2, <3>1
    <2>3. CASE d \notin ds
      <3>1. x[d] = s
        BY <2>3 DEF ViewAdd, s
      <3> QED BY <2>1, <2>3, <3>1
    <2> QED BY <2>2, <2>3
  <1>2. x \in Views
    BY <1>1 DEF ViewAdd, Views
  <1> HIDE DEF x
  <1>3. Entries(x, fd, told \cup ds)
    BY <1>1 DEF Entries
  <1> QED BY <1>2, <1>3 DEF x

LEMMA ViewOptionsEntries ==
  ASSUME NEW v \in Views, NEW fd, NEW told, Entries(v, fd, told), NEW os \in SUBSET Options,
         \A o \in os : Owner[o] \in told
  PROVE  /\ ViewOptions(v, os) \in Views /\ Entries(ViewOptions(v, os), fd \cup os, told)
         /\ ViewHas(v, os)
  <1> DEFINE x == ViewOptions(v, os)
  <1>0. \A o \in os : Owner[o] \in Device
    BY OptionAssumption DEF Device
  <1>1. ASSUME NEW d \in Device
        PROVE  /\ x[d] \in Seq(SUBSET Options)
               /\ d \in told => x[d] # <<>>
               /\ x[d] # <<>> => x[d][1] = (fd \cup os) \cap OptionsOf(d)
               /\ \A i \in 2 .. Len(x[d]) : x[d][i] = {}
    <2> DEFINE s == v[d]
               h == s[1] \cup (os \cap OptionsOf(d))
    <2>1. /\ s \in Seq(SUBSET Options) /\ (d \in told => s # <<>>)
          /\ (s # <<>> => s[1] = fd \cap OptionsOf(d))
          /\ \A i \in 2 .. Len(s) : s[i] = {}
      BY DEF Entries, Views
    <2>2. x[d] = IF s = <<>> THEN s ELSE [s EXCEPT ![1] = h]
      BY DEF ViewOptions
    <2> HIDE DEF s
    <2>3. CASE s = <<>>
      BY <2>1, <2>2, <2>3
    <2>4. CASE s # <<>>
      <3>1. s[1] \in SUBSET Options /\ h \in SUBSET Options
            /\ h = (fd \cup os) \cap OptionsOf(d)
        BY <2>1, <2>4
      <3> HIDE DEF h
      <3>2. x[d] \in Seq(SUBSET Options) /\ Len(x[d]) = Len(s) /\ x[d][1] = h
            /\ \A i \in 2 .. Len(s) : x[d][i] = s[i]
        BY <2>1, <2>2, <2>4, <3>1
      <3> QED BY <2>1, <2>4, <3>1, <3>2
    <2> QED BY <2>3, <2>4
  <1>2. x \in Views
    BY <1>1 DEF ViewOptions, Views
  <1> HIDE DEF x
  <1>3. Entries(x, fd \cup os, told)
    BY <1>1 DEF Entries
  <1>4. ViewHas(v, os)
    BY <1>0 DEF ViewHas, Entries
  <1> QED BY <1>2, <1>3, <1>4 DEF x

LEMMA ViewRemoveEntries ==
  ASSUME NEW v \in Views, NEW fd, NEW told, Entries(v, fd, told), NEW d \in Device
  PROVE  /\ ViewRemove(v, d) \in Views
         /\ Entries(ViewRemove(v, d), fd \ OptionsOf(d), told \ {d})
  <1> DEFINE x == ViewRemove(v, d)
  <1>1. ASSUME NEW e \in Device
        PROVE  /\ x[e] \in Seq(SUBSET Options)
               /\ e \in told \ {d} => x[e] # <<>>
               /\ x[e] # <<>> => x[e][1] = (fd \ OptionsOf(d)) \cap OptionsOf(e)
               /\ \A i \in 2 .. Len(x[e]) : x[e][i] = {}
    <2> DEFINE s == v[e]
    <2>1. /\ s \in Seq(SUBSET Options) /\ (e \in told => s # <<>>)
          /\ (s # <<>> => s[1] = fd \cap OptionsOf(e))
          /\ \A i \in 2 .. Len(s) : s[i] = {}
      BY DEF Entries, Views
    <2>2. CASE e = d /\ s # <<>>
      <3>1. x[e] = Tail(s) /\ (fd \ OptionsOf(d)) \cap OptionsOf(e) = {}
        BY <2>2 DEF ViewRemove, Views
      <3> HIDE DEF s, x
      <3> QED BY <2>1, <2>2, <3>1
    <2>3. CASE e = d /\ s = <<>>
      <3>1. x[e] = s
        BY <2>3 DEF ViewRemove
      <3> HIDE DEF s, x
      <3> QED BY <2>1, <2>3, <3>1
    <2>4. CASE e # d
      <3>1. x[e] = s
        BY <2>4 DEF ViewRemove, Views
      <3>2. (fd \ OptionsOf(d)) \cap OptionsOf(e) = fd \cap OptionsOf(e)
        BY <2>4 DEF OptionsOf
      <3> HIDE DEF s, x
      <3> QED BY <2>1, <2>4, <3>1, <3>2
    <2> QED BY <2>2, <2>3, <2>4
  <1>2. x \in Views
    BY <1>1 DEF ViewRemove, Views
  <1> HIDE DEF x
  <1>3. Entries(x, fd \ OptionsOf(d), told \ {d})
    BY <1>1 DEF Entries
  <1> QED BY <1>2, <1>3 DEF x
-----------------------------------------------------------------------------
(* boot_option_resolve(), the queue and the messages to the client keep the    *)
(* registry in order, if the options that are not tried need no new device.    *)
LEMMA OfferKeeps ==
  ASSUME NEW try \in SUBSET Options, NEW ds \in Seq(Device), NEW told, NEW v \in Views,
         told \subseteq Range(ds), found \subseteq Options, unresolved \subseteq Options,
         got \in [Options -> Nat], \A o \in Options : got[o] <= Len(Needs[o]),
         \A o \in found \cup unresolved \cup try : Owner[o] \in Range(ds),
         \A o \in found : Owner[o] \in told,
         \A o \in unresolved \ try : Waits(o, got, Range(ds)),
         connected => Entries(v, found, told), connected' = connected,
         devices' = ds, Offer(try, ds, told, v)
  PROVE  Registry' /\ phase' = "run"
  <1>0. Present' = Range(ds)
    BY DEF Present
  <1>1. /\ got' = [o \in Options |-> IF o \in try THEN Resolve(o, Range(ds)) ELSE got[o]]
        /\ found' = found \cup {o \in try : got'[o] = Len(Needs[o])}
        /\ unresolved' = (unresolved \cup try) \ found'
        /\ Notify(try \cap found', told, v)
    BY DEF Offer
  <1> DEFINE os  == try \cap found'
             new == {Owner[o] : o \in os} \ told
             w   == ToldAdd(v, new)
  <1>2. ASSUME NEW o \in Options
        PROVE  /\ got'[o] \in Nat /\ got'[o] <= Len(Needs[o])
               /\ o \in try /\ got'[o] # Len(Needs[o]) => Waits(o, got', Range(ds))
    <2>1. CASE o \in try
      <3> DEFINE n == Resolve(o, Range(ds))
      <3>1. /\ n \in Nat /\ n <= Len(Needs[o])
            /\ n < Len(Needs[o]) => Needs[o][n + 1] \notin Range(ds)
        BY ResolveStops
      <3>2. got'[o] = n
        BY <1>1, <2>1
      <3> HIDE DEF n
      <3>3. Len(Needs[o]) \in Nat
        BY OptionAssumption
      <3> QED BY <1>0, <3>1, <3>2, <3>3 DEF Waits
    <2>2. CASE o \notin try
      BY <1>1, <2>2
    <2> QED BY <2>1, <2>2
  <1>3. got' \in [Options -> Nat] /\ \A o \in Options : got'[o] <= Len(Needs[o])
    <2>1. got' = [o \in Options |-> got'[o]]
      BY <1>1
    <2> QED BY <1>2, <2>1
  <1>4. \A o \in unresolved' : Waits(o, got', Range(ds))
    <2> SUFFICES ASSUME NEW o \in unresolved' PROVE Waits(o, got', Range(ds))
      OBVIOUS
    <2>1. CASE o \in try
      BY <1>1, <1>2, <2>1
    <2>2. CASE o \notin try
      <3>1. o \in unresolved \ try /\ got'[o] = got[o]
        BY <1>1, <2>2
      <3> QED BY <3>1 DEF Waits
    <2> QED BY <2>1, <2>2
  <1>5. /\ found' \subseteq Options /\ unresolved' \subseteq Options /\ found' = found \cup os
        /\ \A o \in found' \cup unresolved' : Owner[o] \in Range(ds)
    BY <1>1
  <1>6. os \in SUBSET Options /\ new \in SUBSET Device /\ new \subseteq Range(ds)
    BY <1>1, OptionAssumption DEF Device
  <1>7. notified' = told \cup new
    BY <1>1 DEF Notify
  <1>8. \A o \in os : Owner[o] \in told \cup new
    OBVIOUS
  <1>9. CASE connected
    <2>1. \A d \in new : found \cap OptionsOf(d) = {}
      BY DEF OptionsOf
    <2>2. w = ViewAdd(v, new)
      BY <1>9 DEF ToldAdd
    <2> HIDE DEF os, new, w
    <2>3. w \in Views /\ Entries(w, found, told \cup new)
      BY <1>6, <1>9, <2>1, <2>2, ViewAddEntries
    <2>4. /\ ViewOptions(w, os) \in Views
          /\ Entries(ViewOptions(w, os), found \cup os, told \cup new) /\ ViewHas(w, os)
      BY <1>6, <1>8, <2>3, ViewOptionsEntries, SMTT(30)
    <2>5. view' = ViewOptions(w, os) /\ phase' = "run"
      BY <1>1, <1>9, <2>4 DEF Notify, os, new, w
    <2>6. view' \in Views /\ Entries(view', found', notified')
      BY <1>5, <1>7, <2>4, <2>5
    <2>7. \A o \in found' : Owner[o] \in notified'
      BY <1>5, <1>7, <1>8
    <2> QED BY <1>0, <1>3, <1>4, <1>5, <1>6, <1>7, <2>5, <2>6, <2>7 DEF Registry, Views, Entries, Waits
  <1>10. CASE ~connected
    <2>1. view' = v /\ phase' = "run"
      BY <1>1, <1>10 DEF Notify
    <2>2. \A o \in found' : Owner[o] \in notified'
      BY <1>5, <1>7, <1>8
    <2> HIDE DEF os, new, w
    <2> QED BY <1>0, <1>3, <1>4, <1>5, <1>6, <1>7, <1>10, <2>1, <2>2 DEF Registry, Views, Waits
  <1> QED BY <1>9, <1>10

LEMMA AddRange ==
  ASSUME NEW ds \in Seq(Device), NEW d \in Device
  PROVE  Add(ds, d) \in Seq(Device) /\ Range(Add(ds, d)) = Range(ds) \cup {d}
  <1>1. CASE d \in Range(ds) \ Local
    BY <1>1 DEF Add
  <1>2. CASE d \notin Range(ds) \ Local
    <2> DEFINE t == Append(ds, d)
    <2>1. Add(ds, d) = t
      BY <1>2 DEF Add
    <2>2. t \in Seq(Device) /\ Len(t) = Len(ds) + 1 /\ t[Len(ds) + 1] = d
          /\ \A i \in 1 .. Len(ds) : t[i] = ds[i]
      OBVIOUS
    <2> HIDE DEF t
    <2>3. Range(t) \subseteq Range(ds) \cup {d}
      BY <2>2 DEF Range
    <2>4. Range(ds) \subseteq Range(t) /\ d \in Range(t)
      BY <2>2 DEF Range
    <2> QED BY <2>1, <2>2, <2>3, <2>4
  <1> QED BY <1>1, <1>2

LEMMA PresentDevices ==
  ASSUME Registry
  PROVE  Present \subseteq Device
  BY DEF Registry, Present, Range

(* A commit does not process the queue, and adds no device that an option in   *)
(* the queue could need.                                                       *)
LEMMA CommitKeeps ==
  ASSUME Registry, connected' = connected, NEW d \in Device, NEW os \in Fresh(d),
         NEW n \in {1, 2}, NEW nets, d \in Block => d \in Present, Commit(d, os, n, nets)
  PROVE  \/ phase' = "null_name"
         \/ phase' = "run" /\ Registry' /\ Present' = Present \cup {d}
  <1>1. CASE NullName(d, nets)
    BY <1>1 DEF Commit
  <1>2. CASE ~NullName(d, nets)
    <2> DEFINE ds == IF n = 1 THEN Add(devices, d) ELSE Add(Add(devices, d), d)
    <2>1. devices' = ds /\ Offer(os, ds, notified, view)
      BY <1>2 DEF Commit
    <2>2. devices \in Seq(Device)
      BY DEF Registry
    <2>3. ds \in Seq(Device) /\ Range(ds) = Range(devices) \cup {d}
      <3>1. Add(devices, d) \in Seq(Device) /\ Range(Add(devices, d)) = Range(devices) \cup {d}
        BY <2>2, AddRange
      <3>2. Add(Add(devices, d), d) \in Seq(Device)
            /\ Range(Add(Add(devices, d), d)) = Range(Add(devices, d)) \cup {d}
        BY <3>1, AddRange
      <3> QED BY <3>1, <3>2
    <2> HIDE DEF ds
    <2>4. os \in SUBSET Options /\ \A o \in os : Owner[o] = d
      BY DEF Fresh, OptionsOf
    <2>5. \A o \in unresolved : Waits(o, got, Range(ds))
      <3> SUFFICES ASSUME NEW o \in unresolved PROVE Waits(o, got, Range(ds))
        OBVIOUS
      <3>1. o \in Options /\ got[o] \in Nat /\ Waits(o, got, Range(devices))
        BY DEF Registry, Present
      <3>2. got[o] + 1 \in 1 .. Len(Needs[o]) /\ Needs[o] \in Seq(Block)
        BY <3>1, OptionAssumption DEF Waits
      <3>3. Needs[o][got[o] + 1] \in Block
        BY <3>2
      <3>4. Needs[o][got[o] + 1] # d
        BY <3>1, <3>3 DEF Waits, Present
      <3> QED BY <2>3, <3>1, <3>4 DEF Waits
    <2>6. Registry' /\ phase' = "run"
      <3>1. /\ view \in Views /\ notified \subseteq Range(ds) /\ found \subseteq Options
            /\ unresolved \subseteq Options /\ got \in [Options -> Nat]
            /\ \A o \in Options : got[o] <= Len(Needs[o])
            /\ \A o \in found \cup unresolved \cup os : Owner[o] \in Range(ds)
            /\ \A o \in found : Owner[o] \in notified
            /\ connected => Entries(view, found, notified)
        BY <2>3, <2>4 DEF Registry, Views, Present
      <3> QED BY <2>1, <2>3, <2>4, <2>5, <3>1, OfferKeeps, Zenon
    <2> QED BY <2>1, <2>3, <2>6 DEF Present
  <1> QED BY <1>1, <1>2

(* device_handler_discover() processes the queue. *)
LEMMA DiscoverKeeps ==
  ASSUME NEW d \in Device, NEW os \in Fresh(d), NEW ds \in Seq(Device), NEW told, NEW v \in Views,
         told \subseteq Range(ds), found \subseteq Options, unresolved \subseteq Options,
         got \in [Options -> Nat], \A o \in Options : got[o] <= Len(Needs[o]),
         \A o \in found \cup unresolved : Owner[o] \in Range(ds),
         \A o \in found : Owner[o] \in told,
         connected => Entries(v, found, told), connected' = connected,
         Discover(d, os, ds, told, v)
  PROVE  Registry' /\ phase' = "run" /\ Range(ds) \subseteq Present'
  <1> DEFINE es == Add(ds, d)
             try == os \cup unresolved
  <1>1. devices' = es /\ Offer(try, es, told, v)
    BY DEF Discover
  <1>2. es \in Seq(Device) /\ Range(es) = Range(ds) \cup {d}
    BY AddRange
  <1>3. try \in SUBSET Options /\ \A o \in found \cup unresolved \cup try : Owner[o] \in Range(es)
    BY <1>2 DEF Fresh, OptionsOf
  <1>4. told \subseteq Range(es) /\ \A o \in unresolved \ try : Waits(o, got, Range(es))
    BY <1>2
  <1> HIDE DEF es, try
  <1>5. Registry' /\ phase' = "run"
    BY <1>1, <1>2, <1>3, <1>4, OfferKeeps, Zenon
  <1> QED BY <1>1, <1>2, <1>5 DEF Present

(* The options of a device go with it, and with them its entry at the client. *)
LEMMA ForgetKeeps ==
  ASSUME Registry, NEW d \in Device, Forget(d), connected' = connected,
         notified' = notified \ {d},
         view' = ToldRemove(view, d) \/ (view' = view /\ d \notin notified),
         devices' \in Seq(Device), Present' \subseteq Present, Present \ {d} \subseteq Present'
  PROVE  Registry'
  <1>1. /\ found' = found \ OptionsOf(d) /\ unresolved' = unresolved \ OptionsOf(d)
        /\ got' = [o \in Options |-> IF Owner[o] = d THEN 0 ELSE got[o]]
    BY DEF Forget
  <1>2. /\ found \subseteq Options /\ unresolved \subseteq Options
        /\ got \in [Options -> Nat] /\ \A o \in Options : got[o] <= Len(Needs[o])
        /\ \A o \in unresolved : Waits(o, got, Present)
        /\ \A o \in found \cup unresolved : Owner[o] \in Present
        /\ \A o \in found : Owner[o] \in notified
        /\ notified \subseteq Present
    BY DEF Registry
  <1>3. got' \in [Options -> Nat] /\ \A o \in Options : got'[o] <= Len(Needs[o])
    BY <1>1, <1>2, OptionAssumption
  <1>4. /\ found' \subseteq Options /\ unresolved' \subseteq Options
        /\ \A o \in found' \cup unresolved' : Owner[o] \in Present'
        /\ \A o \in found' : Owner[o] \in notified'
        /\ notified' \subseteq Present'
    BY <1>1, <1>2 DEF OptionsOf
  <1>5. \A o \in unresolved' : Waits(o, got', Present')
    <2> SUFFICES ASSUME NEW o \in unresolved' PROVE Waits(o, got', Present')
      OBVIOUS
    <2>1. o \in unresolved /\ got'[o] = got[o]
      BY <1>1, <1>2 DEF OptionsOf
    <2> QED BY <1>2, <2>1 DEF Waits
  <1>6. view' \in Views /\ (connected => Entries(view', found', notified'))
    <2>1. view \in Views /\ (connected => Entries(view, found, notified))
      BY DEF Registry, Views
    <2>2. CASE ~connected
      BY <2>1, <2>2 DEF ToldRemove
    <2>3. CASE connected /\ view' = ToldRemove(view, d)
      <3>1. view' = ViewRemove(view, d)
        BY <2>3 DEF ToldRemove
      <3>2. ViewRemove(view, d) \in Views
            /\ Entries(ViewRemove(view, d), found \ OptionsOf(d), notified \ {d})
        BY <2>1, <2>3, ViewRemoveEntries
      <3> QED BY <1>1, <3>1, <3>2
    <2>4. CASE connected /\ view' = view /\ d \notin notified
      <3>1. found' = found /\ notified' = notified
        BY <1>1, <1>2, <2>4 DEF OptionsOf
      <3> QED BY <2>1, <2>4, <3>1, Zenon
    <2> QED BY <2>2, <2>3, <2>4
  <1> QED BY <1>3, <1>4, <1>5, <1>6 DEF Registry, Views, Entries, Waits

LEMMA DropKeeps ==
  ASSUME Registry, Async, NEW d \in Present, Drop(d), connected' = connected
  PROVE  IInv'
  <1>1. devices \in Seq(Device) /\ d \in Device
    BY PresentDevices DEF Registry
  <1>2. /\ devices' = Without(devices, d) /\ Forget(d) /\ Abandon(d)
        /\ notified' = notified \ {d}
        /\ view' = IF d \in notified THEN ToldRemove(view, d) ELSE view
        /\ phase' = IF NullName(d, network) THEN "null_name"
                    ELSE IF d \in Range(devices') THEN "dangling" ELSE "run"
    BY DEF Drop
  <1>3. /\ devices' \in Seq(Device) /\ Present' \subseteq Present
        /\ Present \ {d} \subseteq Present'
    BY <1>1, <1>2, WithoutRange DEF Present
  <1>4. phase' # "client_assert"
    BY <1>2
  <1>5. phase' = "run" => Registry'
    BY <1>1, <1>2, <1>3, ForgetKeeps
  <1>6. Async'
    BY <1>2, <1>3 DEF Abandon, Async
  <1> QED BY <1>4, <1>5, <1>6 DEF IInv

LEMMA BlockAddKeeps ==
  ASSUME IInv, NEW d \in Block, NEW os \in Fresh(d), BlockAdd(d, os)
  PROVE  IInv'
  <1>1. /\ phase = "run" /\ Registry /\ Async /\ Discover(d, os, devices, notified, view)
        /\ requery' = requery /\ crypts' = crypts /\ connected' = connected
    BY DEF BlockAdd, IInv, async
  <1>2. /\ devices \in Seq(Device) /\ view \in Views /\ notified \subseteq Range(devices)
        /\ found \subseteq Options /\ unresolved \subseteq Options
        /\ got \in [Options -> Nat] /\ \A o \in Options : got[o] <= Len(Needs[o])
        /\ \A o \in found \cup unresolved : Owner[o] \in Range(devices)
        /\ \A o \in found : Owner[o] \in notified
        /\ connected => Entries(view, found, notified)
    BY <1>1 DEF Registry, Views, Present
  <1>3. d \in Device
    BY DEF Device
  <1>4. Registry' /\ phase' = "run" /\ Range(devices) \subseteq Present'
    BY <1>1, <1>2, <1>3, DiscoverKeeps
  <1>5. Async'
    BY <1>1, <1>4 DEF Async, Present
  <1> QED BY <1>4, <1>5 DEF IInv

(* A LUKS device has no options of its own. *)
LEMMA NoCryptOptions ==
  ASSUME NEW d \in Crypt
  PROVE  OptionsOf(d) = {} /\ d \in Device
  BY OptionAssumption DEF OptionsOf, Device

(* No option needs a device that is not a block device. *)
LEMMA AppendKeeps ==
  ASSUME Registry, NEW d \in Device \ Block, devices' = Append(devices, d)
  PROVE  /\ devices' \in Seq(Device) /\ Present' = Present \cup {d}
         /\ \A o \in unresolved : Waits(o, got, Present')
  <1>1. devices \in Seq(Device)
    BY DEF Registry
  <1>2. /\ devices' \in Seq(Device) /\ Len(devices') = Len(devices) + 1
        /\ devices'[Len(devices) + 1] = d
        /\ \A i \in 1 .. Len(devices) : devices'[i] = devices[i]
    BY <1>1
  <1>3. Present' \subseteq Present \cup {d}
    BY <1>1, <1>2 DEF Present, Range
  <1>4. Present \subseteq Present' /\ d \in Present'
    BY <1>1, <1>2 DEF Present, Range
  <1>5. ASSUME NEW o \in unresolved PROVE Waits(o, got, Present')
    <2>1. o \in Options /\ got[o] \in Nat /\ Waits(o, got, Present)
      BY DEF Registry
    <2>2. got[o] + 1 \in 1 .. Len(Needs[o]) /\ Needs[o] \in Seq(Block)
      BY <2>1, OptionAssumption DEF Waits
    <2>3. Needs[o][got[o] + 1] \in Block
      BY <2>2
    <2> QED BY <1>3, <2>1, <2>3 DEF Waits
  <1> QED BY <1>2, <1>3, <1>4, <1>5

LEMMA CryptAddKeeps ==
  ASSUME IInv, NEW d \in Crypt, CryptAdd(d)
  PROVE  IInv'
  <1>1. /\ phase = "run" /\ Registry /\ Async /\ phase' = "run"
        /\ devices' = Append(devices, d) /\ notified' = notified \cup {d}
        /\ view' = ToldAdd(view, {d}) /\ connected' = connected
        /\ found' = found /\ unresolved' = unresolved /\ got' = got
        /\ requery' = requery /\ crypts' = crypts
    BY DEF CryptAdd, IInv, async
  <1>2. d \in Device \ Block /\ OptionsOf(d) = {}
    BY NoCryptOptions, OptionAssumption
  <1>3. /\ devices' \in Seq(Device) /\ Present' = Present \cup {d}
        /\ \A o \in unresolved : Waits(o, got, Present')
    BY <1>1, <1>2, AppendKeeps
  <1>4. view' \in Views /\ (connected => Entries(view', found, notified'))
    <2>1. view \in Views /\ (connected => Entries(view, found, notified))
      BY <1>1 DEF Registry, Views
    <2>2. CASE ~connected
      BY <1>1, <2>1, <2>2 DEF ToldAdd
    <2>3. CASE connected
      <3>1. {d} \in SUBSET Device /\ \A e \in {d} : found \cap OptionsOf(e) = {}
        BY <1>2
      <3>2. view' = ViewAdd(view, {d})
        BY <1>1, <2>3 DEF ToldAdd
      <3>3. ViewAdd(view, {d}) \in Views /\ Entries(ViewAdd(view, {d}), found, notified \cup {d})
        BY <2>1, <2>3, <3>1, ViewAddEntries, SMTT(30)
      <3> QED BY <1>1, <3>2, <3>3
    <2> QED BY <2>2, <2>3
  <1>5. Registry'
    BY <1>1, <1>3, <1>4, Zenon DEF Registry, Views, Entries, Waits
  <1>6. Async'
    BY <1>1, <1>3 DEF Async
  <1> QED BY <1>1, <1>5, <1>6 DEF IInv

(* Steps that leave the registry and the client alone. *)
LEMMA QuietKeeps ==
  ASSUME IInv, phase = "run", phase' # "client_assert",
         UNCHANGED <<registry, connected, view>>,
         requery' \subseteq Present \cap Net, crypts' \subseteq Present \cap Crypt
  PROVE  IInv'
  <1>1. Registry'
    BY Zenon DEF IInv, Registry, registry, Present, Entries, Waits
  <1>2. Async'
    BY DEF Async, registry, Present
  <1> QED BY <1>1, <1>2 DEF IInv

(* A LUKS device that has been opened leaves the array, and the client. *)
LEMMA SourceGone ==
  ASSUME Registry, NEW d \in Crypt
  PROVE  /\ Without(devices, d) \in Seq(Device)
         /\ Range(Without(devices, d)) \subseteq Present
         /\ Present \ {d} \subseteq Range(Without(devices, d))
         /\ notified \ {d} \subseteq Range(Without(devices, d))
         /\ \A o \in found \cup unresolved : Owner[o] \in Range(Without(devices, d))
         /\ \A o \in found : Owner[o] \in notified \ {d}
         /\ ToldRemove(view, d) \in Views
         /\ connected => Entries(ToldRemove(view, d), found, notified \ {d})
  <1>1. d \in Device /\ OptionsOf(d) = {}
    BY NoCryptOptions
  <1>2. /\ devices \in Seq(Device) /\ notified \subseteq Present
        /\ found \subseteq Options /\ unresolved \subseteq Options
        /\ \A o \in found \cup unresolved : Owner[o] \in Present
        /\ \A o \in found : Owner[o] \in notified
        /\ view \in Views /\ (connected => Entries(view, found, notified))
    BY DEF Registry, Views
  <1>3. /\ Without(devices, d) \in Seq(Device)
        /\ Range(Without(devices, d)) \subseteq Present
        /\ Present \ {d} \subseteq Range(Without(devices, d))
    BY <1>1, <1>2, WithoutRange DEF Present
  <1>4. \A o \in found \cup unresolved : Owner[o] # d
    BY <1>1, <1>2 DEF OptionsOf
  <1>5. ToldRemove(view, d) \in Views
        /\ (connected => Entries(ToldRemove(view, d), found, notified \ {d}))
    <2>1. CASE ~connected
      BY <1>2, <2>1 DEF ToldRemove
    <2>2. CASE connected
      <3>1. ViewRemove(view, d) \in Views
            /\ Entries(ViewRemove(view, d), found \ OptionsOf(d), notified \ {d})
        BY <1>1, <1>2, <2>2, ViewRemoveEntries
      <3>2. found \ OptionsOf(d) = found
        BY <1>1
      <3> QED BY <2>2, <3>1, <3>2 DEF ToldRemove
    <2> QED BY <2>1, <2>2
  <1>6. /\ notified \ {d} \subseteq Range(Without(devices, d))
        /\ \A o \in found \cup unresolved : Owner[o] \in Range(Without(devices, d))
        /\ \A o \in found : Owner[o] \in notified \ {d}
    BY <1>2, <1>3, <1>4
  <1> QED BY <1>3, <1>5, <1>6

LEMMA CryptMappedKeeps ==
  ASSUME IInv, NEW d \in Crypt, NEW os \in Fresh(Inner[d]), CryptMapped(d, os)
  PROVE  IInv'
  <1> DEFINE ds == Without(devices, d)
             w == ToldRemove(view, d)
  <1>1. /\ phase = "run" /\ Registry /\ Async
        /\ Discover(Inner[d], os, ds, notified \ {d}, w)
        /\ requery' = requery /\ crypts' = crypts \ {d} /\ connected' = connected
    BY SMTT(30) DEF CryptMapped, IInv
  <1>2. /\ ds \in Seq(Device) /\ Present \ {d} \subseteq Range(ds)
        /\ notified \ {d} \subseteq Range(ds)
        /\ \A o \in found \cup unresolved : Owner[o] \in Range(ds)
        /\ \A o \in found : Owner[o] \in notified \ {d}
        /\ w \in Views /\ (connected => Entries(w, found, notified \ {d}))
    BY <1>1, SourceGone, SMTT(30)
  <1>3. /\ found \subseteq Options /\ unresolved \subseteq Options
        /\ got \in [Options -> Nat] /\ \A o \in Options : got[o] <= Len(Needs[o])
    BY <1>1, Zenon DEF Registry
  <1>4. Inner[d] \in Device
    BY OptionAssumption, SMTT(30) DEF Device
  <1> HIDE DEF ds, w
  <1>5. Registry' /\ phase' = "run" /\ Range(ds) \subseteq Present'
    BY <1>1, <1>2, <1>3, <1>4, DiscoverKeeps
  <1>6. Async'
    BY <1>1, <1>2, <1>5, OptionAssumption DEF Async
  <1> QED BY <1>5, <1>6 DEF IInv

LEMMA CryptMappedSkipKeeps ==
  ASSUME IInv, NEW d \in Crypt, CryptMappedSkip(d)
  PROVE  IInv'
  <1>1. /\ phase = "run" /\ Registry /\ Async /\ phase' = "run"
        /\ devices' = Without(devices, d) /\ notified' = notified \ {d}
        /\ view' = ToldRemove(view, d) /\ connected' = connected
        /\ found' = found /\ unresolved' = unresolved /\ got' = got
        /\ requery' = requery /\ crypts' = crypts \ {d}
    BY DEF CryptMappedSkip, IInv
  <1>2. /\ devices' \in Seq(Device) /\ Present' \subseteq Present
        /\ Present \ {d} \subseteq Present' /\ notified' \subseteq Present'
        /\ \A o \in found \cup unresolved : Owner[o] \in Present'
        /\ \A o \in found : Owner[o] \in notified'
        /\ view' \in Views /\ (connected => Entries(view', found, notified'))
    BY <1>1, SourceGone, SMTT(30) DEF Present
  <1>3. \A o \in unresolved : Waits(o, got, Present')
    BY <1>1, <1>2, SMTT(30) DEF Registry, Waits
  <1>4. Registry'
    BY <1>1, <1>2, <1>3 DEF Registry, Views, Entries, Waits
  <1>5. Async'
    BY <1>1, <1>2, OptionAssumption DEF Async
  <1> QED BY <1>1, <1>4, <1>5 DEF IInv

LEMMA InterfaceAddKeeps ==
  ASSUME IInv, NEW n \in Net, InterfaceAdd(n)
  PROVE  IInv'
  <1>1. /\ phase = "run" /\ Registry /\ Async /\ phase' = "run"
        /\ devices' = Append(devices, n) /\ notified' = notified
        /\ view' = view /\ connected' = connected
        /\ found' = found /\ unresolved' = unresolved /\ got' = got
        /\ requery' = requery /\ crypts' = crypts
    BY DEF InterfaceAdd, IInv
  <1>2. n \in Device \ Block
    BY OptionAssumption DEF Device
  <1>3. /\ devices' \in Seq(Device) /\ Present' = Present \cup {n}
        /\ \A o \in unresolved : Waits(o, got, Present')
    BY <1>1, <1>2, AppendKeeps
  <1>4. Registry'
    BY <1>1, <1>3 DEF Registry, Entries, Waits
  <1>5. Async'
    BY <1>1, <1>3 DEF Async
  <1> QED BY <1>1, <1>4, <1>5 DEF IInv

(* The steps that commit a context: those of users, and of the network. *)
LEMMA CommitStepKeeps ==
  ASSUME IInv, phase = "run", connected' = connected, NEW d \in Device,
         NEW os \in Fresh(d), NEW n \in {1, 2}, NEW nets, d \in Block => d \in Present,
         Commit(d, os, n, nets),
         requery' \subseteq (Present \cup {d}) \cap Net, crypts' = crypts
  PROVE  IInv'
  <1>1. Registry /\ Async
    BY DEF IInv
  <1>2. \/ phase' = "null_name"
        \/ phase' = "run" /\ Registry' /\ Present' = Present \cup {d}
    BY <1>1, CommitKeeps
  <1>3. Present' = Present \cup {d} => Async'
    BY <1>1 DEF Async
  <1> QED BY <1>2, <1>3 DEF IInv

LEMMA RequeryKeeps ==
  ASSUME IInv, NEW n \in Net, NEW again \in BOOLEAN, Requery(n, again)
  PROVE  IInv'
  <1>1. /\ phase = "run" /\ Registry /\ Async /\ phase' = "run" /\ n \in Device
        /\ Forget(n) /\ notified' = notified \ {n} /\ view' = ToldRemove(view, n)
        /\ connected' = connected /\ devices' = devices
        /\ requery' \subseteq requery /\ crypts' = crypts
    BY DEF Requery, IInv, Device
  <1>2. devices' \in Seq(Device) /\ Present' = Present
    BY <1>1 DEF Registry, Present
  <1>3. Registry'
    BY <1>1, <1>2, ForgetKeeps
  <1>4. Async'
    BY <1>1, <1>2 DEF Async
  <1> QED BY <1>1, <1>3, <1>4 DEF IInv

LEMMA InterfaceRemoveKeeps ==
  ASSUME IInv, NEW n \in Net, InterfaceRemove(n)
  PROVE  IInv'
  <1>1. phase = "run" /\ Registry /\ Async /\ connected' = connected
    BY DEF InterfaceRemove, IInv
  <1>2. CASE n \in Present
    <2>1. Drop(n)
      BY <1>2 DEF InterfaceRemove
    <2> QED BY <1>1, <1>2, <2>1, DropKeeps
  <1>3. CASE n \notin Present
    <2>1. UNCHANGED <<phase, registry, view, requery, crypts>>
      BY <1>3 DEF InterfaceRemove
    <2>2. requery' \subseteq Present \cap Net /\ crypts' \subseteq Present \cap Crypt
      BY <1>1, <2>1 DEF Async
    <2> QED BY <1>1, <2>1, <2>2, QuietKeeps
  <1> QED BY <1>2, <1>3

(* How often a device is in the array. *)
LEMMA TimesCounts ==
  ASSUME devices \in Seq(Device), NEW d
  PROVE  Times(d) \in Nat /\ (Times(d) = 0 <=> d \notin Present)
  <1> DEFINE S == {i \in DOMAIN devices : devices[i] = d}
  <1>1. DOMAIN devices = 1 .. Len(devices) /\ Len(devices) \in Nat
    OBVIOUS
  <1>2. IsFiniteSet(1 .. Len(devices))
    BY <1>1, FS_Interval
  <1>3. S \in SUBSET (1 .. Len(devices))
    BY <1>1
  <1> HIDE DEF S
  <1>4. IsFiniteSet(S)
    BY <1>2, <1>3, FS_Subset, Zenon
  <1>5. Cardinality(S) \in Nat /\ (Cardinality(S) = 0 <=> S = {})
    BY <1>4, FS_CardinalityType, FS_EmptySet
  <1>6. S = {} <=> d \notin Present
    BY DEF S, Present, Range
  <1>7. Times(d) = Cardinality(S)
    BY DEF S, Times
  <1> QED BY <1>5, <1>6, <1>7

LEMMA ReinitKeeps ==
  ASSUME IInv, Reinit
  PROVE  IInv'
  <1>1. /\ phase = "run" /\ Registry /\ phase' \in {"run", "double_free"}
        /\ devices' = <<>> /\ notified' = {} /\ found' = {} /\ unresolved' = {}
        /\ got' = [o \in Options |-> 0] /\ requery' = {} /\ crypts' = {}
        /\ connected' = connected
    BY DEF Reinit, IInv
  <1>2. view' \in Views /\ (connected => Entries(view', {}, {}))
    <2>1. /\ view \in Views /\ (connected => Entries(view, found, notified))
          /\ devices \in Seq(Device) /\ found \subseteq Options
          /\ \A o \in found : Owner[o] \in Present
      BY <1>1 DEF Registry, Views
    <2>2. CASE ~connected
      BY <2>1, <2>2 DEF Reinit
    <2>3. CASE connected
      <3>1. view' = [d \in Device |-> SubSeq(view[d], Times(d) + 1, Len(view[d]))]
        BY <2>3 DEF Reinit
      <3>2. ASSUME NEW d \in Device
            PROVE  /\ view'[d] \in Seq(SUBSET Options)
                   /\ \A i \in 1 .. Len(view'[d]) : view'[d][i] = {}
        <4> DEFINE s == view[d]
                   k == Times(d) + 1
                   t == SubSeq(s, k, Len(s))
        <4>1. Times(d) \in Nat /\ (Times(d) = 0 => found \cap OptionsOf(d) = {})
          BY <2>1, TimesCounts DEF OptionsOf
        <4>2. /\ s \in Seq(SUBSET Options) /\ Len(s) \in Nat
              /\ s # <<>> => s[1] = found \cap OptionsOf(d)
              /\ \A i \in 2 .. Len(s) : s[i] = {}
          BY <2>1, <2>3 DEF Entries, Views
        <4>3. view'[d] = t
          BY <3>1, Zenon
        <4>4. /\ k \in Nat \ {0} /\ (k = 1 => found \cap OptionsOf(d) = {})
          BY <4>1
        <4> HIDE DEF s, k
        <4>5. t = [i \in 1 .. (Len(s) - k + 1) |-> s[i + k - 1]]
          BY <4>2, <4>4
        <4>6. \A j \in k .. Len(s) : s[j] = {} /\ s[j] \in SUBSET Options
          <5> SUFFICES ASSUME NEW j \in k .. Len(s) PROVE s[j] = {}
            BY <4>2, <4>4
          <5>1. CASE j = 1
            <6>1. k = 1 /\ s # <<>>
              BY <4>2, <4>4, <5>1
            <6> QED BY <4>2, <4>4, <5>1, <6>1
          <5>2. CASE j # 1
            BY <4>2, <4>4, <5>2
          <5> QED BY <5>1, <5>2
        <4>7. CASE k <= Len(s)
          <5>1. t \in Seq(SUBSET Options) /\ Len(t) = Len(s) - k + 1
                /\ \A i \in 1 .. Len(s) - k + 1 : t[i] = s[i + k - 1]
            BY <4>2, <4>4, <4>7
          <5>2. \A i \in 1 .. Len(t) : i + k - 1 \in k .. Len(s)
            BY <4>2, <4>4, <5>1
          <5> QED BY <4>3, <4>6, <5>1, <5>2
        <4>8. CASE ~(k <= Len(s))
          <5>1. t = <<>>
            BY <4>2, <4>4, <4>5, <4>8
          <5> QED BY <4>3, <5>1
        <4> QED BY <4>7, <4>8
      <3>3. view' \in Views
        BY <3>1, <3>2 DEF Views
      <3>4. Entries(view', {}, {})
        <4> SUFFICES ASSUME NEW d \in Device
                     PROVE  /\ view'[d] # <<>> => view'[d][1] = {}
                            /\ \A i \in 2 .. Len(view'[d]) : view'[d][i] = {}
          BY DEF Entries
        <4>1. view'[d] \in Seq(SUBSET Options)
          BY <3>2
        <4>2. view'[d] # <<>> => 1 \in 1 .. Len(view'[d])
          BY <4>1
        <4> QED BY <3>2, <4>1, <4>2
      <3> QED BY <3>3, <3>4
    <2> QED BY <2>2, <2>3
  <1>3. devices' \in Seq(Device) /\ got' \in [Options -> Nat]
        /\ \A o \in Options : got'[o] <= Len(Needs[o])
    BY <1>1, OptionAssumption
  <1>4. Registry'
    BY <1>1, <1>2, <1>3 DEF Registry, Views, Entries
  <1>5. Async'
    BY <1>1 DEF Async
  <1> QED BY <1>1, <1>4, <1>5 DEF IInv

(* A client that connects is sent every device of the array, then the options. *)
LEMMA ConnectKeeps ==
  ASSUME IInv, Connect
  PROVE  IInv'
  <1> DEFINE b == [d \in Device |-> [i \in 1..Times(d) |-> {}]]
  <1>1. /\ phase = "run" /\ Registry /\ Async /\ phase' = "run" /\ connected' = TRUE
        /\ view' = ViewOptions(b, found)
        /\ devices' = devices /\ notified' = notified /\ found' = found
        /\ unresolved' = unresolved /\ got' = got
        /\ requery' = requery /\ crypts' = crypts
    BY DEF Connect, IInv, registry, async
  <1>2. /\ devices \in Seq(Device) /\ notified \subseteq Present /\ found \in SUBSET Options
        /\ \A o \in found : Owner[o] \in notified
    BY <1>1 DEF Registry
  <1>3. ASSUME NEW d \in Device
        PROVE  /\ b[d] \in Seq(SUBSET Options) /\ (d \in notified => b[d] # <<>>)
               /\ \A i \in 1 .. Len(b[d]) : b[d][i] = {}
    <2> DEFINE c == [i \in 1..Times(d) |-> {}]
    <2>1. Times(d) \in Nat /\ (d \in notified => Times(d) # 0)
      BY <1>2, TimesCounts
    <2>2. c \in Seq(SUBSET Options) /\ Len(c) = Times(d)
          /\ \A i \in 1 .. Times(d) : c[i] = {}
      BY <2>1
    <2>3. b[d] = c
      OBVIOUS
    <2> HIDE DEF c
    <2>4. d \in notified => c # <<>>
      BY <2>1, <2>2
    <2> QED BY <2>2, <2>3, <2>4
  <1>4. b \in Views
    BY <1>3 DEF Views
  <1>5. Entries(b, {}, notified)
    <2> SUFFICES ASSUME NEW d \in Device
                 PROVE  /\ d \in notified => b[d] # <<>>
                        /\ b[d] # <<>> => b[d][1] = {}
                        /\ \A i \in 2 .. Len(b[d]) : b[d][i] = {}
      BY Zenon DEF Entries
    <2> HIDE DEF b
    <2>1. b[d] \in Seq(SUBSET Options) /\ (b[d] # <<>> => 1 \in 1 .. Len(b[d]))
      BY <1>4 DEF Views
    <2>2. \A i \in 2 .. Len(b[d]) : i \in 1 .. Len(b[d])
      BY <2>1
    <2> QED BY <1>3, <2>1, <2>2
  <1> HIDE DEF b
  <1>6. ViewOptions(b, found) \in Views /\ Entries(ViewOptions(b, found), {} \cup found, notified)
    BY <1>2, <1>4, <1>5, ViewOptionsEntries
  <1>7. view' \in Views /\ Entries(view', found, notified)
    BY <1>1, <1>6
  <1>8. Registry'
    BY <1>1, <1>7 DEF Registry, Views, Present, Entries, Waits
  <1>9. Async'
    BY <1>1 DEF Async, Present
  <1> QED BY <1>1, <1>8, <1>9 DEF IInv

LEMMA DisconnectKeeps ==
  ASSUME IInv, Disconnect
  PROVE  IInv'
  <1>1. /\ phase = "run" /\ Registry /\ Async /\ phase' = "run" /\ connected' = FALSE
        /\ view' = [d \in Device |-> <<>>]
        /\ devices' = devices /\ notified' = notified /\ found' = found
        /\ unresolved' = unresolved /\ got' = got
        /\ requery' = requery /\ crypts' = crypts
    BY SMTT(30) DEF Disconnect, IInv, registry, async
  <1>2. Registry'
    BY <1>1 DEF Registry, Present, Waits
  <1>3. Async'
    BY <1>1 DEF Async, Present
  <1> QED BY <1>1, <1>2, <1>3 DEF IInv

LEMMA InitIInv ==
  ASSUME Init
  PROVE  IInv
  <1>1. Registry
    BY OptionAssumption DEF Init, Registry, Present, Range
  <1>2. Async
    BY DEF Init, Async
  <1> QED BY <1>1, <1>2 DEF Init, IInv

LEMMA BlockNextKeeps ==
  ASSUME IInv, BlockNext
  PROVE  IInv'
  <1>1. ASSUME NEW d \in Block, NEW os \in Fresh(d), BlockAdd(d, os) PROVE IInv'
    BY <1>1, BlockAddKeeps
  <1>2. ASSUME NEW d \in Crypt, CryptAdd(d) PROVE IInv'
    BY <1>2, CryptAddKeeps
  <1>3. ASSUME NEW d \in Crypt, OpenEncrypted(d) PROVE IInv'
    <2>1. /\ phase = "run" /\ phase' = "run" /\ d \in Present
          /\ UNCHANGED <<registry, connected, view>>
          /\ requery' = requery /\ crypts' = crypts \cup {d}
      BY <1>3 DEF OpenEncrypted
    <2>2. requery' \subseteq Present \cap Net /\ crypts' \subseteq Present \cap Crypt
      BY <2>1 DEF IInv, Async
    <2> QED BY <2>1, <2>2, QuietKeeps
  <1>4. ASSUME NEW d \in Crypt, OpenFailed(d) PROVE IInv'
    <2>1. /\ phase = "run" /\ phase' = "run" /\ UNCHANGED <<registry, connected, view>>
          /\ requery' = requery /\ crypts' \subseteq crypts
      BY <1>4 DEF OpenFailed
    <2>2. requery' \subseteq Present \cap Net /\ crypts' \subseteq Present \cap Crypt
      BY <2>1 DEF IInv, Async
    <2> QED BY <2>1, <2>2, QuietKeeps
  <1>5. ASSUME NEW d \in Crypt, CryptMappedSkip(d) PROVE IInv'
    BY <1>5, CryptMappedSkipKeeps
  <1>6. ASSUME NEW d \in Crypt, CryptMappedStale(d) PROVE IInv'
    BY <1>6 DEF CryptMappedStale, IInv
  <1>7. ASSUME NEW d \in Crypt, NEW os \in Fresh(Inner[d]), CryptMapped(d, os) PROVE IInv'
    BY <1>7, CryptMappedKeeps
  <1> QED BY <1>1, <1>2, <1>3, <1>4, <1>5, <1>6, <1>7 DEF BlockNext

(* No option is parsed when a load starts. *)
LEMMA NothingFresh == \A d : {} \in Fresh(d)
  BY DEF Fresh

LEMMA NetNextKeeps ==
  ASSUME IInv, NetNext
  PROVE  IInv'
  <1>0. /\ Net \subseteq Device \ Block /\ Local \subseteq Device \ Block
        /\ phase = "run" => requery \subseteq Present \cap Net /\ crypts \subseteq Present \cap Crypt
    BY OptionAssumption DEF Device, IInv, Async
  <1>1. ASSUME NEW n \in Net, InterfaceAdd(n) PROVE IInv'
    BY <1>1, InterfaceAddKeeps
  <1>2. ASSUME NEW n \in Net, InterfaceRemove(n) PROVE IInv'
    BY <1>2, InterfaceRemoveKeeps
  <1>3. ASSUME NEW n \in Net, PxeFailed(n) PROVE IInv'
    <2>1. /\ phase = "run" /\ phase' = "run" /\ UNCHANGED <<registry, connected, view>>
          /\ requery' = requery /\ crypts' = crypts
      BY <1>3 DEF PxeFailed
    <2> QED BY <1>0, <2>1, QuietKeeps
  <1>4. ASSUME NEW n \in Net, PxeStale(n) PROVE IInv'
    BY <1>4 DEF PxeStale, IInv
  <1>5. ASSUME NEW n \in Net, NEW arm \in BOOLEAN, Dhcp(n, arm) PROVE IInv'
    <2>1. /\ phase = "run" /\ connected' = connected /\ Commit(n, {}, 1, network)
          /\ requery' \subseteq requery \cup {n} /\ crypts' = crypts
      BY <1>5 DEF Dhcp
    <2>2. n \in Device /\ n \notin Block /\ requery' \subseteq (Present \cup {n}) \cap Net
      BY <1>0, <1>5, <2>1
    <2>3. {} \in Fresh(n) /\ 1 \in {1, 2}
      BY NothingFresh
    <2> QED BY <2>1, <2>2, <2>3, CommitStepKeeps
  <1>6. ASSUME NEW n \in Net, NEW again \in BOOLEAN, Requery(n, again) PROVE IInv'
    BY <1>6, RequeryKeeps
  <1>7. ASSUME NEW n \in Net, NEW os \in Fresh(n), PxeLoaded(n, os) PROVE IInv'
    <2>1. /\ phase = "run" /\ connected' = connected /\ Commit(n, os, 1, network)
          /\ requery' = requery /\ crypts' = crypts
      BY <1>7 DEF PxeLoaded
    <2>2. n \in Device /\ n \notin Block /\ requery' \subseteq (Present \cup {n}) \cap Net
          /\ 1 \in {1, 2}
      BY <1>0, <1>7, <2>1
    <2> QED BY <2>1, <2>2, CommitStepKeeps
  <1>8. ASSUME NEW d \in Local, NEW read \in BOOLEAN, NEW os \in Fresh(d), UrlLocal(d, os, read)
        PROVE  IInv'
    <2> DEFINE k == IF read THEN 2 ELSE 1
    <2>1. /\ phase = "run" /\ connected' = connected /\ Commit(d, os, k, network \ {d})
          /\ requery' = requery /\ crypts' = crypts
      BY <1>8 DEF UrlLocal
    <2>2. d \in Device /\ d \notin Block /\ requery' \subseteq (Present \cup {d}) \cap Net
          /\ k \in {1, 2}
      BY <1>0, <1>8, <2>1
    <2> HIDE DEF k
    <2> QED BY <2>1, <2>2, CommitStepKeeps
  <1>9. ASSUME UrlStart \/ UrlFailed PROVE IInv'
    <2>1. /\ phase = "run" /\ phase' = "run" /\ UNCHANGED <<registry, connected, view>>
          /\ requery' = requery /\ crypts' = crypts
      BY <1>9 DEF UrlStart, UrlFailed
    <2> QED BY <1>0, <2>1, QuietKeeps
  <1>10. ASSUME NEW d \in Net \cup Local, NEW os \in Fresh(d), UrlLoaded(d, os) PROVE IInv'
    <2>1. CASE d \in Present
      <3>1. /\ phase = "run" /\ connected' = connected /\ Commit(d, os, 2, network)
            /\ requery' = requery /\ crypts' = crypts
        BY <1>10, <2>1 DEF UrlLoaded
      <3>2. d \in Device /\ d \notin Block /\ requery' \subseteq (Present \cup {d}) \cap Net
            /\ 2 \in {1, 2}
        BY <1>0, <1>10, <3>1
      <3> QED BY <3>1, <3>2, CommitStepKeeps
    <2>2. CASE d \notin Present
      BY <1>10, <2>2 DEF UrlLoaded, IInv
    <2> QED BY <2>1, <2>2
  <1> QED BY <1>1, <1>2, <1>3, <1>4, <1>5, <1>6, <1>7, <1>8, <1>9, <1>10 DEF NetNext

LEMMA StepIInv ==
  ASSUME IInv, [Next]_vars
  PROVE  IInv'
  <1>1. CASE BlockNext
    BY <1>1, BlockNextKeeps
  <1>2. CASE NetNext
    BY <1>2, NetNextKeeps
  <1>3. ASSUME NEW d \in Device, DeviceRemove(d) PROVE IInv'
    <2>1. Registry /\ Async /\ d \in Present /\ Drop(d) /\ connected' = connected
      BY <1>3 DEF DeviceRemove, IInv
    <2> QED BY <2>1, DropKeeps
  <1>4. ASSUME NEW d \in Device, NEW os \in Fresh(d), UserAdd(d, os) PROVE IInv'
    <2> DEFINE nets == network \cup ({d} \cap (Local \ Present))
    <2>1. /\ phase = "run" /\ connected' = connected /\ Commit(d, os, 1, nets)
          /\ requery' = requery /\ crypts' = crypts /\ (d \in Block => d \in Present)
      BY <1>4 DEF UserAdd
    <2>2. requery' \subseteq (Present \cup {d}) \cap Net /\ 1 \in {1, 2}
      BY <2>1 DEF IInv, Async
    <2> HIDE DEF nets
    <2> QED BY <2>1, <2>2, CommitStepKeeps
  <1>5. CASE Reinit
    BY <1>5, ReinitKeeps
  <1>6. CASE Connect
    BY <1>6, ConnectKeeps
  <1>7. CASE Disconnect
    BY <1>7, DisconnectKeeps
  <1>8. CASE UNCHANGED vars
    <2>1. UNCHANGED <<phase, registry, connected, view, requery, crypts>>
      BY <1>8 DEF vars, async
    <2>2. CASE phase = "run"
      <3>1. requery' \subseteq Present \cap Net /\ crypts' \subseteq Present \cap Crypt
        BY <2>1, <2>2 DEF IInv, Async
      <3>2. phase' # "client_assert"
        BY <2>1 DEF IInv
      <3> QED BY <2>1, <2>2, <3>1, <3>2, QuietKeeps
    <2>3. CASE phase # "run"
      BY <2>1, <2>3 DEF IInv
    <2> QED BY <2>2, <2>3
  <1> QED BY <1>1, <1>2, <1>3, <1>4, <1>5, <1>6, <1>7, <1>8 DEF Next

(* The registry, what points into it and the client's copy stay consistent,    *)
(* whatever udev, the network, users and clients do, as long as the process    *)
(* lives.                                                                      *)
THEOREM RegistryHolds == Spec => []IInv
  BY InitIInv, StepIInv, PTL DEF Spec

(* A client that has read what it was sent has exactly the options there are,  *)
(* and every one came after its device: the assertion of boot_option_add() in  *)
(* ui/common/discover-client.c holds for any number of devices and options.    *)
THEOREM ClientsAgreeHolds == Spec => []ClientsAgree
  <1>1. ASSUME IInv PROVE ClientsAgree
    <2>1. ClientAssertion
      BY <1>1 DEF IInv, ClientAssertion
    <2>2. OptionsAgree
      <3> SUFFICES ASSUME phase = "run", connected, NEW d \in Device
                   PROVE  UNION Range(view[d]) = found \cap OptionsOf(d)
        BY DEF OptionsAgree
      <3> DEFINE s == view[d]
                 f == found \cap OptionsOf(d)
      <3>1. /\ s \in Seq(SUBSET Options) /\ Len(s) \in Nat
            /\ s # <<>> => s[1] = f
            /\ \A i \in 2 .. Len(s) : s[i] = {}
            /\ d \in notified => s # <<>>
            /\ \A o \in f : d \in notified
        BY <1>1 DEF IInv, Registry, Entries, OptionsOf
      <3> HIDE DEF s, f
      <3>2. Range(s) = {s[i] : i \in 1 .. Len(s)}
        BY <3>1 DEF Range
      <3>3. CASE s = <<>>
        <4>1. Range(s) = {}
          BY <3>1, <3>2, <3>3
        <4>2. UNION Range(s) = {}
          BY <4>1
        <4>3. f = {}
          BY <3>1, <3>3
        <4> QED BY <4>2, <4>3 DEF s, f
      <3>4. CASE s # <<>>
        <4>1. 1 \in 1 .. Len(s) /\ s[1] = f /\ \A i \in 1 .. Len(s) : s[i] \subseteq f
          <5>1. 1 \in 1 .. Len(s) /\ \A i \in 1 .. Len(s) : i = 1 \/ i \in 2 .. Len(s)
            BY <3>1, <3>4
          <5> QED BY <3>1, <3>4, <5>1
        <4>2. f \in Range(s) /\ \A e \in Range(s) : e \subseteq f
          BY <3>2, <4>1
        <4>3. UNION Range(s) = f
          BY <4>2, SMTT(30)
        <4> QED BY <4>3 DEF s, f
      <3> QED BY <3>3, <3>4
    <2> QED BY <2>1, <2>2 DEF ClientsAgree
  <1> QED BY <1>1, RegistryHolds, PTL

(* Options do not outlive their device, in the queue or on it, and the timer   *)
(* of device_handler_requery_timeout_fn() never fires for a device that is     *)
(* gone.                                                                       *)
THEOREM PointersAliveHolds == Spec => []PointersAlive
  <1>1. ASSUME IInv PROVE PointersAlive
    BY <1>1 DEF IInv, Registry, Async, PointersAlive, NoOrphanOption, TimerHasDevice
  <1> QED BY <1>1, RegistryHolds, PTL

(* No option is left in the queue with its next resource on a device that is   *)
(* there: process_boot_option_queue() runs when it must.                       *)
THEOREM QueueFreshHolds == Spec => []QueueFresh
  <1>1. ASSUME IInv PROVE QueueFresh
    BY <1>1 DEF IInv, Registry, Waits, QueueFresh
  <1> QED BY <1>1, RegistryHolds, PTL
=============================================================================
