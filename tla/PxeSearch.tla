------------------------------ MODULE PxeSearch ------------------------------
(***************************************************************************)
(* The configuration files of network boots: pxe_parse() and its callback  *)
(* (discover/pxe-parser.c), configuration URLs given by the user           *)
(* (device_handler_process_url of discover/device-handler.c), and the      *)
(* asynchronous loads under them with their queue of jobs that wait for    *)
(* the network (discover/paths.c).                                         *)
(*                                                                         *)
(* A search is one conf_context: "auto" tries the names of a lease one     *)
(* after the other, "conf" loads the one file a lease names, "url" loads   *)
(* the user's file and then parses the copy.  Searches run side by side:   *)
(* every lease starts one.  What parsing commits to the device is in       *)
(* DeviceHandler, how names become URLs in Url.                            *)
(***************************************************************************)
EXTENDS Naturals, Sequences, FiniteSets

CONSTANTS
    Searches,
    Names      \* pxe_conf_files of a lease: 1 .. Names

VARIABLES
    life,     \* "run", or the pointer to freed memory that was followed
    srch,     \* the searches
    queue,    \* pending_network_jobs: searches and names
    up        \* the names of servers can be resolved

pxevars == <<life, srch, queue, up>>

File == 1 .. Names

(* kind: what started the search; numeric: its server is an address, not a *)
(* name; current: as in pxe_parser_info; load and outcome of each name;    *)
(* conf: the conf_context (the event, for "url"); told: the user was told  *)
(* of the failure; tmp: the names with a temporary file on disk.           *)
NoSearch(n) ==
    [kind |-> "none", numeric |-> n, current |-> 1,
     load |-> [f \in File |-> "none"], outcome |-> [f \in File |-> "none"],
     conf |-> "none", told |-> FALSE, tmp |-> {}]

PxeInit ==
    /\ life = "run"
    /\ srch \in [Searches -> {NoSearch(n) : n \in BOOLEAN}]
    /\ queue = <<>>
    /\ up = FALSE

Run == life = "run"

-----------------------------------------------------------------------------
(* load_url_async() of a name: queued while the server's name cannot be    *)
(* resolved; otherwise a process with its temporary file, or nothing.      *)
Ways(s) == IF s.numeric \/ up THEN {"process", "nostart"} ELSE {"queued"}

LoadUrl(s, f, way) ==
    CASE way = "process" -> [s EXCEPT !.load[f] = "process", !.tmp = @ \cup {f}]
      [] way = "queued" -> [s EXCEPT !.load[f] = "queued"]
      [] way = "nostart" -> [s EXCEPT !.outcome[f] = "failed"]

Fail(s, from, to) ==
    [s EXCEPT !.outcome = [f \in File |-> IF f \in from .. to THEN "failed" ELSE s.outcome[f]]]

(* Mutant: the loop goes on after a load that was started. *)
LoadNextFilenameAll(s) ==
    IF s.current >= Names \/ "queued" \in Ways(s) THEN {[s EXCEPT !.current = Names + 1]}
    ELSE {LoadUrl(LoadUrl([s EXCEPT !.current = Names + 1], s.current, "process"), Names, "process")}

(* pxe_load_next_filename(): from the current name on, the first load that *)
(* starts or is queued; the possible results.                              *)
LoadNextFilename(s) ==
    {LoadUrl([Fail(s, s.current, n - 1) EXCEPT !.current = n], n, way) :
        n \in IF "nostart" \in Ways(s) THEN s.current .. Names
              ELSE {s.current} \cap File,
        way \in Ways(s) \ {"nostart"}}
    \cup (IF s.current > Names \/ "nostart" \in Ways(s)
          THEN {[Fail(s, s.current, Names) EXCEPT !.current = Names + 1]} ELSE {})

(* pxe_parse() and device_handler_process_url().  With names to try, a     *)
(* search none of whose loads starts keeps its context and reports         *)
(* nothing.  With one file, the context is freed when the load does not    *)
(* start, and the user is told of a URL they gave.                         *)
Begin(s, k) ==
    LET new == [s EXCEPT !.kind = k, !.conf = "held"]
    IN  IF k = "auto" THEN LoadNextFilename(new)
        ELSE {IF way = "nostart"
              THEN [LoadUrl(new, 1, way) EXCEPT !.conf = "freed", !.told = (k = "url")]
              ELSE LoadUrl(new, 1, way) : way \in Ways(s)}

\* The jobs in the queue after search r became s.
Queued(q, r, s) ==
    LET f == {g \in File : s.load[g] = "queued" /\ <<r, g>> \notin {q[i] : i \in DOMAIN q}}
    IN  IF f = {} THEN q ELSE Append(q, <<r, CHOOSE g \in f : TRUE>>)

(* pending_network_jobs_start(): every job in the queue becomes a process, *)
(* or, for those in bad, fails to start: then its load and the job are     *)
(* freed, the callback is not called, and the job is unlinked from the     *)
(* queue after it was freed.                                               *)
StartPending(ss, q, bad) ==
    [r \in Searches |->
        LET mine == {f \in File : <<r, f>> \in {q[i] : i \in DOMAIN q}}
        IN  [ss[r] EXCEPT
               !.load = [f \in File |-> IF f \notin mine THEN @[f]
                                        ELSE IF <<r, f>> \in bad THEN "none" ELSE "process"],
               !.tmp = @ \cup {f \in mine : <<r, f>> \notin bad}]]

Unlinked(bad) == IF bad = {} THEN UNCHANGED life ELSE life' \in {life, "stale_job"}

-----------------------------------------------------------------------------
\* device_handler_dhcp(): the queue is started, then the parser runs.
Lease(r, k) ==
    /\ Run /\ srch[r].kind = "none"
    /\ \E bad \in SUBSET {queue[i] : i \in DOMAIN queue} :
         LET ss == StartPending(srch, queue, bad)
         IN  \E s \in Begin(ss[r], k) :
               /\ srch' = [ss EXCEPT ![r] = s]
               /\ queue' = Queued(<<>>, r, s)
               /\ Unlinked(bad)
    /\ UNCHANGED up

\* configure_interface_static(): the interface's URL, then the queue.
StaticConfig(r, k) ==
    /\ Run /\ srch[r].kind = "none"
    /\ \E s \in Begin(srch[r], k) :
         LET q == Queued(queue, r, s)
         IN  \E bad \in SUBSET {q[i] : i \in DOMAIN q} :
               /\ srch' = StartPending([srch EXCEPT ![r] = s], q, bad)
               /\ queue' = <<>>
               /\ Unlinked(bad)
    /\ UNCHANGED up

\* A URL of the user, or of an interface that is queried again.
ProcessUrl(r, k) ==
    /\ Run /\ srch[r].kind = "none"
    /\ \E s \in Begin(srch[r], k) :
         /\ srch' = [srch EXCEPT ![r] = s]
         /\ queue' = Queued(queue, r, s)
    /\ UNCHANGED <<life, up>>

\* The base URL of the search is a local directory: load_local() calls back
\* before load_url_async() returns, and the callback frees the context, the
\* parent of the load, whether a file was found or not.
LocalDirectory(r) ==
    /\ Run /\ srch[r].kind = "none"
    /\ srch' = [srch EXCEPT ![r].kind = "auto", ![r].conf = "freed"]
    /\ life' = "stale_task"
    /\ UNCHANGED <<queue, up>>

\* load_url_process_exit() frees the load; pxe_conf_parse_cb() parses the
\* file, removes the copy and frees the context.
Parsed(r, f) ==
    /\ Run /\ srch[r].load[f] = "process" /\ srch[r].kind # "url"
    /\ srch' = [srch EXCEPT ![r].load[f] = "none", ![r].outcome[f] = "parsed",
                            ![r].conf = "freed", ![r].tmp = @ \ {f}]
    /\ life' = IF srch[r].conf = "freed" THEN "stale_conf" ELSE life
    /\ UNCHANGED <<queue, up>>

\* pxe_conf_parse_cb() after a failure: the next name, or, after the last,
\* the user is told and the context freed.
NextFilename(s) ==
    {IF t.current > Names THEN [t EXCEPT !.told = TRUE, !.conf = "freed"] ELSE t :
        t \in LoadNextFilename([s EXCEPT !.current = @ + 1])}

\* The download failed, and its copy was removed; or the copy cannot be
\* read, and stays.  A file named by the lease is the only one: the user is
\* told and the context stays.
PxeFailed(r, f, unread) ==
    /\ Run /\ srch[r].load[f] = "process" /\ srch[r].kind # "url"
    /\ LET s == [srch[r] EXCEPT !.load[f] = "none", !.outcome[f] = "failed",
                                !.tmp = IF unread THEN @ ELSE @ \ {f}]
       IN  \E t \in IF s.kind = "auto" THEN NextFilename(s) ELSE {[s EXCEPT !.told = TRUE]} :
             /\ srch' = [srch EXCEPT ![r] = t]
             /\ queue' = Queued(queue, r, t)
    /\ life' = IF srch[r].conf = "freed" THEN "stale_conf" ELSE life
    /\ UNCHANGED up

\* process_url_cb(): the copy is parsed as a local file, within the
\* callback, and stays on disk.  If it cannot be read the user is told.
UrlLoaded(r, unread) ==
    /\ Run /\ srch[r].load[1] = "process" /\ srch[r].kind = "url"
    /\ srch' = [srch EXCEPT ![r] = [@ EXCEPT !.load[1] = "none", !.conf = "freed", !.told = unread,
                                      !.outcome[1] = IF unread THEN "failed" ELSE "parsed"]]
    /\ UNCHANGED <<life, queue, up>>

\* The download failed: the event stays, nobody is told.
UrlFailed(r) ==
    /\ Run /\ srch[r].load[1] = "process" /\ srch[r].kind = "url"
    /\ srch' = [srch EXCEPT ![r].load[1] = "none", ![r].outcome[1] = "failed", ![r].tmp = {}]
    /\ UNCHANGED <<life, queue, up>>

\* device_handler_reinit(): the exit callbacks of running loads are taken
\* away, the queue is dropped.  The contexts and the copies stay.
PxeReinit ==
    /\ Run
    /\ srch' = [r \in Searches |-> [srch[r] EXCEPT !.load = [f \in File |-> "none"]]]
    /\ queue' = <<>>
    /\ UNCHANGED <<life, up>>

\* The resolver starts or stops answering.
Resolver == Run /\ up' = ~up /\ UNCHANGED <<life, srch, queue>>

PxeNext ==
    \/ \E r \in Searches :
         \/ \E k \in {"auto", "conf"} : Lease(r, k)
         \/ \E k \in {"auto", "url"} : StaticConfig(r, k) \/ ProcessUrl(r, k)
         \/ LocalDirectory(r)
         \/ \E f \in File : Parsed(r, f) \/ (\E unread \in BOOLEAN : PxeFailed(r, f, unread))
         \/ \E unread \in BOOLEAN : UrlLoaded(r, unread)
         \/ UrlFailed(r)
    \/ PxeReinit
    \/ Resolver

PxeSpec == PxeInit /\ [][PxeNext]_pxevars

-----------------------------------------------------------------------------
\* pxe_conf_parse_cb() parses "the first successfully downloaded file": a
\* name is tried only when every name before it has failed, so none is tried
\* after the one that was parsed; and the user is told that a search failed
\* only when every name of it did.
FilesInOrder ==
    \A r \in Searches :
      LET s == srch[r]
      IN  /\ \A f \in File : s.load[f] # "none" \/ s.outcome[f] # "none"
                               => \A g \in 1 .. f - 1 : s.outcome[g] = "failed"
          /\ s.told /\ s.kind = "auto" => \A f \in File : s.outcome[f] = "failed"

\* The context that a callback is going to use is there while a load that
\* will call back is running or queued, across reinitialisation and the
\* start of the queue (pxe-parser.c, paths.c).
ContextHeld ==
    \A r \in Searches : (\E f \in File : srch[r].load[f] # "none") => srch[r].conf = "held"

\* A callback finds the context it is to go on with, and goes on in order.
SearchesSound == FilesInOrder /\ ContextHeld
=============================================================================
