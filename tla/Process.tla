------------------------------ MODULE Process ------------------------------
(***************************************************************************)
(* Asynchronous child processes (lib/process/process.c): the references    *)
(* that keep a struct process_info alive, the list that the handler of     *)
(* SIGCHLD walks, and the pipe a child's output is read from.  A child     *)
(* exits when it likes; everything else is a callback of the event loop,   *)
(* and `round' are the callbacks that poll() has found ready and that have *)
(* not run yet.                                                            *)
(*                                                                         *)
(* File descriptors are numbers, reused lowest first as by the kernel: a   *)
(* waiter names a number, not the pipe that was behind it.  The order of   *)
(* the list and of the waiters for output is left out.                     *)
(***************************************************************************)
EXTENDS Naturals, FiniteSets, FiniteSetsExt

CONSTANTS
    Proc,     \* structs process_info, each used once
    Keep,     \* those with keep_stdout
    Stdin,    \* those with pipe_stdin
    MaxFd,    \* file descriptors are 1 .. MaxFd
    MaxOut,   \* bound on the output of a child
    MaxSig    \* bound on the unread bytes of sigchld_pipe

ASSUME ProcAssumption == "sigchld" \notin Proc

VARIABLES
    child,    \* the child of each process: "none", "running", "zombie", "reaped"
    refs,     \* talloc references: "ctx", "list" and "waiter"; freed if none
    list,     \* procset->async_list
    exit_cb,  \* processes with an exit callback
    fd,       \* stdout_pipe[0], which is not reset when it is closed
    fds,      \* what a descriptor is: "free", "stdin", "leak" or a process' pipe
    unread,   \* output in the pipe
    lost,     \* processes whose output has gone to another one's buffer
    watch,    \* processes whose stdout_waiter is registered
    cancelled,
    sig,      \* bytes in sigchld_pipe
    round     \* callbacks of this waiter_poll() still to run

pvars == <<child, refs, list, exit_cb, fd, fds, unread, lost, watch,
          cancelled, sig, round>>

ProcessInit ==
    /\ child = [p \in Proc |-> "none"]
    /\ refs = [p \in Proc |-> {}]
    /\ list = {} /\ exit_cb = {}
    /\ fd = [p \in Proc |-> 0]
    /\ fds = [f \in 1..MaxFd |-> "free"]
    /\ unread = [p \in Proc |-> 0]
    /\ lost = {} /\ watch = {} /\ cancelled = {} /\ sig = 0 /\ round = {}

Zombies == {p \in Proc : child[p] = "zombie"}

(* The n descriptors that the next calls of pipe() return *)
Lowest(n) ==
    LET free == {f \in 1..MaxFd : fds[f] = "free"}
    IN  {f \in free : Cardinality({g \in free : g <= f}) <= n}

-----------------------------------------------------------------------------
(* How many descriptors the pipes of a process take *)
Ends(p) == (IF p \in Keep THEN 2 ELSE 0) + (IF p \in Stdin THEN 2 ELSE 0)

(* Mutant: the list takes no reference of its own. *)
RunUnreferenced(p) ==
    LET ends == Lowest(Ends(p))
    IN  /\ child[p] = "none" /\ Cardinality(ends) = Ends(p)
        /\ child' = [child EXCEPT ![p] = "running"]
        /\ refs' = [refs EXCEPT ![p] = {"ctx"} \cup (IF p \in Keep THEN {"waiter"} ELSE {})]
        /\ list' = list \cup {p}
        /\ exit_cb' = exit_cb \cup {p}
        /\ fd' = IF p \in Keep THEN [fd EXCEPT ![p] = Min(ends)] ELSE fd
        /\ fds' = [f \in 1..MaxFd |->
                     IF p \in Keep /\ f = Min(ends) THEN p
                     ELSE IF p \in Stdin /\ f = Max(ends) THEN "stdin" ELSE fds[f]]
        /\ watch' = watch \cup ({p} \cap Keep)
        /\ UNCHANGED <<unread, lost, cancelled, sig, round>>

(* process_create() and process_run_async().  Of the pipes for stdout and   *)
(* stdin the parent keeps the first and the last end; the stream of         *)
(* process_setup_stdin_parent() is never closed.                            *)
RunAsync(p) ==
    LET ends == Lowest(Ends(p))
    IN  /\ child[p] = "none" /\ Cardinality(ends) = Ends(p)
        /\ child' = [child EXCEPT ![p] = "running"]
        /\ refs' = [refs EXCEPT ![p] = {"ctx", "list"} \cup (IF p \in Keep THEN {"waiter"} ELSE {})]
        /\ list' = list \cup {p}
        /\ exit_cb' = exit_cb \cup {p}
        /\ fd' = IF p \in Keep THEN [fd EXCEPT ![p] = Min(ends)] ELSE fd
        /\ fds' = [f \in 1..MaxFd |->
                     IF p \in Keep /\ f = Min(ends) THEN p
                     ELSE IF p \in Stdin /\ f = Max(ends) THEN "stdin" ELSE fds[f]]
        /\ watch' = watch \cup ({p} \cap Keep)
        /\ UNCHANGED <<unread, lost, cancelled, sig, round>>

(* fork() or a pipe() fails in process_run_common(): the pipes that are     *)
(* there stay open, and the caller releases the process.                    *)
RunFails(p, n) ==
    /\ child[p] = "none" /\ n <= Ends(p) /\ Cardinality(Lowest(n)) = n
    /\ child' = [child EXCEPT ![p] = "reaped"]
    /\ fds' = [f \in 1..MaxFd |-> IF f \in Lowest(n) THEN "leak" ELSE fds[f]]
    /\ UNCHANGED <<refs, list, exit_cb, fd, unread, lost, watch, cancelled,
                   sig, round>>

(* process_run_sync(): the child is waited for, and all that remains of it  *)
(* is its SIGCHLD.                                                          *)
RunSync ==
    /\ sig < MaxSig
    /\ sig' = sig + 1
    /\ UNCHANGED <<child, refs, list, exit_cb, fd, fds, unread, lost, watch,
                   cancelled, round>>

(* process_stop_async(), after which the owner may drop the callback and    *)
(* release the process, as network.c does                                   *)
Stop(p, release) ==
    /\ "ctx" \in refs[p] /\ p \notin cancelled
    /\ cancelled' = cancelled \cup {p}
    /\ exit_cb' = IF release THEN exit_cb \ {p} ELSE exit_cb
    /\ refs' = IF release THEN [refs EXCEPT ![p] = @ \ {"ctx"}] ELSE refs
    /\ UNCHANGED <<child, list, fd, fds, unread, lost, watch, sig, round>>

(* process_stop_async_all() *)
StopAll ==
    /\ list # {}
    /\ cancelled' = cancelled \cup list
    /\ exit_cb' = exit_cb \ list
    /\ UNCHANGED <<child, refs, list, fd, fds, unread, lost, watch, sig,
                   round>>

-----------------------------------------------------------------------------
Output(p) ==
    /\ child[p] = "running" /\ p \in Keep
    /\ unread[p] < MaxOut
    /\ unread' = [unread EXCEPT ![p] = @ + 1]
    /\ UNCHANGED <<child, refs, list, exit_cb, fd, fds, lost, watch,
                   cancelled, sig, round>>

(* The child exits and sigchld_sigaction() writes to the pipe; a signal     *)
(* that finds the one before it still pending is merged with it.            *)
ChildExit(p) ==
    /\ child[p] = "running"
    /\ child' = [child EXCEPT ![p] = "zombie"]
    /\ sig' \in (IF sig > 0 THEN {sig} ELSE {}) \cup {n \in {sig + 1} : n <= MaxSig}
    /\ UNCHANGED <<refs, list, exit_cb, fd, fds, unread, lost, watch,
                   cancelled, round>>

(* poll() reports data, the end of the output (POLLHUP) and a descriptor    *)
(* that is closed (POLLNVAL).                                               *)
Revents(p) ==
    LET q == fds[fd[p]]
    IN  \/ q = "free"
        \/ q \in Proc /\ (unread[q] > 0 \/ child[q] # "running")

(* The write end of a pipe for stdin has an event when its reader is gone. *)
Poll(err) ==
    /\ round = {}
    /\ err \subseteq {p \in watch : fds[fd[p]] = "stdin"}
    /\ round' = {x \in {"sigchld"} : sig > 0} \cup {p \in watch : Revents(p) \/ p \in err}
    /\ round' # {}
    /\ UNCHANGED <<child, refs, list, exit_cb, fd, fds, unread, lost, watch,
                   cancelled, sig>>

(* Mutant: only one child is reaped for a signal. *)
ReapOne == {p \in Proc : list \cap Zombies # {} /\ p = CHOOSE q \in list \cap Zombies : TRUE}

(* The children that waitpid() finds in the loop of sigchld_pipe_event() *)
Reap == list \cap Zombies

(* process_read_stdout() reads the pipes of ps to their end,                *)
(* process_finish_stdout() closes them.                                     *)
ReadStdout(ps) == [p \in Proc |-> IF p \in ps THEN 0 ELSE unread[p]]
FinishStdout(ps) == [f \in 1..MaxFd |-> IF fds[f] \in ps THEN "free" ELSE fds[f]]

(* sigchld_pipe_event(), whose waiter comes first: the rest of the output   *)
(* is read, the pipe closed, and the exit callback called, which releases   *)
(* the process.  The loop goes on from the list item of a process that it   *)
(* may just have freed; the item is not overwritten in between, so it finds *)
(* the next one.                                                            *)
SigchldEvent ==
    /\ "sigchld" \in round
    /\ round' = round \ {"sigchld"}
    /\ sig' = sig - 1
    /\ child' = [p \in Proc |-> IF p \in Reap THEN "reaped" ELSE child[p]]
    /\ unread' = ReadStdout(Reap)
    /\ fds' = FinishStdout(Reap)
    /\ list' = list \ Reap
    /\ refs' = [p \in Proc |->
                  IF p \notin Reap THEN refs[p]
                  ELSE refs[p] \ (IF p \in exit_cb THEN {"ctx", "list"} ELSE {"list"})]
    /\ exit_cb' = exit_cb \ Reap
    /\ UNCHANGED <<fd, lost, watch, cancelled>>

(* process_read_stdout_once(): what is behind the descriptor is read. *)
ReadStdoutOnce(q) == IF q \in Proc THEN [unread EXCEPT ![q] = 0] ELSE unread

(* process_process_stdout(): only an error ends the waiter, the end of the  *)
(* output does not.  What it reads is the output of whoever has the         *)
(* descriptor now; on an empty pipe with a writer it blocks.                *)
StdoutEvent(p) ==
    LET q == fds[fd[p]]
    IN  /\ p \in round /\ "sigchld" \notin round
        /\ round' = round \ {p}
        /\ q \in Proc => unread[q] > 0 \/ child[q] # "running"
        /\ q # "leak"
        /\ unread' = ReadStdoutOnce(q)
        /\ lost' = IF q \in Proc \ {p} /\ unread[q] > 0 THEN lost \cup {q} ELSE lost
        /\ watch' = IF q \in Proc THEN watch ELSE watch \ {p}
        /\ refs' = IF q \in Proc THEN refs
                   ELSE [refs EXCEPT ![p] = @ \ {"waiter"}]
        /\ UNCHANGED <<child, list, exit_cb, fd, fds, cancelled, sig>>

Callback == SigchldEvent \/ \E p \in Proc : StdoutEvent(p)

ProcessNext ==
    \/ \E p \in Proc : RunAsync(p)
    \/ \E p \in Proc, n \in {0, 2, 4} : RunFails(p, n)
    \/ RunSync
    \/ \E p \in Proc, release \in BOOLEAN : Stop(p, release)
    \/ StopAll
    \/ \E p \in Proc : Output(p) \/ ChildExit(p)
    \/ \E err \in SUBSET Proc : Poll(err)
    \/ Callback

(* The event loop polls and calls what is ready, and children exit. *)
ProcessSpec ==
    /\ ProcessInit /\ [][ProcessNext]_pvars
    /\ WF_pvars(\E err \in SUBSET Proc : Poll(err))
    /\ WF_pvars(Callback)
    /\ WF_pvars(\E p \in Proc : ChildExit(p))

-----------------------------------------------------------------------------
(* A process_info on the list that sigchld_pipe_event() walks, or the       *)
(* argument of a waiter that may be called, is still allocated: releasing a *)
(* process that runs, stopping it, or an exit callback never frees it under *)
(* them.                                                                    *)
ReferencesHeld ==
    \A p \in list \cup watch \cup (round \ {"sigchld"}) : refs[p] # {}

(* "More than 1 async process may have finished. Check them all."  However  *)
(* many children exit together, and however their signals merge, each of    *)
(* them is reaped, unless the daemon hangs in a pipe of a child that could  *)
(* not be forked.                                                           *)
ExitNoticed ==
    \A p \in Proc :
        child[p] = "zombie" ~>
            child[p] = "reaped" \/ \E f \in 1..MaxFd : fds[f] = "leak"

(* The comment in sigchld_pipe_event(), "ensure we have all of the child's  *)
(* stdout": what a child has written is in its process' buffer when the     *)
(* exit callback runs, and never in another process' buffer.  Refuted: the  *)
(* descriptor of one child may be that of the next while its waiter is      *)
(* still in the set.                                                        *)
OutputComplete == lost = {}
=============================================================================
