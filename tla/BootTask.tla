------------------------------ MODULE BootTask ------------------------------
(***************************************************************************)
(* One boot task (discover/boot.c) and the downloads of its resources      *)
(* (discover/paths.c): boot(), boot_process(), boot_cancel(), the queue of *)
(* downloads that wait for the network, and what the exit of a download    *)
(* process does.  The device handler is reduced to the pointer it keeps    *)
(* and to the calls it makes.                                              *)
(*                                                                         *)
(* An action is one callback of the event loop.  Processes the daemon      *)
(* waits for (hooks, kexec, shutdown) run inside the callback.             *)
(***************************************************************************)
EXTENDS Naturals, FiniteSets

CONSTANTS
    Basic,       \* kernel image, initrd, dtb: loaded in this order ...
    Rank,        \* ... of their ranks
    Image,       \* the one a boot cannot do without
    Signatures   \* signature files, each loaded whatever the others did

ASSUME RankAssumption == Rank \in [Basic -> Nat]

Resources == Basic \cup Signatures

VARIABLES
    phase,      \* "running", "terminated" by a signal, "undefined" behaviour
    task,       \* "none", "active", "ended", "cancelled", "freed"
    wanted,     \* task->resources
    result,     \* resource->result->status, or "null", or "dangling"
    loader,     \* where the download of a resource is
    cleanup_local, \* resources whose result->local is a temporary file
    tmpfile,    \* those whose temporary file exists
    kexec,      \* "no", "loaded", "rebooting"
    held        \* handler->pending_boot points to the task

bvars == <<phase, task, wanted, result, loader, cleanup_local, tmpfile, kexec,
          held>>

TaskInit ==
    /\ phase = "running"
    /\ task = "none"
    /\ wanted = {}
    /\ result = [r \in Resources |-> "null"]
    /\ loader = [r \in Resources |-> "none"]
    /\ cleanup_local = {} /\ tmpfile = {}
    /\ kexec = "no"
    /\ held = FALSE

Running == phase = "running"

-----------------------------------------------------------------------------
(* cleanup_load() for all resources: what is left of `files' *)
CleanupLoads(res, files) ==
    {r \in files : ~(res[r] = "ok" /\ r \in cleanup_local')}

(* Mutant: the task is freed without waiting for the loads it cancels. *)
CleanupCancellationsEager(res, ld, files, cur) ==
    /\ result' = [r \in Resources |->
                     IF res[r] = "async" /\ r \notin cur THEN "cancelled"
                     ELSE res[r]]
    /\ tmpfile' = CleanupLoads(res, files)
    /\ task' = "freed"
    /\ UNCHANGED phase

(* cleanup_cancellations() on the results `res' and downloads `ld', called  *)
(* for the completion of `cur'.  Completed loads are unlinked, those in     *)
(* progress are cancelled; the task is freed when nothing is pending.  A    *)
(* queued download has no process yet, so process_stop_async() sends        *)
(* SIGTERM to pid 0: the process group of the daemon.                       *)
CleanupCancellations(res, ld, files, cur) ==
    /\ result' = [r \in Resources |->
                     IF res[r] = "async" /\ r \notin cur THEN "cancelled"
                     ELSE res[r]]
    /\ tmpfile' = CleanupLoads(res, files)
    /\ task' = IF \E r \in wanted' \ cur : res[r] \in {"async", "cancelled"}
               THEN "cancelled" ELSE "freed"
    /\ phase' = IF \E r \in wanted' : res[r] = "dangling" THEN "undefined"
                ELSE IF \E r \in wanted' : /\ res[r] = "async"
                                           /\ ld[r] = "queued"
                THEN "terminated" ELSE phase

(* boot_process() once no load is pending: check_load() stops at the first  *)
(* failure; hooks; preboot_check(), whose failure skips the cleanup;        *)
(* kexec_load(); the temporary files are unlinked; kexec_reboot().          *)
BootProcessEnd(res, files) ==
    /\ task' = "ended"
    /\ \/ /\ \E r \in wanted' : res[r] = "error"
          /\ UNCHANGED kexec
          /\ tmpfile' = CleanupLoads(res, files)
       \/ /\ \A r \in wanted' : res[r] # "error"
          /\ \/ tmpfile' = files /\ UNCHANGED kexec
             \/ /\ tmpfile' = CleanupLoads(res, files)
                /\ kexec' \in {"no", "loaded", "rebooting"}

(* Mutants: a load in progress is not waited for; a failed one is. *)
LoadPendingNull(res, r) == res[r] = "null"
LoadPendingError(res, r) == res[r] \in {"null", "async", "error"}

LoadPending(res, r) == res[r] \in {"null", "async"}

-----------------------------------------------------------------------------
(* Outcomes of load_url_async(): a local file, a download process, a place  *)
(* in the queue of jobs that wait for the network, or an error.             *)
Outcomes == {"local", "process", "queued", "fail"}

(* The loads of image, initrd and dtb are joined by ||, those of the        *)
(* signature files by |=.                                                   *)
Started(want, out, r) ==
    \/ r \in Signatures
    \/ \A q \in want \cap Basic : Rank[q] < Rank[r] => out[q] # "fail"

(* boot(): with no image or no command line signature nothing is created.   *)
Boot(want, out) ==
    /\ Running /\ task = "none"
    /\ Image \in want
    /\ wanted' = want
    /\ LET started == {r \in want : Started(want, out, r)}
           res == [r \in Resources |->
                      IF r \notin started \/ out[r] = "fail" THEN "null"
                      ELSE IF out[r] = "local" THEN "ok" ELSE "async"]
           ld == [r \in Resources |->
                      IF r \in started /\ out[r] \in {"process", "queued"}
                      THEN out[r] ELSE "none"]
           files == {r \in started : out[r] = "process"}
       IN  /\ cleanup_local' = files
           /\ IF \E r \in started : out[r] = "fail"
              THEN /\ CleanupCancellations(res, ld, files, {})
                   /\ loader' = ld
                   /\ held' = FALSE
                   /\ UNCHANGED kexec
              ELSE /\ result' = res
                   /\ loader' = ld
                   /\ held' = TRUE
                   /\ UNCHANGED phase
                   /\ IF \E r \in want : LoadPending(res, r)
                      THEN task' = "active" /\ tmpfile' = files /\ UNCHANGED kexec
                      ELSE BootProcessEnd(res, files)

(* load_url_process_exit(), then boot_process() as the load's callback.     *)
(* The status check_load() reports makes the handler drop its pointer.      *)
ProcessExit(r, exit_ok) ==
    /\ Running
    /\ loader[r] = "process"
    /\ UNCHANGED <<wanted, cleanup_local>>
    /\ LET res == [result EXCEPT ![r] =
                      IF @ = "cancelled" THEN @
                      ELSE IF exit_ok THEN "ok" ELSE "error"]
           ld == [loader EXCEPT ![r] = "none"]
           files == IF res[r] = "ok" THEN tmpfile ELSE tmpfile \ {r}
       IN  IF task = "cancelled"
           THEN /\ CleanupCancellations(res, ld, files, {r})
                /\ loader' = ld
                /\ UNCHANGED <<kexec, held>>
           ELSE /\ result' = res
                /\ loader' = ld
                /\ IF \E q \in wanted : res[q] = "dangling"
                   THEN /\ phase' = "undefined"
                        /\ UNCHANGED <<task, tmpfile, kexec, held>>
                   ELSE IF \E q \in wanted : LoadPending(res, q)
                   THEN tmpfile' = files /\ UNCHANGED <<phase, task, kexec, held>>
                   ELSE /\ BootProcessEnd(res, files)
                        /\ held' = FALSE
                        /\ UNCHANGED phase

(* pending_network_jobs_start(): an address was configured.  A job that     *)
(* cannot start frees its result, still the resource's, and calls nobody.   *)
NetworkUp(fail) ==
    /\ Running
    /\ LET queued == {r \in Resources : loader[r] = "queued"}
       IN  /\ queued # {} /\ fail \subseteq queued
           /\ loader' = [r \in Resources |->
                            IF r \in fail THEN "none"
                            ELSE IF r \in queued THEN "process" ELSE loader[r]]
           /\ result' = [r \in Resources |->
                            IF r \in fail THEN "dangling"
                            ELSE IF r \in queued THEN "async" ELSE result[r]]
           /\ tmpfile' = tmpfile \cup (queued \ fail)
           /\ cleanup_local' = cleanup_local \cup (queued \ fail)
    /\ UNCHANGED <<phase, task, wanted, kexec, held>>

(* Mutant: the task is not marked. *)
CancelUnmarked ==
    /\ Running /\ held
    /\ held' = FALSE
    /\ UNCHANGED <<phase, task, wanted, result, loader, cleanup_local,
                   tmpfile, kexec>>

(* boot_cancel(), called by the handler for the boot it holds. *)
Cancel ==
    /\ Running /\ held
    /\ UNCHANGED <<wanted, loader, cleanup_local, kexec>>
    /\ held' = FALSE
    /\ CleanupCancellations(result, loader, tmpfile, {})

(* device_handler_reinit(): the boot is cancelled, process_stop_async_all() *)
(* takes the exit callbacks away, pending_network_jobs_cancel() drops the   *)
(* queue.                                                                   *)
Reinit ==
    /\ Running
    /\ UNCHANGED <<wanted, cleanup_local, kexec>>
    /\ held' = FALSE
    /\ loader' = [r \in Resources |->
                     IF loader[r] = "process" THEN "orphan"
                     ELSE IF loader[r] = "queued" THEN "none" ELSE loader[r]]
    /\ IF held THEN CleanupCancellations(result, loader, tmpfile, {})
       ELSE UNCHANGED <<phase, task, result, tmpfile>>

TaskNext ==
    \/ \E want \in SUBSET Resources, out \in [Resources -> Outcomes] :
           Boot(want, out)
    \/ \E r \in Resources, exit_ok \in BOOLEAN : ProcessExit(r, exit_ok)
    \/ \E fail \in SUBSET Resources : NetworkUp(fail)
    \/ Cancel
    \/ Reinit

TaskSpec == TaskInit /\ [][TaskNext]_bvars

(* A download process ends; the network comes up. *)
Fairness ==
    /\ \A r \in Resources : WF_bvars(\E exit_ok \in BOOLEAN : ProcessExit(r, exit_ok))
    /\ WF_bvars(\E fail \in SUBSET Resources : NetworkUp(fail))

FairTaskSpec == TaskSpec /\ Fairness
-----------------------------------------------------------------------------
(* The task, its results and its downloads keep their types. *)
TaskTypeOK ==
    /\ phase \in {"running", "terminated", "undefined"}
    /\ task \in {"none", "active", "ended", "cancelled", "freed"}
    /\ wanted \subseteq Resources
    /\ result \in [Resources -> {"null", "ok", "error", "async", "cancelled",
                                 "dangling"}]
    /\ loader \in [Resources -> {"none", "process", "queued", "orphan"}]
    /\ cleanup_local \subseteq Resources
    /\ tmpfile \subseteq cleanup_local
    /\ kexec \in {"no", "loaded", "rebooting"}
    /\ held \in BOOLEAN

(* A kernel is only handed to kexec by a boot that was not cancelled, when  *)
(* every resource it needs, signatures included, was loaded, and the file   *)
(* of every download is still there.                                        *)
KexecOfComplete ==
    kexec' # kexec => /\ task \in {"none", "active"}
                      /\ \A r \in wanted' : result'[r] = "ok"
                      /\ cleanup_local \subseteq tmpfile
KexecComplete == [][KexecOfComplete]_bvars

(* boot_cancel() and boot() free the task, with the load tasks and queued   *)
(* jobs that hang off it, only when no download will call boot_process()    *)
(* with it any more.                                                        *)
FreedTaskQuiet ==
    Running /\ task = "freed"
        => \A r \in Resources : loader[r] \in {"none", "orphan"}

(* A boot that was cancelled, or failed to start, and is freed leaves no    *)
(* temporary file behind, whichever of its downloads had completed.         *)
NoTempLeft ==
    task = "freed" => \A r \in tmpfile : loader[r] = "orphan"

(* The handler never holds a pointer to a task that was freed or that is    *)
(* being cancelled: it can neither cancel one twice nor touch a freed one.  *)
HeldTaskAlive == held => task \in {"active", "ended"}

(* A load in progress is always waited for by a process or by the queue:    *)
(* with no reinit and no failure of a queued job, the callback that ends    *)
(* the boot will come.                                                      *)
ActiveIsWaitedFor ==
    Running /\ task = "active" /\ (\A r \in Resources : result[r] # "dangling")
        => \E r \in wanted : loader[r] \in {"process", "queued"}

(* What boot.c and the handler know of a task and its downloads agrees, in  *)
(* whichever order they complete, fail, are cancelled and are queued: the   *)
(* four statements above.                                                   *)
TaskAccounted == FreedTaskQuiet /\ NoTempLeft /\ HeldTaskAlive /\ ActiveIsWaitedFor

(* A boot whose downloads have all started comes to an end. *)
BootEnds ==
    (/\ task = "active"
     /\ \A r \in wanted : result[r] # "dangling" /\ loader[r] # "queued")
        ~> task # "active"

Abstract == INSTANCE BootJob
    WITH job <- CASE task = "active" -> "loading"
                  [] task \in {"none", "ended"} -> task
                  [] OTHER -> "cancelled"
(* A boot task implements the job the device handler relies on.             *)
JobSpec == Abstract!JSpec

-----------------------------------------------------------------------------
(* What comments say and the code does not do.                              *)

(* "if we're waiting for a cancellation, we still need to wait for the      *)
(* completion before freeing the boot task" (cleanup_cancellations): once   *)
(* every cancelled load has completed, the task is freed.                   *)
CancelledTaskFreed ==
    Running /\ task = "cancelled" => \E r \in wanted : loader[r] # "none"

(* "Avoid signalling an old pid" (process_stop_async): cancelling a load    *)
(* signals the process of that load only.  Refuted: a queued load has none, *)
(* and kill() is called with 0.                                             *)
OnlyOwnProcessSignalled == phase # "terminated"

(* LOAD_ERROR is "signalled to async loaders" (paths.h): a boot whose       *)
(* downloads fail is told, and ends.  Refuted: a queued download that       *)
(* cannot start is dropped without a callback.                              *)
EveryBootEnds == task = "active" ~> (task # "active" \/ ~Running)
=============================================================================
