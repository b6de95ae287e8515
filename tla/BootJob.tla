------------------------------ MODULE BootJob -------------------------------
(***************************************************************************)
(* What the device handler relies on when it calls boot() and              *)
(* boot_cancel(): a boot ends at most once, kexec is only reached from a   *)
(* boot that was not cancelled, and the pointer the handler keeps as       *)
(* handler->pending_boot is never one to a freed task.  Autoboot.tla is    *)
(* written in these terms; BootTask.tla implements them.                   *)
(***************************************************************************)
VARIABLES
    job,        \* "none", "loading", "ended", "cancelled"
    kexec,      \* what was done with the new kernel
    held        \* the handler holds the pointer boot() returned

jvars == <<job, kexec, held>>

JInit == job = "none" /\ kexec = "no" /\ held = FALSE

(* The boot runs to its end, in boot() itself or in a completion callback. *)
JEnd ==
    /\ job' = "ended"
    /\ kexec' \in {"no", "loaded", "rebooting"}

(* boot() fails, starts downloads, or boots from local files. *)
JStart ==
    /\ job = "none"
    /\ \/ job' = "cancelled" /\ held' = FALSE /\ UNCHANGED kexec
       \/ job' = "loading" /\ held' = TRUE /\ UNCHANGED kexec
       \/ JEnd /\ held' = TRUE

(* The last download ends; an error status makes the handler let go. *)
JComplete == job = "loading" /\ JEnd /\ held' = FALSE

(* boot_cancel() *)
JCancel ==
    /\ held /\ job \in {"loading", "ended"}
    /\ job' = "cancelled"
    /\ held' = FALSE
    /\ UNCHANGED kexec

JNext == JStart \/ JComplete \/ JCancel

JSpec == JInit /\ [][JNext]_jvars
=============================================================================
