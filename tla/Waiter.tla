------------------------------- MODULE Waiter -------------------------------
(***************************************************************************)
(* The event loop (lib/waiter/waiter.c).  waiter_poll() copies the         *)
(* registered waiters, polls, and calls the callbacks of the copy; a       *)
(* callback may register and remove any waiters, those of the copy         *)
(* included.  Removed waiters are only freed at the end of waiter_poll().  *)
(*                                                                         *)
(* One action is one callback, together with what waiter_poll() does       *)
(* around it.  Order within the arrays is left out: a set stands for each. *)
(***************************************************************************)
EXTENDS Naturals

CONSTANTS
    Addr,      \* addresses talloc may return for a struct waiter
    Delays,    \* delays of timeouts
    MaxTime    \* bound on the clock

ASSUME TimeAssumption == Delays \subseteq Nat /\ MaxTime \in Nat

VARIABLES
    pc,         \* where waiter_poll() is: "setup", "idle", "io", "time"
    alloc,      \* allocated waiters
    waiters,    \* set->waiters
    active,     \* those with waiter->active
    free_list,  \* set->free_list
    type,       \* waiter->type
    timeout,    \* waiter->timeout
    now,        \* gettimeofday()
    sample,     \* the time taken before the timers are visited
    io_todo,    \* entries of set->io_waiters, with revents, still to be visited
    time_todo   \* entries of set->time_waiters still to be visited

wvars == <<pc, alloc, waiters, active, free_list, type, timeout, now, sample,
          io_todo, time_todo>>

(* waitset_create() *)
WaiterInit ==
    /\ pc = "setup"
    /\ alloc = {} /\ waiters = {} /\ active = {} /\ free_list = {}
    /\ type = [w \in Addr |-> "io"]
    /\ timeout = [w \in Addr |-> 0]
    /\ now = 0 /\ sample = 0
    /\ io_todo = {} /\ time_todo = {}

(* What talloc() may return *)
Unused == Addr \ alloc

TimeWaiters == {w \in waiters : type[w] = "time"}

-----------------------------------------------------------------------------

(* waiter_new() for waiter_register_io() of `io' and for                    *)
(* waiter_register_timeout() of `tm'                                        *)
Register(io, tm, delay) ==
    /\ io \cap tm = {}
    /\ alloc' = alloc \cup io \cup tm
    /\ type' = [w \in Addr |-> IF w \in io THEN "io"
                               ELSE IF w \in tm THEN "time" ELSE type[w]]
    /\ timeout' = [w \in Addr |-> IF w \in tm THEN now + delay ELSE timeout[w]]

(* waiter_remove() of `rem' after the registration of `add' *)
Update(add, rem) ==
    /\ waiters' = (waiters \cup add) \ rem
    /\ active' = (active \cup add) \ rem
    /\ free_list' = free_list \cup rem

(* Registrations before the first waiter_poll() *)
Setup(io, tm, delay) ==
    /\ pc = "setup"
    /\ Register(io, tm, delay)
    /\ Update(io \cup tm, {})
    /\ UNCHANGED <<pc, now, sample, io_todo, time_todo>>

(* update_waiters() and poll(): `ready' are the waiters with revents.       *)
WaiterPoll(ready) ==
    /\ pc \in {"setup", "idle"}
    /\ ready \subseteq waiters \ TimeWaiters
    /\ ready = {} => \E w \in TimeWaiters : timeout[w] <= now
    /\ pc' = "io"
    /\ io_todo' = ready
    /\ time_todo' = TimeWaiters
    /\ UNCHANGED <<alloc, waiters, active, free_list, type, timeout, now,
                   sample>>

(* A waiter of the copy that has been removed meanwhile, or has not expired *)
SkipIo(w) ==
    /\ pc = "io" /\ w \in io_todo /\ w \notin active
    /\ io_todo' = io_todo \ {w}
    /\ UNCHANGED <<pc, alloc, waiters, active, free_list, type, timeout, now,
                   sample, time_todo>>

(* A callback that returns non-zero is removed, so it must not have removed *)
(* itself.                                                                  *)
IoCallback(w, rc, io, tm, rem, delay) ==
    /\ pc = "io" /\ w \in io_todo /\ w \in active
    /\ rem \subseteq waiters
    /\ rc => w \notin rem
    /\ Register(io, tm, delay)
    /\ Update(io \cup tm, IF rc THEN rem \cup {w} ELSE rem)
    /\ io_todo' = io_todo \ {w}
    /\ UNCHANGED <<pc, now, sample, time_todo>>

(* Mutant: the free list is freed before the timers are visited. *)
StartTimersFrees ==
    /\ pc = "io" /\ io_todo = {}
    /\ pc' = "time"
    /\ sample' = now
    /\ alloc' = alloc \ free_list
    /\ free_list' = {}
    /\ UNCHANGED <<waiters, active, type, timeout, now, io_todo, time_todo>>

StartTimers ==
    /\ pc = "io" /\ io_todo = {}
    /\ pc' = "time"
    /\ sample' = now
    /\ UNCHANGED <<alloc, waiters, active, free_list, type, timeout, now,
                   io_todo, time_todo>>

SkipTimer(w) ==
    /\ pc = "time" /\ w \in time_todo
    /\ w \notin active \/ timeout[w] > sample
    /\ time_todo' = time_todo \ {w}
    /\ UNCHANGED <<pc, alloc, waiters, active, free_list, type, timeout, now,
                   sample, io_todo>>

(* Mutant: a timer is kept after its callback. *)
TimeCallbackKeeps(w, io, tm, rem, delay) ==
    /\ pc = "time" /\ w \in time_todo /\ w \in active /\ timeout[w] <= sample
    /\ rem \subseteq waiters \ {w}
    /\ Register(io, tm, delay)
    /\ Update(io \cup tm, rem)
    /\ time_todo' = time_todo \ {w}
    /\ UNCHANGED <<pc, now, sample, io_todo>>

(* The callback's value is ignored: a timer is always removed, so its       *)
(* callback must not remove it.                                             *)
TimeCallback(w, io, tm, rem, delay) ==
    /\ pc = "time" /\ w \in time_todo /\ w \in active /\ timeout[w] <= sample
    /\ rem \subseteq waiters \ {w}
    /\ Register(io, tm, delay)
    /\ Update(io \cup tm, rem \cup {w})
    /\ time_todo' = time_todo \ {w}
    /\ UNCHANGED <<pc, now, sample, io_todo>>

(* The free list is freed; what was in its memory no longer matters. *)
Finish ==
    /\ pc = "time" /\ time_todo = {}
    /\ pc' = "idle"
    /\ sample' = 0
    /\ alloc' = alloc \ free_list
    /\ free_list' = {}
    /\ type' = [w \in Addr |-> IF w \in free_list THEN "io" ELSE type[w]]
    /\ timeout' = [w \in Addr |-> IF w \in free_list THEN 0 ELSE timeout[w]]
    /\ UNCHANGED <<waiters, active, now, io_todo, time_todo>>

Tick ==
    /\ now < MaxTime
    /\ now' = now + 1
    /\ UNCHANGED <<pc, alloc, waiters, active, free_list, type, timeout,
                   sample, io_todo, time_todo>>

SomeIoCallback ==
    \E w \in Addr, rc \in BOOLEAN, delay \in Delays :
    \E io \in SUBSET Unused : \E tm \in SUBSET (Unused \ io) :
    \E rem \in SUBSET waiters :
        IoCallback(w, rc, io, tm, rem, delay)

SomeTimeCallback ==
    \E w \in Addr, delay \in Delays :
    \E io \in SUBSET Unused : \E tm \in SUBSET (Unused \ io) :
    \E rem \in SUBSET waiters :
        TimeCallback(w, io, tm, rem, delay)

WaiterNext ==
    \/ \E io, tm \in SUBSET Unused, delay \in Delays : Setup(io, tm, delay)
    \/ \E ready \in SUBSET Addr : WaiterPoll(ready)
    \/ \E w \in Addr : SkipIo(w)
    \/ SomeIoCallback
    \/ StartTimers
    \/ \E w \in Addr : SkipTimer(w)
    \/ SomeTimeCallback
    \/ Finish
    \/ Tick

WaiterSpec == WaiterInit /\ [][WaiterNext]_wvars

(* The loop goes on: callbacks return, and poll() does when a timer has     *)
(* expired, for its timeout is then zero.                                   *)
FairWaiterSpec ==
    /\ WaiterSpec
    /\ WF_wvars(/\ \E w \in TimeWaiters : timeout[w] <= now
               /\ \E ready \in SUBSET Addr : WaiterPoll(ready))
    /\ WF_wvars(\/ \E w \in Addr : SkipIo(w) \/ SkipTimer(w)
               \/ SomeIoCallback \/ SomeTimeCallback
               \/ StartTimers \/ Finish)
-----------------------------------------------------------------------------
(* The wait set, the free list and the copies keep their types. *)
WaiterTypeOK ==
    /\ pc \in {"setup", "idle", "io", "time"}
    /\ alloc \subseteq Addr /\ waiters \subseteq Addr
    /\ active \subseteq Addr /\ free_list \subseteq Addr
    /\ type \in [Addr -> {"io", "time"}]
    /\ timeout \in [Addr -> Nat]
    /\ now \in Nat /\ sample \in Nat
    /\ io_todo \subseteq Addr /\ time_todo \subseteq Addr

(* waiter_poll() reads waiter->active of the entries of its copy whatever   *)
(* the callbacks before did: none of them is freed before it is visited.    *)
CopyAllocated == io_todo \cup time_todo \subseteq alloc

(* waiter->active tells exactly the registered waiters, so that no callback *)
(* runs for a waiter that was removed, even by an earlier callback of the   *)
(* same poll.                                                               *)
ActiveRegistered == active = waiters

(* A waiter is registered or waits to be freed, never both: nothing leaks   *)
(* and nothing registered is freed.                                         *)
Accounted ==
    /\ waiters \cup free_list = alloc
    /\ waiters \cap free_list = {}

(* A waiter registered by a callback is never called in the same poll by    *)
(* way of an entry of the copy that was made for a removed one.             *)
CopyNotReused == [][(waiters' \ waiters) \cap (io_todo \cup time_todo) = {}]_wvars

(* A timer that has expired is called, or removed by somebody, whatever     *)
(* other waiters are ready, registered and removed meanwhile.               *)
TimersFire ==
    \A w \in Addr :
        (w \in TimeWaiters /\ timeout[w] <= now) ~> w \notin waiters
=============================================================================
