---------------------------- MODULE EventProofs ----------------------------
(***************************************************************************)
(* Proofs about the parts that wait for events, for any number of waiters, *)
(* child processes and resources: a boot task is the job that the device   *)
(* handler relies on, it hands complete boots to kexec only, and it is     *)
(* freed and held as its downloads require (BootTask); no process that is  *)
(* still named is freed (Process); no waiter is visited after it has been  *)
(* freed (Waiter); and the timers of the clients of the server bound their *)
(* rights (ServerAuth).                                                    *)
(***************************************************************************)
EXTENDS Waiter, Process, BootTask, ServerAuth, WellFoundedInduction, TLAPS

Live == {"process", "queued"}

(* While the daemon runs: a download that will call back belongs to a      *)
(* resource of a task that is there, and that has not got its result.  Of  *)
(* a boot that was not cancelled no result is "cancelled".  A temporary    *)
(* file belongs to a download that goes on, or has a result; only that of  *)
(* a download that failed is gone while the task is active.                *)
TaskIInv ==
    /\ TaskTypeOK
    /\ task = "none" => /\ cleanup_local = {} /\ kexec = "no" /\ ~held
                        /\ loader = [r \in Resources |-> "none"]
    /\ HeldTaskAlive
    /\ Running =>
         /\ \A r \in Resources : loader[r] \in Live =>
              /\ task \in {"active", "cancelled"}
              /\ r \in wanted /\ result[r] \in {"async", "cancelled"}
         /\ task = "active" =>
              /\ \A r \in Resources : result[r] # "cancelled"
              /\ \A r \in cleanup_local : r \in tmpfile \/ result[r] = "error"
         /\ cleanup_local \subseteq wanted
         /\ \A r \in tmpfile : loader[r] \in {"process", "orphan"} \/ result[r] = "ok"
    /\ NoTempLeft

LEMMA TaskInitIInv == TaskInit => TaskIInv
  BY Zenon DEF TaskInit, TaskIInv, TaskTypeOK, HeldTaskAlive, NoTempLeft, Running, Live

(* What cleanup_cancellations() leaves, when it is called with what TaskIInv   *)
(* says of the results and downloads.                                      *)
LEMMA CleanupType ==
  ASSUME NEW res, NEW ld, NEW files, NEW cur,
         res \in [Resources -> {"null", "ok", "error", "async", "cancelled", "dangling"}],
         files \subseteq cleanup_local', phase = "running",
         CleanupCancellations(res, ld, files, cur)
  PROVE  /\ result' \in [Resources -> {"null", "ok", "error", "async", "cancelled", "dangling"}]
         /\ tmpfile' \subseteq files
         /\ task' \in {"cancelled", "freed"}
         /\ phase' \in {"running", "terminated", "undefined"}
  BY DEF CleanupCancellations, CleanupLoads

LEMMA BootIInv ==
  ASSUME TaskIInv, NEW want \in SUBSET Resources, NEW out \in [Resources -> Outcomes],
         Boot(want, out)
  PROVE  TaskIInv'
  <1> DEFINE started == {r \in want : Started(want, out, r)}
             res == [r \in Resources |->
                      IF r \notin started \/ out[r] = "fail" THEN "null"
                      ELSE IF out[r] = "local" THEN "ok" ELSE "async"]
             ld == [r \in Resources |->
                      IF r \in started /\ out[r] \in {"process", "queued"}
                      THEN out[r] ELSE "none"]
             files == {r \in started : out[r] = "process"}
  <1>1. /\ Running /\ task = "none" /\ wanted' = want /\ cleanup_local' = files /\ loader' = ld
        /\ \/ /\ CleanupCancellations(res, ld, files, {})
              /\ held' = FALSE /\ kexec' = kexec
           \/ /\ result' = res /\ held' = TRUE /\ phase' = phase
              /\ \E r \in want : LoadPending(res, r)
              /\ task' = "active" /\ tmpfile' = files /\ kexec' = kexec
           \/ /\ result' = res /\ held' = TRUE /\ phase' = phase
              /\ \A r \in want : ~LoadPending(res, r)
              /\ BootProcessEnd(res, files)
    BY Zenon DEF Boot
  <1>2. /\ started \subseteq want /\ files \subseteq Resources /\ files \subseteq started
        /\ res \in [Resources -> {"null", "ok", "error", "async", "cancelled", "dangling"}]
        /\ ld \in [Resources -> {"none", "process", "queued", "orphan"}]
        /\ \A r \in Resources : /\ ld[r] \in Live => r \in want /\ res[r] = "async"
                                /\ ld[r] \in {"none", "process", "queued"}
                                /\ res[r] \in {"null", "ok", "async"}
        /\ \A r \in files : ld[r] = "process"
    BY DEF Outcomes, Live
  <1> HIDE DEF started, res, ld, files
  <1>3. CASE /\ CleanupCancellations(res, ld, files, {})
             /\ held' = FALSE /\ kexec' = kexec
    <2>1. TaskTypeOK'
      BY <1>1, <1>2, <1>3, CleanupType, Zenon DEF TaskIInv, TaskTypeOK, Running
    <2>2. \A r \in Resources : ld[r] \in Live => /\ task' = "cancelled" /\ result'[r] = "cancelled"
      BY <1>1, <1>2, <1>3 DEF CleanupCancellations
    <2>3. \A r \in tmpfile' : ld[r] = "process"
      BY <1>1, <1>2, <1>3 DEF CleanupCancellations, CleanupLoads
    <2>4. task' \in {"cancelled", "freed"}
      BY <1>3 DEF CleanupCancellations
    <2>5. \A r \in tmpfile' : r \in Resources /\ task' = "cancelled" /\ ld[r] = "process"
      BY <2>1, <2>2, <2>3 DEF TaskTypeOK, Live
    <2> QED
      BY <1>1, <1>2, <1>3, <2>1, <2>2, <2>4, <2>5 DEF TaskIInv, HeldTaskAlive, NoTempLeft, Running, Live
  <1>4. CASE /\ result' = res /\ held' = TRUE /\ phase' = phase
             /\ \E r \in want : LoadPending(res, r)
             /\ task' = "active" /\ tmpfile' = files /\ kexec' = kexec
    BY <1>1, <1>2, <1>4 DEF TaskIInv, TaskTypeOK, HeldTaskAlive, NoTempLeft, Running, Live
  <1>5. CASE /\ result' = res /\ held' = TRUE /\ phase' = phase
             /\ \A r \in want : ~LoadPending(res, r)
             /\ BootProcessEnd(res, files)
    <2>1. \A r \in Resources : ld[r] \notin Live
      BY <1>2, <1>5 DEF LoadPending
    <2>2. files = {}
      BY <1>2, <2>1 DEF Live
    <2>3. tmpfile' = {} /\ task' = "ended" /\ kexec' \in {"no", "loaded", "rebooting"}
      BY <1>5, <2>2 DEF BootProcessEnd, CleanupLoads, TaskIInv, TaskTypeOK
    <2> QED
      BY <1>1, <1>2, <1>5, <2>1, <2>2, <2>3 DEF TaskIInv, TaskTypeOK, HeldTaskAlive, NoTempLeft, Running, Live
  <1> QED BY <1>1, <1>3, <1>4, <1>5, Zenon

LEMMA ExitIInv ==
  ASSUME TaskIInv, NEW r \in Resources, NEW exit_ok \in BOOLEAN, ProcessExit(r, exit_ok)
  PROVE  TaskIInv'
  <1> DEFINE res == [result EXCEPT ![r] =
                      IF @ = "cancelled" THEN @ ELSE IF exit_ok THEN "ok" ELSE "error"]
             ld == [loader EXCEPT ![r] = "none"]
             files == IF res[r] = "ok" THEN tmpfile ELSE tmpfile \ {r}
  <1>1. /\ Running /\ loader[r] = "process" /\ wanted' = wanted /\ cleanup_local' = cleanup_local
        /\ loader' = ld
        /\ \/ /\ task = "cancelled" /\ CleanupCancellations(res, ld, files, {r})
              /\ kexec' = kexec /\ held' = held
           \/ /\ task # "cancelled" /\ result' = res /\ phase' = "undefined"
              /\ UNCHANGED <<task, tmpfile, kexec, held>>
           \/ /\ task # "cancelled" /\ result' = res /\ tmpfile' = files
              /\ UNCHANGED <<phase, task, kexec, held>>
           \/ /\ task # "cancelled" /\ result' = res
              /\ \A q \in wanted : ~LoadPending(res, q)
              /\ BootProcessEnd(res, files) /\ held' = FALSE /\ phase' = phase
    BY Zenon DEF ProcessExit
  <1>2. /\ task \in {"active", "cancelled"} /\ r \in wanted
        /\ res \in [Resources -> {"null", "ok", "error", "async", "cancelled", "dangling"}]
        /\ ld \in [Resources -> {"none", "process", "queued", "orphan"}]
        /\ files \subseteq tmpfile
        /\ \A q \in Resources : q # r => res[q] = result[q] /\ ld[q] = loader[q]
        /\ ld[r] = "none" /\ res[r] \in {"cancelled", "ok", "error"}
        /\ \A q \in files : ld[q] \in {"process", "orphan"} \/ res[q] = "ok"
        /\ \A q \in tmpfile : q \in files \/ q = r
        /\ r \in files => res[r] = "ok"
        /\ res[r] = "ok" => files = tmpfile
    BY <1>1 DEF TaskIInv, TaskTypeOK, Live, Running
  <1>3. task = "active" => res[r] \in {"ok", "error"}
    BY <1>1, <1>2 DEF TaskIInv, TaskTypeOK, Running
  <1> HIDE DEF res, ld, files
  <1>4. CASE /\ task = "cancelled" /\ CleanupCancellations(res, ld, files, {r})
             /\ kexec' = kexec /\ held' = held
    <2>1. TaskTypeOK' /\ task' \in {"cancelled", "freed"}
      BY <1>1, <1>2, <1>4, CleanupType, SMTT(30) DEF TaskIInv, TaskTypeOK, Running
    <2>2. \A q \in Resources : ld[q] \in Live =>
              task' = "cancelled" /\ q \in wanted /\ result'[q] = "cancelled"
      <3> SUFFICES ASSUME NEW q \in Resources, ld[q] \in Live
                   PROVE  task' = "cancelled" /\ q \in wanted /\ result'[q] = "cancelled"
        OBVIOUS
      <3>1. q # r /\ q \in wanted /\ res[q] \in {"async", "cancelled"}
        BY <1>1, <1>2 DEF TaskIInv, Live
      <3> QED BY <1>1, <1>4, <3>1 DEF CleanupCancellations
    <2>3. \A q \in tmpfile' : q \in files /\ ~(res[q] = "ok" /\ q \in cleanup_local)
      BY <1>1, <1>4 DEF CleanupCancellations, CleanupLoads
    <2>4. \A q \in tmpfile' : q \in Resources /\ ld[q] \in {"process", "orphan"}
      BY <1>2, <2>3 DEF TaskIInv, TaskTypeOK
    <2>5. ~held
      BY <1>4 DEF TaskIInv, HeldTaskAlive
    <2>6. NoTempLeft'
      BY <1>1, <2>2, <2>4 DEF NoTempLeft, Live
    <2> QED
      BY <1>1, <1>4, <2>1, <2>2, <2>4, <2>5, <2>6 DEF TaskIInv, HeldTaskAlive, Running, Live
  <1>5. CASE /\ task # "cancelled" /\ result' = res /\ phase' = "undefined"
             /\ UNCHANGED <<task, tmpfile, kexec, held>>
    BY <1>1, <1>2, <1>5 DEF TaskIInv, TaskTypeOK, HeldTaskAlive, NoTempLeft, Running
  <1>6. CASE /\ task # "cancelled" /\ result' = res /\ tmpfile' = files
             /\ UNCHANGED <<phase, task, kexec, held>>
    <2>1. task = "active"
      BY <1>2, <1>6
    <2>2. TaskTypeOK' /\ HeldTaskAlive' /\ NoTempLeft'
      BY <1>1, <1>2, <1>6, <2>1 DEF TaskIInv, TaskTypeOK, HeldTaskAlive, NoTempLeft
    <2>3. \A q \in Resources : loader'[q] \in Live => q \in wanted' /\ result'[q] = "async"
      BY <1>1, <1>2, <1>6, <2>1 DEF TaskIInv, Live
    <2>4. /\ \A q \in Resources : result'[q] # "cancelled"
          /\ \A q \in cleanup_local' : q \in tmpfile' \/ result'[q] = "error"
      BY <1>1, <1>2, <1>3, <1>6, <2>1, SMTT(30) DEF TaskIInv, TaskTypeOK, Live
    <2>5. \A q \in tmpfile' : loader'[q] \in {"process", "orphan"} \/ result'[q] = "ok"
      BY <1>1, <1>2, <1>6
    <2> QED
      BY <1>1, <1>6, <2>1, <2>2, <2>3, <2>4, <2>5 DEF TaskIInv, Running
  <1>7. CASE /\ task # "cancelled" /\ result' = res
             /\ \A q \in wanted : ~LoadPending(res, q)
             /\ BootProcessEnd(res, files) /\ held' = FALSE /\ phase' = phase
    <2>1. tmpfile' \subseteq files /\ task' = "ended" /\ kexec' \in {"no", "loaded", "rebooting"}
      BY <1>7 DEF BootProcessEnd, CleanupLoads, TaskIInv, TaskTypeOK
    <2>2. \A q \in Resources : ld[q] \notin Live
      <3> SUFFICES ASSUME NEW q \in Resources, ld[q] \in Live PROVE FALSE
        OBVIOUS
      <3>1. q # r /\ q \in wanted /\ res[q] \in {"async", "cancelled"} /\ res[q] = result[q]
        BY <1>1, <1>2 DEF TaskIInv, Live
      <3> QED BY <1>1, <1>2, <1>7, <3>1 DEF LoadPending, TaskIInv
    <2> QED
      BY <1>1, <1>2, <1>7, <2>1, <2>2, Zenon DEF TaskIInv, TaskTypeOK, HeldTaskAlive, NoTempLeft, Running, Live
  <1> QED BY <1>1, <1>4, <1>5, <1>6, <1>7, Zenon

LEMMA NetworkIInv ==
  ASSUME TaskIInv, NEW fail \in SUBSET Resources, NetworkUp(fail)
  PROVE  TaskIInv'
  <1>1. TaskTypeOK' /\ HeldTaskAlive' /\ Running'
    BY DEF TaskIInv, NetworkUp, TaskTypeOK, HeldTaskAlive, Running
  <1>2. task \in {"active", "cancelled"}
    BY DEF TaskIInv, NetworkUp, Live, Running
  <1>3. \A r \in Resources : loader[r] = "queued" => r \in wanted
    BY DEF TaskIInv, NetworkUp, Live, Running
  <1>4. \A r \in Resources : loader'[r] \in Live => r \in wanted' /\ result'[r] \in {"async", "cancelled"}
    BY DEF TaskIInv, NetworkUp, Live, Running, TaskTypeOK
  <1>5. task = "active" =>
          /\ \A r \in Resources : result'[r] # "cancelled"
          /\ \A r \in cleanup_local' : r \in tmpfile' \/ result'[r] = "error"
    BY DEF TaskIInv, NetworkUp, Live, Running, TaskTypeOK
  <1>6. \A r \in tmpfile' : loader'[r] \in {"process", "orphan"} \/ result'[r] = "ok"
    BY DEF TaskIInv, NetworkUp, Live, Running, TaskTypeOK
  <1>7. cleanup_local' \subseteq wanted'
    BY <1>3 DEF TaskIInv, NetworkUp, Running
  <1>8. task' = task
    BY DEF NetworkUp
  <1> QED BY <1>1, <1>2, <1>4, <1>5, <1>6, <1>7, <1>8 DEF TaskIInv, NoTempLeft

(* boot_cancel(), whether or not reinit takes the downloads away after it: *)
(* `ld' is where they are then.                                            *)
LEMMA CancelIInv ==
  ASSUME TaskIInv, Running, held,
         UNCHANGED <<wanted, cleanup_local, kexec>>, held' = FALSE,
         CleanupCancellations(result, loader, tmpfile, {}),
         loader' \in [Resources -> {"none", "process", "queued", "orphan"}],
         \A r \in Resources : \/ loader'[r] = loader[r]
                              \/ loader[r] = "process" /\ loader'[r] = "orphan"
                              \/ loader[r] = "queued" /\ loader'[r] = "none"
  PROVE  TaskIInv'
  <1>1. TaskTypeOK' /\ task' \in {"cancelled", "freed"}
    BY CleanupType, Zenon DEF TaskIInv, TaskTypeOK, Running
  <1>2. \A r \in Resources : loader[r] \in Live =>
          task' = "cancelled" /\ r \in wanted' /\ result'[r] = "cancelled"
    <2> SUFFICES ASSUME NEW r \in Resources, loader[r] \in Live
                 PROVE  task' = "cancelled" /\ r \in wanted' /\ result'[r] = "cancelled"
      OBVIOUS
    <2>1. r \in wanted /\ result[r] \in {"async", "cancelled"}
      BY DEF TaskIInv
    <2> QED BY <2>1 DEF CleanupCancellations
  <1>3. \A r \in Resources : loader'[r] \in Live => loader[r] \in Live
    BY DEF Live
  <1>4. \A r \in tmpfile' : /\ r \in Resources
                            /\ loader[r] \in {"process", "orphan"}
                            /\ loader'[r] \in {"process", "orphan"}
    <2> SUFFICES ASSUME NEW r \in tmpfile'
                 PROVE  /\ r \in Resources
                        /\ loader[r] \in {"process", "orphan"}
                        /\ loader'[r] \in {"process", "orphan"}
      OBVIOUS
    <2>1. r \in tmpfile /\ r \in cleanup_local /\ r \in Resources /\ result[r] # "ok"
      BY DEF CleanupCancellations, CleanupLoads, TaskIInv, TaskTypeOK
    <2>2. loader[r] \in {"process", "orphan"}
      BY <2>1 DEF TaskIInv
    <2> QED BY <2>1, <2>2
  <1>5. NoTempLeft'
    BY <1>1, <1>2, <1>3, <1>4 DEF NoTempLeft, Live
  <1>6. cleanup_local' \subseteq wanted'
    BY DEF TaskIInv
  <1> QED BY <1>1, <1>2, <1>3, <1>4, <1>5, <1>6 DEF TaskIInv, HeldTaskAlive, Live

LEMMA ReinitIInv ==
  ASSUME TaskIInv, Reinit
  PROVE  TaskIInv'
  <1>1. /\ loader' \in [Resources -> {"none", "process", "queued", "orphan"}]
        /\ \A r \in Resources : \/ loader'[r] = loader[r]
                                \/ loader[r] = "process" /\ loader'[r] = "orphan"
                                \/ loader[r] = "queued" /\ loader'[r] = "none"
    BY DEF Reinit, TaskIInv, TaskTypeOK
  <1>2. CASE held
    BY <1>1, <1>2, CancelIInv, Zenon DEF Reinit
  <1>3. CASE ~held
    <2>1. /\ Running /\ held' = FALSE
          /\ UNCHANGED <<wanted, cleanup_local, kexec, phase, task, result, tmpfile>>
      BY <1>3 DEF Reinit
    <2>2. TaskTypeOK'
      BY <1>1, <2>1, Zenon DEF TaskIInv, TaskTypeOK
    <2>3. \A r \in Resources : /\ loader'[r] \in Live => loader[r] \in Live
                               /\ loader[r] \in {"process", "orphan"} =>
                                    loader'[r] \in {"process", "orphan"}
                               /\ loader[r] = "orphan" => loader'[r] = "orphan"
                               /\ loader[r] = "none" => loader'[r] = "none"
      BY <1>1 DEF Live
    <2>4. task = "none" => loader' = [r \in Resources |-> "none"]
      BY <1>1, <2>3 DEF TaskIInv
    <2>5. tmpfile \subseteq Resources
      BY DEF TaskIInv, TaskTypeOK
    <2> QED BY <2>1, <2>2, <2>3, <2>4, <2>5 DEF TaskIInv, HeldTaskAlive, NoTempLeft, Running
  <1> QED BY <1>2, <1>3

LEMMA TaskStepIInv == TaskIInv /\ [TaskNext]_bvars => TaskIInv'
  <1> SUFFICES ASSUME TaskIInv, [TaskNext]_bvars PROVE TaskIInv'
    OBVIOUS
  <1>1. CASE Cancel
    BY <1>1, CancelIInv, Zenon DEF Cancel, TaskIInv, TaskTypeOK
  <1>2. CASE UNCHANGED bvars
    BY <1>2 DEF bvars, TaskIInv, TaskTypeOK, HeldTaskAlive, NoTempLeft, Running
  <1> QED
    BY <1>1, <1>2, BootIInv, ExitIInv, NetworkIInv, ReinitIInv DEF TaskNext

LEMMA TaskAlwaysIInv == TaskSpec => []TaskIInv
  BY TaskInitIInv, TaskStepIInv, PTL DEF TaskSpec

(* A set of numbers has a least one. *)
LEMMA Least ==
  ASSUME NEW S \in SUBSET Nat, S # {}
  PROVE  \E x \in S : \A y \in S : x <= y
  <1> DEFINE R == OpToRel(<, Nat)
  <1>1. IsWellFoundedOn(R, Nat)
    BY NatLessThanWellFounded, Zenon
  <1>2. \A x, y \in Nat : y < x => <<y, x>> \in R
    BY DEF OpToRel
  <1> HIDE DEF R
  <1>3. PICK x \in S : \A y \in S : ~(<<y, x>> \in R)
    BY <1>1, WFMin, Zenon
  <1>4. ASSUME NEW y \in S PROVE x <= y
    <2>1. x \in Nat /\ y \in Nat /\ ~(y < x)
      BY <1>2, <1>3, Zenon
    <2> QED BY <2>1
  <1> QED BY <1>4

(* boot() starts every load, unless one that it started has failed: of the *)
(* loads that failed, the one of least rank was started.                   *)
LEMMA AllStarted ==
  ASSUME NEW want \in SUBSET Resources, NEW out,
         \A r \in want : Started(want, out, r) => out[r] # "fail"
  PROVE  \A r \in want : Started(want, out, r)
  <1> DEFINE F == {q \in want \cap Basic : out[q] = "fail"}
             S == {Rank[q] : q \in F}
  <1>1. ASSUME F # {} PROVE FALSE
    <2>1. S \in SUBSET Nat /\ S # {}
      BY <1>1, RankAssumption
    <2>2. PICK n \in S : \A m \in S : n <= m
      BY <2>1, Least, Zenon
    <2>3. PICK q \in F : n = Rank[q]
      BY <2>2
    <2>4. ASSUME NEW p \in want \cap Basic, Rank[p] < Rank[q] PROVE out[p] # "fail"
      <3>1. Rank[p] \in Nat /\ Rank[q] \in Nat
        BY <2>3, RankAssumption
      <3>2. p \in F => Rank[q] <= Rank[p]
        BY <2>2, <2>3
      <3> QED BY <2>4, <3>1, <3>2
    <2>5. Started(want, out, q)
      BY <2>4 DEF Started
    <2> QED BY <2>3, <2>5
  <1> QED BY <1>1 DEF Started

(* While a boot is active the handler holds it, and each of its loads that *)
(* has no result has a process, or a place in the queue, that will call    *)
(* boot_process(); a queued load that could not start does not.            *)
Waited ==
    Running /\ task = "active" =>
      /\ held
      /\ \A r \in wanted : result[r] # "null" /\ (result[r] = "async" => loader[r] \in Live)
      /\ \E r \in wanted : result[r] \in {"async", "dangling"}

LEMMA BootWaited ==
  ASSUME TaskIInv, NEW want \in SUBSET Resources, NEW out \in [Resources -> Outcomes],
         Boot(want, out)
  PROVE  Waited'
  <1> DEFINE started == {r \in want : Started(want, out, r)}
             res == [r \in Resources |->
                      IF r \notin started \/ out[r] = "fail" THEN "null"
                      ELSE IF out[r] = "local" THEN "ok" ELSE "async"]
             ld == [r \in Resources |->
                      IF r \in started /\ out[r] \in {"process", "queued"}
                      THEN out[r] ELSE "none"]
             files == {r \in started : out[r] = "process"}
  <1> SUFFICES ASSUME task' = "active" PROVE Waited'
    BY DEF Waited
  <1>1. CASE \E r \in started : out[r] = "fail"
    <2>1. CleanupCancellations(res, ld, files, {})
      BY <1>1, Zenon DEF Boot
    <2>2. task' \in {"cancelled", "freed"}
      BY <2>1 DEF CleanupCancellations
    <2> QED BY <2>2
  <1>2. CASE /\ \A r \in started : out[r] # "fail"
             /\ \E r \in want : LoadPending(res, r)
    <2>1. result' = res /\ loader' = ld /\ held' = TRUE /\ wanted' = want
      BY <1>2, Zenon DEF Boot
    <2>2. \A r \in want : r \in started
      BY <1>2, AllStarted
    <2>3. \A r \in want : /\ out[r] \in {"local", "process", "queued"}
                          /\ res[r] = IF out[r] = "local" THEN "ok" ELSE "async"
                          /\ ld[r] = IF out[r] = "local" THEN "none" ELSE out[r]
      BY <1>2, <2>2 DEF Outcomes
    <2> HIDE DEF started, res, ld
    <2>4. \E r \in want : res[r] = "async"
      BY <1>2, <2>3 DEF LoadPending
    <2> QED BY <2>1, <2>3, <2>4 DEF Waited, Live
  <1>3. CASE /\ \A r \in started : out[r] # "fail"
             /\ \A r \in want : ~LoadPending(res, r)
    <2>1. BootProcessEnd(res, files)
      BY <1>3, Zenon DEF Boot
    <2> QED BY <2>1 DEF BootProcessEnd
  <1> QED BY <1>1, <1>2, <1>3

LEMMA ExitWaited ==
  ASSUME TaskIInv, Waited, NEW r \in Resources, NEW exit_ok \in BOOLEAN, ProcessExit(r, exit_ok)
  PROVE  Waited'
  <1> DEFINE res == [result EXCEPT ![r] =
                      IF @ = "cancelled" THEN @ ELSE IF exit_ok THEN "ok" ELSE "error"]
             ld == [loader EXCEPT ![r] = "none"]
             files == IF res[r] = "ok" THEN tmpfile ELSE tmpfile \ {r}
  <1> SUFFICES ASSUME Running', task' = "active" PROVE Waited'
    BY Zenon DEF Waited
  <1>1. /\ Running /\ loader[r] = "process" /\ wanted' = wanted
        /\ \/ task = "cancelled" /\ CleanupCancellations(res, ld, files, {r})
           \/ phase' = "undefined"
           \/ /\ task # "cancelled" /\ result' = res /\ loader' = ld
              /\ \E q \in wanted : LoadPending(res, q)
              /\ UNCHANGED <<task, held>>
           \/ BootProcessEnd(res, files)
    BY Zenon DEF ProcessExit
  <1>2. /\ task # "cancelled" /\ result' = res /\ loader' = ld
        /\ \E q \in wanted : LoadPending(res, q)
        /\ UNCHANGED <<task, held>>
    BY <1>1, Zenon DEF CleanupCancellations, BootProcessEnd, Running
  <1>3. /\ result \in [Resources -> {"null", "ok", "error", "async", "cancelled", "dangling"}]
        /\ loader \in [Resources -> {"none", "process", "queued", "orphan"}]
        /\ wanted \subseteq Resources /\ r \in wanted
    BY <1>1 DEF TaskIInv, TaskTypeOK, Live
  <1>4. /\ held /\ \A q \in wanted : result[q] # "null" /\ (result[q] = "async" => loader[q] \in Live)
    BY <1>1, <1>2 DEF Waited
  <1>5. res[r] \in {"cancelled", "ok", "error"}
        /\ \A q \in wanted : q # r => res[q] = result[q] /\ ld[q] = loader[q]
    BY <1>3, SMTT(30)
  <1> HIDE DEF res, ld
  <1>6. \A q \in wanted : res[q] # "null" /\ (res[q] = "async" => ld[q] \in Live)
    BY <1>4, <1>5, SMTT(30)
  <1>7. \E q \in wanted : res[q] = "async"
    BY <1>2, <1>6, SMTT(30) DEF LoadPending
  <1> QED BY <1>1, <1>2, <1>4, <1>6, <1>7, Zenon DEF Waited

LEMMA NetworkWaited ==
  ASSUME TaskIInv, Waited, NEW fail \in SUBSET Resources, NetworkUp(fail)
  PROVE  Waited'
  <1> SUFFICES ASSUME task = "active" PROVE Waited'
    BY DEF Waited, NetworkUp
  <1>1. /\ Running /\ wanted' = wanted /\ held' = held /\ task' = task /\ phase' = phase
        /\ \A r \in Resources :
             /\ r \in fail => loader[r] = "queued" /\ loader'[r] = "none" /\ result'[r] = "dangling"
             /\ r \notin fail /\ loader[r] = "queued" => loader'[r] = "process" /\ result'[r] = "async"
             /\ loader[r] # "queued" => loader'[r] = loader[r] /\ result'[r] = result[r]
    BY DEF NetworkUp
  <1>2. /\ held /\ wanted \subseteq Resources
        /\ \A r \in wanted : result[r] # "null" /\ (result[r] = "async" => loader[r] \in Live)
        /\ \E r \in wanted : result[r] \in {"async", "dangling"}
    BY <1>1, SMTT(30) DEF Waited, TaskIInv, TaskTypeOK
  <1>3. \A r \in wanted : result'[r] # "null" /\ (result'[r] = "async" => loader'[r] \in Live)
    BY <1>1, <1>2 DEF Live
  <1>4. \E r \in wanted : result'[r] \in {"async", "dangling"}
    BY <1>1, <1>2
  <1> QED BY <1>1, <1>2, <1>3, <1>4, Zenon DEF Waited

LEMMA WaitedStep == TaskIInv /\ Waited /\ [TaskNext]_bvars => Waited'
  <1> SUFFICES ASSUME TaskIInv, Waited, [TaskNext]_bvars PROVE Waited'
    OBVIOUS
  <1>1. CASE Cancel
    BY <1>1 DEF Cancel, CleanupCancellations, Waited
  <1>2. CASE Reinit
    <2>1. CASE held
      BY <1>2, <2>1 DEF Reinit, CleanupCancellations, Waited
    <2>2. CASE ~held
      BY <1>2, <2>2 DEF Reinit, Waited, Running
    <2> QED BY <2>1, <2>2
  <1>3. CASE UNCHANGED bvars
    BY <1>3 DEF bvars, Waited, Running
  <1> QED
    BY <1>1, <1>2, <1>3, BootWaited, ExitWaited, NetworkWaited DEF TaskNext

LEMMA AlwaysWaited == TaskSpec => []Waited
  <1>1. TaskInit => Waited
    BY DEF TaskInit, Waited
  <1> QED BY <1>1, WaitedStep, TaskAlwaysIInv, PTL DEF TaskSpec

-----------------------------------------------------------------------------
(* A task is freed when no download will call back with it, it leaves no   *)
(* temporary file behind, the handler never holds a freed one, and a boot  *)
(* that is active will be called back (boot(), boot_process(),             *)
(* boot_cancel(), cleanup_cancellations()).                                *)
THEOREM TaskAlwaysAccounted == TaskSpec => []TaskAccounted
  <1>1. TaskIInv => FreedTaskQuiet /\ NoTempLeft /\ HeldTaskAlive
    BY DEF TaskIInv, FreedTaskQuiet, TaskTypeOK, Live
  <1>2. TaskIInv /\ Waited => ActiveIsWaitedFor
    BY DEF TaskIInv, TaskTypeOK, Waited, ActiveIsWaitedFor, Live
  <1> QED BY <1>1, <1>2, TaskAlwaysIInv, AlwaysWaited, PTL DEF TaskAccounted

-----------------------------------------------------------------------------
(* The steps of a task are those of the abstract job.                      *)
LEMMA BootStep ==
  ASSUME TaskIInv, NEW want \in SUBSET Resources, NEW out \in [Resources -> Outcomes],
         Boot(want, out)
  PROVE  Abstract!JStart /\ KexecOfComplete
  <1> DEFINE started == {r \in want : Started(want, out, r)}
             res == [r \in Resources |->
                      IF r \notin started \/ out[r] = "fail" THEN "null"
                      ELSE IF out[r] = "local" THEN "ok" ELSE "async"]
             ld == [r \in Resources |->
                      IF r \in started /\ out[r] \in {"process", "queued"}
                      THEN out[r] ELSE "none"]
             files == {r \in started : out[r] = "process"}
  <1>1. /\ task = "none" /\ wanted' = want
        /\ \/ /\ CleanupCancellations(res, ld, files, {})
              /\ held' = FALSE /\ kexec' = kexec
           \/ held' = TRUE /\ task' = "active" /\ kexec' = kexec
           \/ /\ result' = res /\ held' = TRUE
              /\ \A r \in want : ~LoadPending(res, r)
              /\ BootProcessEnd(res, files)
    BY Zenon DEF Boot
  <1>2. \A r \in want : res[r] \in {"null", "ok", "async"}
    OBVIOUS
  <1>3. kexec = "no" /\ cleanup_local = {} /\ tmpfile = {}
    BY <1>1 DEF TaskIInv, TaskTypeOK
  <1> HIDE DEF res, ld, files
  <1>4. CASE CleanupCancellations(res, ld, files, {}) /\ held' = FALSE /\ kexec' = kexec
    <2>1. task' \in {"cancelled", "freed"}
      BY <1>4, Zenon DEF CleanupCancellations
    <2> QED BY <1>1, <1>4, <2>1 DEF Abstract!JStart, KexecOfComplete
  <1>5. CASE held' = TRUE /\ task' = "active" /\ kexec' = kexec
    BY <1>1, <1>5 DEF Abstract!JStart, KexecOfComplete
  <1>6. CASE /\ result' = res /\ held' = TRUE
             /\ \A r \in want : ~LoadPending(res, r)
             /\ BootProcessEnd(res, files)
    <2>1. task' = "ended" /\ kexec' \in {"no", "loaded", "rebooting"}
      BY <1>3, <1>6, SMTT(30) DEF BootProcessEnd
    <2>2. \A r \in want : result'[r] = "ok"
      BY <1>2, <1>6 DEF LoadPending
    <2>3. Abstract!JStart
      BY <1>1, <1>6, <2>1 DEF Abstract!JStart, Abstract!JEnd
    <2>4. KexecOfComplete
      BY <1>1, <1>3, <2>2 DEF KexecOfComplete
    <2> QED BY <2>3, <2>4
  <1> QED BY <1>1, <1>4, <1>5, <1>6, Zenon

LEMMA ExitStep ==
  ASSUME TaskIInv, NEW r \in Resources, NEW exit_ok \in BOOLEAN, ProcessExit(r, exit_ok)
  PROVE  (Abstract!JComplete \/ UNCHANGED Abstract!jvars) /\ KexecOfComplete
  <1> DEFINE res == [result EXCEPT ![r] =
                      IF @ = "cancelled" THEN @ ELSE IF exit_ok THEN "ok" ELSE "error"]
             ld == [loader EXCEPT ![r] = "none"]
             files == IF res[r] = "ok" THEN tmpfile ELSE tmpfile \ {r}
  <1>1. /\ Running /\ loader[r] = "process" /\ wanted' = wanted
        /\ \/ /\ task = "cancelled" /\ CleanupCancellations(res, ld, files, {r})
              /\ kexec' = kexec /\ held' = held
           \/ UNCHANGED <<task, kexec, held>>
           \/ /\ task # "cancelled" /\ result' = res
              /\ \A q \in wanted : res[q] # "dangling" /\ ~LoadPending(res, q)
              /\ BootProcessEnd(res, files) /\ held' = FALSE
    BY Zenon DEF ProcessExit
  <1>2. /\ task \in {"active", "cancelled"}
        /\ res \in [Resources -> {"null", "ok", "error", "async", "cancelled", "dangling"}]
        /\ task = "active" => \A q \in Resources : res[q] # "cancelled"
        /\ \A q \in Resources : q # r => res[q] = result[q]
        /\ result[r] \in {"async", "cancelled"}
    BY <1>1 DEF TaskIInv, TaskTypeOK, Live
  <1> HIDE DEF res, ld, files
  <1>3. CASE /\ task = "cancelled" /\ CleanupCancellations(res, ld, files, {r})
             /\ kexec' = kexec /\ held' = held
    <2>1. task' \in {"cancelled", "freed"}
      BY <1>3, Zenon DEF CleanupCancellations
    <2> QED BY <1>3, <2>1 DEF Abstract!jvars, KexecOfComplete
  <1>4. CASE UNCHANGED <<task, kexec, held>>
    BY <1>4 DEF Abstract!jvars, KexecOfComplete
  <1>5. CASE /\ task # "cancelled" /\ result' = res
             /\ \A q \in wanted : res[q] # "dangling" /\ ~LoadPending(res, q)
             /\ BootProcessEnd(res, files) /\ held' = FALSE
    <2>1. task = "active" /\ task' = "ended" /\ kexec' \in {"no", "loaded", "rebooting"}
      BY <1>2, <1>5 DEF BootProcessEnd, TaskIInv, TaskTypeOK
    <2>2. Abstract!JComplete
      BY <1>5, <2>1 DEF Abstract!JComplete, Abstract!JEnd
    <2>3. ASSUME kexec' # kexec PROVE \A q \in wanted : res[q] = "ok"
      <3>1. \A q \in wanted : res[q] # "error"
        BY <1>1, <1>5, <2>3 DEF BootProcessEnd
      <3> QED BY <1>2, <1>5, <2>1, <3>1 DEF LoadPending, TaskIInv, TaskTypeOK
    <2>4. ASSUME kexec' # kexec PROVE cleanup_local \subseteq tmpfile
      BY <1>1, <1>2, <2>1, <2>3, <2>4 DEF TaskIInv, TaskTypeOK
    <2> QED BY <1>1, <1>5, <2>1, <2>2, <2>3, <2>4 DEF KexecOfComplete
  <1> QED BY <1>1, <1>3, <1>4, <1>5, Zenon

LEMMA CancelStep ==
  ASSUME TaskIInv, held, CleanupCancellations(result, loader, tmpfile, {}),
         held' = FALSE, kexec' = kexec
  PROVE  Abstract!JCancel /\ KexecOfComplete
  <1>1. task' \in {"cancelled", "freed"}
    BY SMTT(30) DEF CleanupCancellations
  <1>2. task \in {"active", "ended"}
    BY DEF TaskIInv, HeldTaskAlive
  <1> QED BY <1>1, <1>2, SMTT(30) DEF Abstract!JCancel, KexecOfComplete

LEMMA JobStep ==
  TaskIInv /\ [TaskNext]_bvars => [Abstract!JNext]_(Abstract!jvars) /\ [KexecOfComplete]_bvars
  <1> SUFFICES ASSUME TaskIInv, [TaskNext]_bvars
               PROVE  (Abstract!JNext \/ UNCHANGED Abstract!jvars) /\ KexecOfComplete
    BY DEF Abstract!jvars
  <1>1. CASE Cancel
    BY <1>1, CancelStep, Zenon DEF Cancel, Abstract!JNext
  <1>2. CASE Reinit
    <2>1. CASE held
      BY <1>2, <2>1, CancelStep, Zenon DEF Reinit, Abstract!JNext
    <2>2. CASE ~held
      BY <1>2, <2>2, Zenon DEF Reinit, Abstract!jvars, KexecOfComplete, TaskIInv, TaskTypeOK
    <2> QED BY <2>1, <2>2
  <1>3. CASE \E fail \in SUBSET Resources : NetworkUp(fail)
    BY <1>3 DEF NetworkUp, Abstract!jvars, KexecOfComplete
  <1>4. CASE UNCHANGED bvars
    BY <1>4 DEF bvars, Abstract!jvars, KexecOfComplete
  <1> QED
    BY <1>1, <1>2, <1>3, <1>4, BootStep, ExitStep DEF TaskNext, Abstract!JNext

(* A boot task implements the abstract job that the device handler is      *)
(* written against: boot(), boot_process() and boot_cancel() end a boot    *)
(* once, and a cancelled boot never reaches kexec.                         *)
THEOREM TaskImplementsJob == TaskSpec => JobSpec
  <1>1. TaskInit => Abstract!JInit
    BY DEF TaskInit, Abstract!JInit
  <1> QED BY <1>1, JobStep, TaskAlwaysIInv, PTL DEF TaskSpec, JobSpec, Abstract!JSpec

(* kexec_load() is only reached with every resource loaded and every       *)
(* temporary file still there, by a boot that was not cancelled.           *)
THEOREM KexecAlwaysComplete == TaskSpec => KexecComplete
  BY JobStep, TaskAlwaysIInv, PTL DEF TaskSpec, KexecComplete

-----------------------------------------------------------------------------
(* Child processes: whoever names a process holds a reference to it.       *)
RefsInv ==
    /\ refs \in [Proc -> SUBSET {"ctx", "list", "waiter"}]
    /\ list \subseteq Proc /\ watch \subseteq Proc \cap Keep /\ round \ {"sigchld"} \subseteq watch
    /\ \A p \in list : "list" \in refs[p]
    /\ \A p \in watch : "waiter" \in refs[p]

LEMMA RefsStep == RefsInv /\ [ProcessNext]_pvars => RefsInv'
  <1> SUFFICES ASSUME RefsInv, [ProcessNext]_pvars PROVE RefsInv'
    OBVIOUS
  <1> USE DEF RefsInv
  <1>1. ASSUME NEW p \in Proc, RunAsync(p) PROVE RefsInv'
    BY <1>1 DEF RunAsync
  <1>2. ASSUME NEW p \in Proc, NEW n \in {0, 2, 4}, RunFails(p, n) PROVE RefsInv'
    BY <1>2 DEF RunFails
  <1>3. CASE RunSync
    BY <1>3 DEF RunSync
  <1>4. ASSUME NEW p \in Proc, NEW release \in BOOLEAN, Stop(p, release) PROVE RefsInv'
    BY <1>4 DEF Stop
  <1>5. CASE StopAll
    BY <1>5 DEF StopAll
  <1>6. ASSUME NEW p \in Proc, Output(p) \/ ChildExit(p) PROVE RefsInv'
    BY <1>6 DEF Output, ChildExit
  <1>7. ASSUME NEW err \in SUBSET Proc, Poll(err) PROVE RefsInv'
    <2>1. /\ UNCHANGED <<refs, list, watch>>
          /\ round' \ {"sigchld"} \subseteq watch
      BY <1>7 DEF Poll
    <2> QED BY <2>1
  <1>8. CASE SigchldEvent
    <2>1. /\ list' = list \ Reap /\ watch' = watch /\ round' \subseteq round
          /\ refs' \in [Proc -> SUBSET {"ctx", "list", "waiter"}]
          /\ \A p \in Proc : /\ "waiter" \in refs[p] => "waiter" \in refs'[p]
                             /\ p \notin Reap => refs'[p] = refs[p]
      BY <1>8 DEF SigchldEvent
    <2> QED BY <2>1
  <1>9. ASSUME NEW p \in Proc, StdoutEvent(p) PROVE RefsInv'
    <2>1. /\ round' = round \ {p} /\ list' = list
          /\ \/ watch' = watch /\ refs' = refs
             \/ watch' = watch \ {p} /\ refs' = [refs EXCEPT ![p] = @ \ {"waiter"}]
      BY <1>9, Zenon DEF StdoutEvent
    <2> QED BY <2>1, SMTT(30)
  <1>10. CASE UNCHANGED pvars
    BY <1>10 DEF pvars
  <1> QED
    BY <1>1, <1>2, <1>3, <1>4, <1>5, <1>6, <1>7, <1>8, <1>9, <1>10 DEF ProcessNext, Callback

(* No process_info that the list of sigchld_pipe_event() or a waiter that  *)
(* may be called names has been freed, whatever its owner stops, releases  *)
(* or frees in an exit callback.                                           *)
THEOREM ReferencesAlwaysHeld == ProcessSpec => []ReferencesHeld
  <1>1. ProcessInit => RefsInv
    BY DEF ProcessInit, RefsInv
  <1>2. RefsInv => ReferencesHeld
    BY DEF RefsInv, ReferencesHeld
  <1> QED BY <1>1, <1>2, RefsStep, PTL DEF ProcessSpec

-----------------------------------------------------------------------------
(* What waiter_poll() leaves between two polls, besides the invariants: an  *)
(* empty free list and no copy that anybody still walks through.            *)
WaiterIInv ==
    /\ WaiterTypeOK
    /\ CopyAllocated
    /\ ActiveRegistered
    /\ Accounted
    /\ pc \in {"setup", "idle"} => free_list = {} /\ io_todo = {} /\ time_todo = {}
    /\ pc = "time" => io_todo = {}

USE DEF TimeWaiters, Unused, Register, Update

(* waitset_create() establishes it. *)
LEMMA WaiterInitInv == WaiterInit => WaiterIInv
BY SMTT(30) DEF WaiterInit, WaiterIInv, WaiterTypeOK, CopyAllocated, ActiveRegistered, Accounted

(* Every step of waiter_poll(), and every callback, preserves it. *)
LEMMA WaiterStepInv == WaiterIInv /\ [WaiterNext]_wvars => WaiterIInv'
<1> SUFFICES ASSUME WaiterIInv, [WaiterNext]_wvars PROVE WaiterIInv'
    OBVIOUS
<1> USE TimeAssumption DEF WaiterIInv, WaiterTypeOK, CopyAllocated, ActiveRegistered, Accounted
<1>1. ASSUME NEW io \in SUBSET Unused, NEW tm \in SUBSET Unused,
             NEW delay \in Delays, Setup(io, tm, delay)
      PROVE  WaiterIInv'
    BY <1>1 DEF Setup
<1>2. ASSUME NEW ready \in SUBSET Addr, WaiterPoll(ready) PROVE WaiterIInv'
    BY <1>2 DEF WaiterPoll
<1>3. ASSUME NEW w \in Addr, SkipIo(w) PROVE WaiterIInv'
    BY <1>3, SMTT(30) DEF SkipIo
<1>4. ASSUME NEW w \in Addr, NEW rc \in BOOLEAN, NEW io \in SUBSET Unused,
             NEW tm \in SUBSET (Unused \ io), NEW rem \in SUBSET waiters,
             NEW delay \in Delays, IoCallback(w, rc, io, tm, rem, delay)
      PROVE  WaiterIInv'
    BY <1>4 DEF IoCallback
<1>5. CASE StartTimers
    BY <1>5 DEF StartTimers
<1>6. ASSUME NEW w \in Addr, SkipTimer(w) PROVE WaiterIInv'
    BY <1>6, SMTT(30) DEF SkipTimer
<1>7. ASSUME NEW w \in Addr, NEW io \in SUBSET Unused,
             NEW tm \in SUBSET (Unused \ io), NEW rem \in SUBSET waiters,
             NEW delay \in Delays, TimeCallback(w, io, tm, rem, delay)
      PROVE  WaiterIInv'
    BY <1>7 DEF TimeCallback
<1>8. CASE Finish
    BY <1>8 DEF Finish
<1>9. CASE Tick
    BY <1>9 DEF Tick
<1>10. CASE UNCHANGED wvars
    BY <1>10 DEF wvars
<1> QED
    BY <1>1, <1>2, <1>3, <1>4, <1>5, <1>6, <1>7, <1>8, <1>9, <1>10, Zenon
    DEF WaiterNext, SomeIoCallback, SomeTimeCallback

LEMMA WaiterInductive == WaiterSpec => []WaiterIInv
BY WaiterInitInv, WaiterStepInv, PTL DEF WaiterSpec

(* waiter_poll() never reads a waiter of its copy that has been freed. *)
THEOREM CopyAlwaysAllocated == WaiterSpec => []CopyAllocated
BY WaiterInductive, PTL DEF WaiterIInv

(* A waiter is registered or on the free list, never both, and it is        *)
(* active exactly while it is registered.                                   *)
THEOREM AlwaysAccounted == WaiterSpec => [](Accounted /\ ActiveRegistered)
BY WaiterInductive, PTL DEF WaiterIInv

(* What a callback registers is not in the copy that is being visited.      *)
THEOREM CopyNeverReused == WaiterSpec => CopyNotReused
<1>1. WaiterIInv /\ [WaiterNext]_wvars
      => [(waiters' \ waiters) \cap (io_todo \cup time_todo) = {}]_wvars
  <2> SUFFICES ASSUME WaiterIInv, WaiterNext
               PROVE  (waiters' \ waiters) \cap (io_todo \cup time_todo) = {}
      OBVIOUS
  <2>1. ASSUME NEW io \in SUBSET Unused, NEW tm \in SUBSET Unused,
               NEW delay \in Delays, Setup(io, tm, delay)
        PROVE  waiters' \ waiters \subseteq Unused
      BY <2>1 DEF Setup
  <2>2. ASSUME SomeIoCallback PROVE waiters' \ waiters \subseteq Unused
    <3>1. PICK w \in Addr, rc \in BOOLEAN, delay \in Delays, io \in SUBSET Unused :
            \E tm \in SUBSET (Unused \ io) : \E rem \in SUBSET waiters :
              IoCallback(w, rc, io, tm, rem, delay)
      BY <2>2, Zenon DEF SomeIoCallback
    <3>2. PICK tm \in SUBSET (Unused \ io), rem \in SUBSET waiters :
            IoCallback(w, rc, io, tm, rem, delay)
      BY <3>1, Zenon
    <3> QED BY <3>2 DEF IoCallback, Update
  <2>3. ASSUME SomeTimeCallback PROVE waiters' \ waiters \subseteq Unused
    <3>1. PICK w \in Addr, delay \in Delays, io \in SUBSET Unused :
            \E tm \in SUBSET (Unused \ io) : \E rem \in SUBSET waiters :
              TimeCallback(w, io, tm, rem, delay)
      BY <2>3, Zenon DEF SomeTimeCallback
    <3>2. PICK tm \in SUBSET (Unused \ io), rem \in SUBSET waiters :
            TimeCallback(w, io, tm, rem, delay)
      BY <3>1, Zenon
    <3> QED BY <3>2 DEF TimeCallback, Update
  <2>4. ASSUME waiters' = waiters PROVE waiters' \ waiters \subseteq Unused
      BY <2>4, SMTT(30)
  <2>5. waiters' \ waiters \subseteq Unused
      BY <2>1, <2>2, <2>3, <2>4
      DEF WaiterNext, WaiterPoll, SkipIo, StartTimers, SkipTimer, Finish, Tick
  <2> QED
      BY <2>5 DEF WaiterIInv, CopyAllocated
<1> QED
    BY <1>1, WaiterInductive, PTL DEF WaiterSpec, CopyNotReused

-----------------------------------------------------------------------------
(* The timers' owners must be known to be clients, for the addresses of     *)
(* freed clients are used again; the rest is what the theorems state.       *)
AuthIInv ==
    /\ TypeOK
    /\ RestrictedRights
    /\ TimerHasClient
    /\ ToldTruth
    /\ PasswordEnforced

(* A server that has just started has no clients. *)
LEMMA AuthInitInv == Init => AuthIInv
BY PasswordAssumption, Zenon
DEF Init, AuthIInv, TypeOK, RestrictedRights, TimerHasClient, ToldTruth, PasswordEnforced

(* Every message, timeout, disconnection and restart preserves it. *)
LEMMA AuthStepInv == AuthIInv /\ [Next]_vars => AuthIInv'
<1> SUFFICES ASSUME AuthIInv, [Next]_vars PROVE AuthIInv'
    OBVIOUS
<1> USE PasswordAssumption
    DEF AuthIInv, TypeOK, RestrictedRights, TimerHasClient, ToldTruth,
        PasswordEnforced, WriteAuthenticate, Return, SetAuthMode, sess
<1>1. ASSUME NEW c \in Clients, NEW as_root \in BOOLEAN, NEW known \in BOOLEAN,
             Connect(c, as_root, known)
      PROVE  AuthIInv'
    BY <1>1 DEF Connect
<1>2. ASSUME NEW c \in Clients, Hangup(c) PROVE AuthIInv'
    BY <1>2 DEF Hangup
<1>3. ASSUME NEW c \in Clients, AuthFails(c) PROVE AuthIInv'
    BY <1>3 DEF AuthFails
<1>4. ASSUME NEW c \in Clients, AuthTimeout(c) PROVE AuthIInv'
    BY <1>4 DEF AuthTimeout
<1>5. ASSUME NEW c \in Clients, Close(c) PROVE AuthIInv'
    BY <1>5 DEF Close
<1>6. ASSUME NEW c \in Clients, NEW old \in Passwords \cup {Empty},
             AuthRequest(c, old)
      PROVE  AuthIInv'
    BY <1>6 DEF AuthRequest
<1>7. ASSUME NEW c \in Clients, NEW old \in Passwords \cup {Empty},
             AuthSetRefused(c, old) \/ AuthSetFails(c, old)
      PROVE  AuthIInv'
  <2>1. /\ UNCHANGED <<server, restrict, shadow, nvram, clients, root, hung,
                       can_modify, auth_waiter, told>>
        /\ waiter' \subseteq waiter
      BY <1>7, Zenon DEF AuthSetRefused, AuthSetFails
  <2> QED
      BY <2>1
<1>8. ASSUME NEW c \in Clients, NEW old \in Passwords \cup {Empty},
             NEW new \in Passwords \cup {Empty}, NEW saved \in BOOLEAN,
             AuthSet(c, old, new, saved)
      PROVE  AuthIInv'
    BY <1>8, Zenon DEF AuthSet
<1>9. CASE Shutdown
    BY <1>9 DEF Shutdown
<1>10. CASE Restart
    BY <1>10, Zenon DEF Restart, Start
<1>11. CASE UNCHANGED vars
  <2>1. TypeOK' /\ RestrictedRights' /\ TimerHasClient'
      BY <1>11, Zenon DEF vars
  <2>2. ToldTruth' /\ PasswordEnforced'
      BY <1>11, Zenon DEF vars
  <2> QED
      BY <2>1, <2>2, Zenon
<1> HIDE DEF AuthIInv, TypeOK, RestrictedRights, TimerHasClient, ToldTruth,
        PasswordEnforced, WriteAuthenticate, Return, SetAuthMode, sess
<1> QED
    BY <1>1, <1>2, <1>3, <1>4, <1>5, <1>6, <1>7, <1>8, <1>9, <1>10, <1>11 DEF Next

LEMMA AuthInductive == Spec => []AuthIInv
BY AuthInitInv, AuthStepInv, PTL DEF Spec

(* While clients are restricted, only root and clients with a running timer *)
(* may modify the system.                                                   *)
THEOREM RightsAlwaysRestricted == Spec => []RestrictedRights
BY AuthInductive, PTL DEF AuthIInv

(* Every client that is still there knows its right. *)
THEOREM AlwaysToldTruth == Spec => []ToldTruth
BY AuthInductive, PTL DEF AuthIInv

(* A password always restricts the clients. *)
THEOREM PasswordAlwaysEnforced == Spec => []PasswordEnforced
BY AuthInductive, PTL DEF AuthIInv

(* No timer outlives its client. *)
THEOREM TimerAlwaysHasClient == Spec => []TimerHasClient
BY AuthInductive, PTL DEF AuthIInv
=============================================================================
