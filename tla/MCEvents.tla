------------------------------- MODULE MCEvents -------------------------------
(* Three parts that wait for events, each explored on its own (side) while the *)
(* others stay as they are: the event loop with three addresses and timers of  *)
(* zero or one unit; three children, of which one has its output read and one  *)
(* has input; and a boot task with a kernel, an initrd, a dtb and a signature. *)
EXTENDS Waiter, Process, BootTask
CONSTANTS p1, p2, p3, image, initrd, dtb, image_sig
VARIABLE side

MCDelays == {0, 1}
MCRank == [r \in Basic |-> IF r = image THEN 1 ELSE IF r = initrd THEN 2 ELSE 3]

allvars == <<wvars, pvars, bvars, side>>

MCInit == WaiterInit /\ ProcessInit /\ TaskInit /\ side \in {"waiter", "process", "boot"}
MCNext == /\ side' = side
          /\ \/ side = "waiter" /\ WaiterNext /\ UNCHANGED <<pvars, bvars>>
             \/ side = "process" /\ ProcessNext /\ UNCHANGED <<wvars, bvars>>
             \/ side = "boot" /\ TaskNext /\ UNCHANGED <<wvars, pvars>>

\* The fairness of the three specifications, each for its own side.
MCSpec ==
    /\ MCInit /\ [][MCNext]_allvars
    /\ WF_allvars(/\ side = "waiter" /\ \E w \in TimeWaiters : timeout[w] <= now
                  /\ \E ready \in SUBSET Addr : WaiterPoll(ready)
                  /\ UNCHANGED <<pvars, bvars, side>>)
    /\ WF_allvars(/\ side = "waiter"
                  /\ \/ \E w \in Addr : SkipIo(w) \/ SkipTimer(w)
                     \/ SomeIoCallback \/ SomeTimeCallback
                     \/ StartTimers \/ Finish
                  /\ UNCHANGED <<pvars, bvars, side>>)
    /\ WF_allvars(side = "process" /\ (\E err \in SUBSET Proc : Poll(err))
                  /\ UNCHANGED <<wvars, bvars, side>>)
    /\ WF_allvars(side = "process" /\ Callback /\ UNCHANGED <<wvars, bvars, side>>)
    /\ WF_allvars(side = "process" /\ (\E p \in Proc : ChildExit(p))
                  /\ UNCHANGED <<wvars, bvars, side>>)
    /\ \A r \in Resources :
          WF_allvars(/\ side = "boot" /\ \E exit_ok \in BOOLEAN : ProcessExit(r, exit_ok)
                     /\ UNCHANGED <<wvars, pvars, side>>)
    /\ WF_allvars(/\ side = "boot" /\ \E fail \in SUBSET Resources : NetworkUp(fail)
                  /\ UNCHANGED <<wvars, pvars, side>>)
=============================================================================
