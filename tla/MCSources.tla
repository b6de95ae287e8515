----------------------------- MODULE MCSources -----------------------------
(***************************************************************************)
(* An instance of Network, with either one interface and many events, or   *)
(* two and the loopback interface and a few; and one of PxeSearch, with    *)
(* two searches of three names.  A behaviour is about one of the three,    *)
(* chosen at the start.                                                    *)
(***************************************************************************)
EXTENDS PxeSearch, Network

CONSTANTS m1, m2, m3, s1, s2, FewEvents

VARIABLE side

MCSearches == {s1, s2}
MCMacs == {m1, m2, m3}
MCMac == <<m1, m2, m3>>
MCConfs == {[m \in MCMacs |-> "none"],
            [m \in MCMacs |-> IF m = m1 THEN "static" ELSE "none"],
            [m \in MCMacs |-> IF m = m1 THEN "dhcp" ELSE "ignore"]}

MCInit ==
    /\ NetInit /\ PxeInit
    /\ \/ side \in {"one", "many"} /\ srch = [s \in Searches |-> NoSearch(TRUE)]
       \/ side = "search" /\ conf = [m \in Macs |-> "none"]

MCNext ==
    /\ \/ /\ side # "search" /\ NetNext
          /\ side = "one" => kernel'[2].st = "absent" /\ kernel'[3].st = "absent"
          /\ side = "many" => events' <= FewEvents /\ faults' = 0
          /\ UNCHANGED pxevars
       \/ side = "search" /\ PxeNext /\ UNCHANGED nvars
    /\ UNCHANGED side

MCSpec == MCInit /\ [][MCNext]_<<pxevars, nvars, side>>
=============================================================================
