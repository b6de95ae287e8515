------------------------------ MODULE MCPlatform ------------------------------
(* Platform with two boot orders of a user and one of a mailbox, spelt with or  *)
(* without the final blank; and the requests to the BMC under it (Ipmi), with   *)
(* three mailbox blocks and a timeout of two units.  Platform takes a request   *)
(* that fails for one without an answer, so each is explored on its own (side). *)
EXTENDS Ipmi, Platform

CONSTANT MaxChanges   \* bound on saves and changes at the BMC together
VARIABLE side

MCOrders == {<<>>, <<"usb", "any">>}
MCDefaultOrder == <<"network", "any">>
MCBoxes == {<<<<"cdrom">>, TRUE>>, <<<<"cdrom">>, FALSE>>}

MCInit == /\ PlatformInit /\ Init
          /\ side = "platform" \/ (side = "ipmi" /\ nvram = <<>>)
MCNext == /\ side' = side
          /\ \/ /\ side = "platform" /\ PlatformNext /\ saves' + events' <= MaxChanges
                /\ UNCHANGED vars
             \/ side = "ipmi" /\ Next /\ UNCHANGED pvars
MCSpec == MCInit /\ [][MCNext]_<<vars, pvars, side>>
=============================================================================
