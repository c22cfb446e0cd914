------------------------------ MODULE MCFraming ------------------------------
(***************************************************************************)
(* Both directions of the fragmentation layer in one run.  `Framing` with  *)
(* the constants of the run is what the ESP32 receives: the notifications  *)
(* of the Flipper, which may be lost one by one, and a receiver that       *)
(* resets when the link breaks.  Written is what the Flipper receives: the *)
(* ESP32 sees every write confirmed and breaks the link otherwise, and the *)
(* Flipper's receiver goes on with the next connection.                    *)
(***************************************************************************)
EXTENDS Framing

VARIABLE direction  \* "notified" or "written"

Written == INSTANCE Framing WITH Lossy <- FALSE, ReceiverResets <- FALSE, IdMod <- 2

MCInit == direction \in {"notified", "written"} /\ Init

MCNext ==
  /\ UNCHANGED direction
  /\ \/ direction = "notified" /\ Next
     \/ direction = "written" /\ Written!Next

MCSpec == MCInit /\ [][MCNext]_<<vars, direction>>
=============================================================================
