----------------------------- MODULE MCEnetTx -----------------------------
(* Model-checking instances of EnetTx.  One run takes both of the ways in  *)
(* which io-pkt calls the driver safely: several threads that transmit,    *)
(* without timestamp interrupts; and one thread with them.                 *)
EXTENDS EnetTx

CONSTANT Light   \* bound: with timestamps, packets come while fewer are in the ring

VARIABLE use     \* "threads" or "timestamps", fixed from the start

MCInit == Init /\ use \in {"threads", "timestamps"}

MCNext ==
    /\ Next
    /\ UNCHANGED use
    /\ use = "threads" => ievent' = {}
    /\ use = "timestamps" => /\ \A t \in Threads \ {Stack} : pc'[t] = "idle"
                             /\ queue' > queue => inuse < Light

MCSpec == MCInit /\ [][MCNext]_<<vars, use>> /\ Fairness
=============================================================================
