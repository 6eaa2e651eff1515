---------------------------- MODULE SpiLockSpec -----------------------------
(***************************************************************************)
(* What the device lock of the SPI master framework promises its clients:  *)
(* a device has at most one holder, nobody else's request gets at a held   *)
(* device, and only the holder, or the end of its connection, frees it.    *)
(* SpiMaster implements this.                                              *)
(***************************************************************************)
EXTENDS Integers

CONSTANTS Clients, Devices, Nobody

VARIABLES
    holder,   \* the client that holds a device, or Nobody
    used      \* the last transfer: whose, on what device, and its parity

vars == <<holder, used>>

Init ==
    /\ holder = [d \in Devices |-> Nobody]
    /\ used = [by |-> Nobody, dev |-> Nobody, n |-> 0]

(* A request of c for device d: it may lock it, or unlock it, and may then *)
(* transfer.                                                               *)
Request(c, d) ==
    /\ holder[d] \in {Nobody, c}
    /\ holder' \in {holder, [holder EXCEPT ![d] = c],
                            [holder EXCEPT ![d] = Nobody]}
    /\ used' \in {used, [by |-> c, dev |-> d, n |-> 1 - used.n]}

Close(c) ==
    /\ holder' = [d \in Devices |-> IF holder[d] = c THEN Nobody ELSE holder[d]]
    /\ UNCHANGED used

Next == \E c \in Clients : Close(c) \/ \E d \in Devices : Request(c, d)

Spec == Init /\ [][Next]_vars
=============================================================================
