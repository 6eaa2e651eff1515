-------------------------------- MODULE I2c ---------------------------------
(***************************************************************************)
(* The I2C driver (i2c/mx35): mx35_send and mx35_recv with the functions   *)
(* of wait.c they are made of, against the controller, its interrupt, a    *)
(* slave that may not answer and another master on the bus.                *)
(*                                                                         *)
(* The interrupt is attached with InterruptAttachEvent: delivering it      *)
(* masks it, and mx35_wait_status unmasks it when it has seen its cause.   *)
(* The caller is single-threaded; the interleaving is with the hardware    *)
(* and the time-out.                                                       *)
(***************************************************************************)
EXTENDS Integers, Sequences

CONSTANTS
    MaxLen,      \* bound: bytes of a message
    OtherMaster  \* there is a second master on the bus

ASSUME I2cAssumption == MaxLen \in Nat \ {0} /\ OtherMaster \in BOOLEAN

VARIABLES
    pc,        \* place in the driver
    op, len, stop, todo,   \* the call: direction, its length, stop; bytes to go
    addrs,     \* address bytes still to be sent
    restart,   \* dev->restart
    ret,       \* the result of the call, or what it will be after a reset
    buf,       \* the bytes received: the slave's are numbered from 1
    msta, iien, mtx, txak,   \* bits of CTRREG
    iif, st,   \* STSREG_IIF, and the other bits that go with it
    shift,     \* external: the byte being shifted, if any
    dat,       \* external: the number of the byte in DATREG
    acked,     \* history: data bytes acknowledged by the receiver
    other,     \* external: the other master is using the bus
    masked, pend   \* external: the interrupt is masked, its event is pending

call == <<op, len, stop>>
ctr == <<msta, iien, mtx, txak>>
hw == <<ctr, iif, st, shift, dat>>
intr == <<masked, pend>>
vars == <<pc, call, todo, addrs, restart, ret, buf, hw, acked, other, intr>>

PC == {"idle", "busbusy", "start", "addr", "byte", "dummy", "wait", "late",
       "check", "reset", "end"}
Results == {"none", "DONE", "ERROR", "NACK", "ARBL"}

BitsOK ==
    /\ stop \in BOOLEAN /\ restart \in BOOLEAN
    /\ msta \in BOOLEAN /\ iien \in BOOLEAN /\ mtx \in BOOLEAN /\ txak \in BOOLEAN
    /\ iif \in BOOLEAN /\ other \in BOOLEAN /\ masked \in BOOLEAN /\ pend \in BOOLEAN

ValuesOK ==
    /\ pc \in PC /\ op \in {"send", "recv"}
    /\ len \in 0..MaxLen /\ todo \in 0..len /\ addrs \in 0..3 /\ ret \in Results
    /\ buf \in Seq(0..(MaxLen + 1)) /\ Len(buf) <= len
    /\ st \in {"none", "ack", "nack", "arbl", "aas", "error", "in"}
    /\ shift \in {"none", "out", "in"} /\ dat \in 0..(MaxLen + 1) /\ acked \in 0..MaxLen

TypeOK == BitsOK /\ ValuesOK

(* After mx35_init.                                                        *)
Init ==
    /\ pc = "idle" /\ op = "send" /\ len = 0 /\ stop = TRUE /\ todo = 0
    /\ addrs = 0 /\ restart = FALSE /\ ret = "none" /\ buf = <<>>
    /\ msta = FALSE /\ iien = TRUE /\ mtx = FALSE /\ txak = FALSE
    /\ iif = FALSE /\ st = "none" /\ shift = "none" /\ dat = 0
    /\ acked = 0 /\ other = FALSE /\ masked = FALSE /\ pend = FALSE

(***************************************************************************)
(* mx35_send and mx35_recv                                                 *)
(***************************************************************************)

(* A call with at least one byte (none returns at once).  An address takes *)
(* one byte, or two, or three to read from a 10-bit one.                   *)
Call(o, l, s, tenbit) ==
    /\ pc = "idle"
    /\ op' = o /\ len' = l /\ stop' = s /\ todo' = l
    /\ addrs' = IF ~tenbit THEN 1 ELSE IF o = "recv" THEN 3 ELSE 2
    /\ ret' = "none" /\ buf' = <<>> /\ acked' = 0
    /\ pc' = "busbusy"
    /\ UNCHANGED <<restart, hw, other, intr>>

(* The controller's state after mx35_i2c_reset.                            *)
Cleared ==
    /\ msta' = FALSE /\ iien' = FALSE /\ mtx' = FALSE /\ txak' = FALSE
    /\ iif' = FALSE /\ st' = "none" /\ shift' = "none" /\ dat' = 0
    /\ restart' = FALSE

(* mx35_wait_bus_not_busy: the bus is the driver's already, or it is free, *)
(* or, after a million tries, a reset has not freed it.                    *)
WaitBusNotBusy ==
    /\ pc = "busbusy"
    /\ \/ /\ restart \/ ~(msta \/ other)
          /\ pc' = "start"
          /\ UNCHANGED <<restart, ret, hw>>
       \/ /\ ~restart /\ (msta \/ other)
          /\ Cleared
          /\ IF other THEN pc' = "idle" /\ ret' = "ERROR"
                      ELSE pc' = "start" /\ UNCHANGED ret
    /\ UNCHANGED <<call, todo, addrs, buf, acked, other, intr>>

(* mx35_sendaddr7, mx35_sendaddr10: become master, or repeat the start,    *)
(* and wait until the bus is busy; if it is not in time, reset.            *)
Start ==
    /\ pc = "start"
    /\ \/ /\ msta' = TRUE /\ iien' = TRUE /\ mtx' = TRUE /\ txak' = FALSE
          /\ dat' = 0
          /\ pc' = "addr"
          /\ UNCHANGED <<restart, ret, iif, st, shift>>
       \/ Cleared /\ pc' = "idle" /\ ret' = "ERROR"
    /\ UNCHANGED <<call, todo, addrs, buf, acked, other, intr>>

(* mx35_sendbyte: write a byte of the address or of the data.              *)
SendByte ==
    /\ pc \in {"addr", "byte"}
    /\ mtx' = TRUE /\ shift' = "out"
    /\ pc' = "wait"
    /\ UNCHANGED <<call, todo, addrs, restart, ret, buf, msta, iien, txak, iif, st, dat,
                   acked, other, intr>>

(* mx35_recv: turn round, with an acknowledgement unless one byte is       *)
(* wanted, and read the data register, which starts the first byte.        *)
DummyRead ==
    /\ pc = "dummy"
    /\ msta' = TRUE /\ iien' = TRUE /\ mtx' = FALSE /\ txak' = (todo = 1)
    /\ shift' = "in"
    /\ pc' = "wait"
    /\ UNCHANGED <<call, todo, addrs, restart, ret, buf, iif, st, dat, acked, other, intr>>

(***************************************************************************)
(* mx35_wait_status                                                        *)
(***************************************************************************)

(* The cause is there: clear it, unmask, return the status.                *)
Seen == iif' = FALSE /\ masked' = FALSE /\ pc' = "check"

(* InterruptWait returns with an event; it may be an old one.              *)
Event ==
    /\ pc = "wait" /\ pend
    /\ pend' = FALSE
    /\ IF iif THEN Seen ELSE UNCHANGED <<iif, masked, pc>>
    /\ UNCHANGED <<call, todo, addrs, restart, ret, buf, ctr, st, shift, dat, acked, other>>

(* InterruptWait times out.                                                *)
TimerTimeout == ~pend

Timeout ==
    /\ pc = "wait" /\ TimerTimeout
    /\ pc' = "late"
    /\ UNCHANGED <<call, todo, addrs, restart, ret, buf, hw, acked, other, intr>>

(* The status is read all the same; without a cause, reset and fail.  The  *)
(* wait at the end of a recv without stop ignores the failure.             *)
Late ==
    /\ pc = "late"
    /\ \/ iif /\ Seen /\ UNCHANGED ret
       \/ /\ ~iif
          /\ pc' = "reset" /\ ret' = IF todo = 0 /\ op = "recv" THEN "none" ELSE "ERROR"
          /\ UNCHANGED <<iif, masked>>
    /\ UNCHANGED <<call, todo, addrs, restart, buf, ctr, st, shift, dat, acked, other, pend>>

Reset ==
    /\ pc = "reset"
    /\ Cleared
    /\ pc' = IF ret = "none" THEN "end" ELSE "idle"
    /\ UNCHANGED <<call, todo, addrs, ret, buf, acked, other, intr>>

(***************************************************************************)
(* What the callers of mx35_wait_status do with the status                 *)
(***************************************************************************)

Fail(r) == pc' = "reset" /\ ret' = r /\ UNCHANGED <<todo, addrs, buf, ctr, shift, dat>>

(* Mutant: STSREG_RXAK is not looked at.                                   *)
TakenMutant == st \in {"ack", "nack"}

Taken == st = "ack"

(* mx35_sendbyte: the byte was acknowledged, or the call fails.            *)
Sent ==
    /\ pc = "check" /\ (addrs > 0 \/ op = "send")
    /\ \/ st = "error" /\ Fail("ERROR")
       \/ st = "arbl" /\ Fail("ARBL")
       \/ st = "aas" /\ Fail("ERROR")
       \/ st = "nack" /\ Fail("NACK")
       \/ /\ Taken
          /\ IF addrs > 0 THEN addrs' = addrs - 1 /\ UNCHANGED todo
                          ELSE todo' = todo - 1 /\ UNCHANGED addrs
          /\ pc' = CASE addrs > 1 -> "addr"
                     [] addrs <= 1 /\ op = "recv" -> "dummy"
                     [] addrs <= 1 /\ op = "send" -> IF todo' = 0 THEN "end" ELSE "byte"
          /\ UNCHANGED <<ret, buf, ctr, shift, dat>>
    /\ UNCHANGED <<call, restart, iif, st, acked, other, intr>>

(* Mutant: the next byte is refused one byte too late.                     *)
NackMutant == todo = 1

(* The acknowledgement is turned off for the last byte.                    *)
Nack == todo = 2

Stored(d) == Append(buf, d)

(* mx35_recvbyte: refuse the next byte, or stop, and read, which starts    *)
(* the next byte if the controller is still master.                        *)
Received ==
    /\ pc = "check" /\ addrs = 0 /\ op = "recv" /\ todo > 0
    /\ \/ st # "in" /\ Fail("ERROR")
       \/ /\ st = "in"
          /\ IF Nack THEN txak' = TRUE /\ UNCHANGED <<msta, iien>>
             ELSE IF todo = 1 /\ stop THEN txak' = TRUE /\ msta' = FALSE /\ iien' = FALSE
             ELSE UNCHANGED <<txak, msta, iien>>
          /\ UNCHANGED mtx
          /\ buf' = Stored(dat)
          /\ shift' = IF msta' THEN "in" ELSE "none"
          /\ todo' = todo - 1
          /\ pc' = IF todo > 1 \/ ~stop THEN "wait" ELSE "end"
          /\ UNCHANGED <<addrs, ret, dat>>
    /\ UNCHANGED <<call, restart, iif, st, acked, other, intr>>

(* A recv without stop has waited for the byte that its last read started. *)
ExtraSeen ==
    /\ pc = "check" /\ addrs = 0 /\ op = "recv" /\ todo = 0
    /\ pc' = "end"
    /\ UNCHANGED <<call, todo, addrs, restart, ret, buf, hw, acked, other, intr>>

(* Mutant: a send does not give up the bus.                                *)
EndSendMutant == UNCHANGED ctr

(* mx35_send: out16(CTRREG, CTRREG_IEN) sends the stop.                    *)
EndSend == msta' = FALSE /\ iien' = FALSE /\ mtx' = FALSE /\ txak' = FALSE

End ==
    /\ pc = "end"
    /\ IF stop /\ op = "send" THEN EndSend ELSE UNCHANGED ctr
    /\ restart' = ~stop /\ ret' = "DONE"
    /\ pc' = "idle"
    /\ UNCHANGED <<call, todo, addrs, buf, iif, st, shift, dat, acked, other, intr>>

(***************************************************************************)
(* External: the controller, the slave and the other master                *)
(***************************************************************************)

Shifted(o) ==
    /\ shift # "none" /\ shift' = "none"
    /\ iif' = TRUE /\ st' = o
    /\ UNCHANGED <<pc, call, todo, addrs, restart, ret, buf, iien, mtx, txak, intr>>

(* A byte was sent: taken, refused or lost to the other master.            *)
OutDone(o) ==
    /\ shift = "out"
    /\ Shifted(o)
    /\ IF o \in {"arbl", "aas"}
         THEN OtherMaster /\ msta' = FALSE /\ other' = TRUE
         ELSE ~other /\ UNCHANGED <<msta, other>>
    /\ acked' = IF o = "ack" /\ addrs = 0 THEN acked + 1 ELSE acked
    /\ UNCHANGED dat

(* A byte was received, acknowledged unless TXAK is set.                   *)
InDone ==
    /\ shift = "in" /\ msta
    /\ Shifted("in")
    /\ dat' = dat + 1
    /\ acked' = IF txak THEN acked ELSE acked + 1
    /\ UNCHANGED <<msta, other>>

Interrupt ==
    /\ iif /\ iien /\ ~masked
    /\ masked' = TRUE /\ pend' = TRUE
    /\ UNCHANGED <<pc, call, todo, addrs, restart, ret, buf, hw, acked, other>>

OtherUses ==
    /\ OtherMaster /\ ~msta
    /\ other' = ~other
    /\ UNCHANGED <<pc, call, todo, addrs, restart, ret, buf, hw, acked, intr>>

Driver ==
    \/ WaitBusNotBusy \/ Start \/ SendByte \/ DummyRead
    \/ Event \/ Timeout \/ Late \/ Reset
    \/ Sent \/ Received \/ ExtraSeen \/ End

Hardware == InDone \/ Interrupt \/ \E o \in {"ack", "nack", "arbl", "aas", "error"} : OutDone(o)

Next ==
    \/ Driver \/ Hardware \/ OtherUses
    \/ \E o \in {"send", "recv"}, l \in 1..MaxLen, s, tenbit \in BOOLEAN : Call(o, l, s, tenbit)

Spec == Init /\ [][Next]_vars /\ WF_vars(Driver)

(***************************************************************************)
(* Properties                                                              *)
(***************************************************************************)

(* A call that reports DONE has moved all its bytes: the slave has         *)
(* acknowledged each byte sent, and the buffer has the slave's bytes in    *)
(* order, none twice and none lost in the dummy read (recv.c).             *)
DoneMeansAll ==
    pc = "idle" /\ ret = "DONE" =>
        IF op = "send" THEN acked = len ELSE buf = [k \in 1..len |-> k]

(* A receiving master acknowledges every byte but the last: a slave whose  *)
(* last byte was acknowledged would keep driving the bus (recv.c, TXAK).   *)
LastByteRefused ==
    op = "recv" => acked < len /\ (pc = "idle" /\ ret = "DONE" => acked = len - 1)

(* A call that failed, and one that stopped, has given up the bus, and the *)
(* next call waits for a free bus: no restart is left over from them.      *)
BusGivenUp ==
    pc = "idle" /\ (ret \in {"ERROR", "NACK", "ARBL"} \/ (ret = "DONE" /\ stop)) =>
        ~msta /\ ~restart /\ shift = "none"

(* A time-out may race the interrupt: the reset then clears the cause of   *)
(* an interrupt that is already delivered and masked, and the next wait    *)
(* finds an event without a cause.  A later call that is done has unmasked *)
(* the interrupt again (a recv without stop may end in such a reset).      *)
UnmaskedWhenDone ==
    pc = "idle" /\ ret = "DONE" /\ (op = "send" \/ stop) => ~masked

(* Every call returns: a slave that never answers ends in a time-out.      *)
CallsReturn == (pc # "idle") ~> (pc = "idle")

(* A call without stop that reports DONE sends no stop: the driver still   *)
(* owns the bus for the restart that the next call begins with.            *)
OwnerForRestart == pc = "idle" /\ restart => msta

(***************************************************************************)
(* The inductive invariant                                                 *)
(***************************************************************************)

Waiting == pc \in {"wait", "late"}

(* A byte moves only while the driver waits for it or is about to reset,   *)
(* and the driver waits for a byte that moves or has moved.                *)
ByteAwaited ==
    /\ shift # "none" \/ iif => Waiting \/ pc = "reset"
    /\ iif => shift = "none"
    /\ Waiting => shift # "none" \/ iif
    /\ shift = "in" => msta

(* The driver's phases: the address, the bytes sent, the bytes received.   *)
Addressing == addrs > 0
Sending == addrs = 0 /\ op = "send"
Receiving == addrs = 0 /\ op = "recv"

(* A byte has moved that the driver has not counted yet.                   *)
Moved == (Waiting /\ iif) \/ pc = "check"

(* Which way the byte goes, and what the status can say of it.             *)
Direction ==
    /\ shift = "out" => Addressing \/ Sending
    /\ shift = "in" => Receiving
    /\ Moved =>
           IF Receiving THEN st = "in" ELSE st \in {"ack", "nack", "arbl", "aas", "error"}

(* Where the driver is in each phase.                                      *)
Place ==
    /\ op = "recv" \/ pc # "idle" => len > 0
    /\ pc \in {"busbusy", "start", "addr"} => Addressing
    /\ Addressing /\ pc # "idle" => todo = len /\ buf = <<>> /\ acked = 0
    /\ Addressing => pc \notin {"byte", "dummy", "end"}
    /\ pc = "byte" => Sending /\ todo > 0
    /\ pc = "dummy" => Receiving /\ todo = len /\ buf = <<>> /\ acked = 0
    /\ pc \notin {"idle", "busbusy", "start"} /\ (Addressing \/ pc = "dummy") => dat = 0
    /\ Sending /\ (Waiting \/ pc = "check") => todo > 0
    /\ pc = "end" => todo = 0
    /\ pc \notin {"idle", "reset"} => ret = "none"
    /\ pc = "reset" /\ ret = "none" => Receiving /\ todo = 0
    /\ pc = "reset" => ret # "DONE"

(* A byte sent is acknowledged once, and counted when the driver sees it.  *)
SendCount ==
    op = "send" =>
        /\ acked <= len
        /\ Sending /\ (pc \in {"byte", "end"} \/ shift = "out") => acked = len - todo
        /\ Sending /\ shift = "out" => todo > 0
        /\ Sending /\ Moved => acked = len - todo + (IF st = "ack" THEN 1 ELSE 0)

(* Of n bytes, all but the last one of the call are acknowledged.          *)
AckedOf(n) == IF n < len THEN n ELSE len - 1

(* The bytes received: those in the buffer, and one in the data register;  *)
(* TXAK is set from the last byte on, so that all but this one were        *)
(* acknowledged.                                                           *)
RecvCount ==
    op = "recv" =>
        /\ acked < len
        /\ Receiving /\ (shift = "in" \/ Moved) =>
               buf = [k \in 1..(len - todo) |-> k] /\ acked = AckedOf(dat)
        /\ Receiving /\ shift = "in" => dat = len - todo
        /\ Receiving /\ Moved => dat = len - todo + 1
        /\ Receiving /\ (shift = "in" \/ Moved) => (txak <=> todo <= 1)
        /\ pc \in {"end", "reset"} /\ ret = "none" =>
               buf = [k \in 1..len |-> k] /\ acked = len - 1

(* A stop, and a reset, leave the bus.                                     *)
Released ==
    /\ pc = "end" /\ op = "recv" /\ stop => ~msta
    /\ Receiving /\ todo = 0 /\ stop => ~Waiting /\ pc \notin {"check", "reset"}
    /\ Receiving /\ (Waiting \/ pc = "check") => msta

IInv ==
    /\ TypeOK /\ ByteAwaited /\ Direction /\ Place /\ SendCount /\ RecvCount /\ Released
    /\ DoneMeansAll /\ LastByteRefused /\ BusGivenUp
=============================================================================
