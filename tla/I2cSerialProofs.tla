------------------------- MODULE I2cSerialProofs --------------------------
(***************************************************************************)
(* Proofs about two drivers that move a byte per interrupt: I2c, for       *)
(* messages of any length, and SerialTx, for any number of characters and  *)
(* any FIFO.                                                               *)
(***************************************************************************)
EXTENDS I2c, SerialTx, TLAPS

(* Taking one more byte.                                                   *)
LEMMA Count ==
  \A n \in Nat : Append([k \in 1..n |-> k], n + 1) = [k \in 1..(n + 1) |-> k]
OBVIOUS

(* mx35_init leaves the controller idle.                                   *)
LEMMA InitIInv == Init => IInv
<1> SUFFICES ASSUME Init PROVE IInv OBVIOUS
<1> USE I2cAssumption DEF Init
<1>1. BitsOK BY Zenon DEF BitsOK
<1>2. ValuesOK BY DEF ValuesOK, PC, Results
<1>3. ByteAwaited /\ Direction BY DEF ByteAwaited, Direction, Waiting, Moved
<1>4. Place /\ SendCount /\ RecvCount /\ Released
  BY DEF Place, SendCount, RecvCount, Released, Addressing, Sending, Receiving,
     Waiting, Moved
<1>5. DoneMeansAll /\ LastByteRefused /\ BusGivenUp
  BY DEF DoneMeansAll, LastByteRefused, BusGivenUp
<1> QED BY <1>1, <1>2, <1>3, <1>4, <1>5 DEF IInv, TypeOK

(* Every step of the driver, of the controller and of the bus keeps it.    *)
LEMMA NextIInv == ASSUME IInv, [Next]_vars PROVE IInv'
<1> USE I2cAssumption
<1> USE DEF IInv, TypeOK, Waiting, Addressing, Sending, Receiving, Moved, call, ctr,
    hw, intr
<1>1. ASSUME WaitBusNotBusy PROVE IInv'
  <2>1. BitsOK' BY <1>1, Zenon DEF WaitBusNotBusy, Cleared, BitsOK
  <2>2. ValuesOK'
    BY <1>1 DEF WaitBusNotBusy, Cleared, ValuesOK, PC, Results, ByteAwaited, Place,
       SendCount, RecvCount, AckedOf
  <2>3. /\ ByteAwaited' /\ Direction' /\ Place' /\ SendCount'
        /\ Released' /\ DoneMeansAll' /\ LastByteRefused' /\ BusGivenUp'
    BY <1>1 DEF WaitBusNotBusy, Cleared, ByteAwaited, Direction, Place, SendCount,
       Released, DoneMeansAll, LastByteRefused, BusGivenUp
  <2>4. RecvCount' BY <1>1 DEF WaitBusNotBusy, Cleared, Place, RecvCount
  <2> QED BY <2>1, <2>2, <2>3, <2>4
<1>2. ASSUME Start PROVE IInv'
  <2>1. BitsOK' BY <1>2, Zenon DEF Start, Cleared, BitsOK
  <2>2. ValuesOK'
    BY <1>2 DEF Start, Cleared, ValuesOK, PC, Results, ByteAwaited, Place, SendCount,
       RecvCount, AckedOf
  <2>3. /\ ByteAwaited' /\ Direction' /\ Place' /\ SendCount'
        /\ Released' /\ DoneMeansAll' /\ LastByteRefused' /\ BusGivenUp'
    BY <1>2 DEF Start, Cleared, ByteAwaited, Direction, Place, SendCount, Released,
       DoneMeansAll, LastByteRefused, BusGivenUp
  <2>4. RecvCount' BY <1>2 DEF Start, Cleared, Place, RecvCount
  <2> QED BY <2>1, <2>2, <2>3, <2>4
<1>3. ASSUME SendByte PROVE IInv'
  <2>1. BitsOK' BY <1>3, Zenon DEF SendByte, BitsOK
  <2>2. ValuesOK' BY <1>3 DEF SendByte, ValuesOK, PC, Results, ByteAwaited, Place
  <2>3. ByteAwaited' /\ Place' /\ DoneMeansAll' /\ LastByteRefused' /\ BusGivenUp'
    BY <1>3 DEF SendByte, ByteAwaited, Place, DoneMeansAll, LastByteRefused,
       BusGivenUp
  <2>4. Direction' /\ SendCount'
    BY <1>3 DEF SendByte, ByteAwaited, Direction, Place, SendCount
  <2>5. RecvCount' /\ Released' BY <1>3 DEF SendByte, Place, RecvCount, Released
  <2> QED BY <2>1, <2>2, <2>3, <2>4, <2>5
<1>4. ASSUME DummyRead PROVE IInv'
  <2>1. BitsOK' BY <1>4, Zenon DEF DummyRead, BitsOK
  <2>2. ValuesOK' BY <1>4 DEF DummyRead, ValuesOK, PC, Results, ByteAwaited, Place
  <2>3. ByteAwaited' /\ Place' /\ DoneMeansAll' /\ LastByteRefused' /\ BusGivenUp'
    BY <1>4 DEF DummyRead, ByteAwaited, Place, DoneMeansAll, LastByteRefused,
       BusGivenUp
  <2>4. Direction' BY <1>4 DEF DummyRead, ByteAwaited, Direction, Place
  <2>5. SendCount' /\ Released' BY <1>4 DEF DummyRead, Place, SendCount, Released
  <2>6. RecvCount'
    <3>1. /\ pc = "dummy" /\ Receiving /\ todo = len /\ buf = <<>> /\ acked = 0 /\ dat = 0
          /\ len \in 1..MaxLen /\ ~iif
      BY <1>4 DEF DummyRead, ValuesOK, ByteAwaited, Place
    <3>2. UNCHANGED <<op, len, todo, addrs, buf, acked, dat, iif>> /\ pc' = "wait"
      BY <1>4 DEF DummyRead
    <3>3. txak' <=> todo <= 1
      <4>1. txak' = (todo = 1) BY <1>4, Zenon DEF DummyRead
      <4>2. (todo = 1) <=> (todo <= 1) BY <3>1
      <4> QED BY <4>1, <4>2, Zenon
    <3>4. buf' = [k \in 1..(len - todo) |-> k]
      BY <3>1, <3>2
    <3> QED BY <3>1, <3>2, <3>3, <3>4 DEF RecvCount, AckedOf
  <2> QED BY <2>1, <2>2, <2>3, <2>4, <2>5, <2>6
<1>5. ASSUME Event PROVE IInv'
  <2>1. BitsOK' BY <1>5, Zenon DEF Event, Seen, BitsOK
  <2>2. ValuesOK'
    BY <1>5 DEF Event, Seen, ValuesOK, PC, Results, ByteAwaited, Place, SendCount,
       RecvCount, AckedOf
  <2>3. /\ ByteAwaited' /\ Direction' /\ Place' /\ SendCount'
        /\ Released' /\ DoneMeansAll' /\ LastByteRefused' /\ BusGivenUp'
    BY <1>5 DEF Event, Seen, ByteAwaited, Direction, Place, SendCount, Released,
       DoneMeansAll, LastByteRefused, BusGivenUp
  <2>4. RecvCount' BY <1>5 DEF Event, Seen, ValuesOK, Place, RecvCount, AckedOf
  <2> QED BY <2>1, <2>2, <2>3, <2>4
<1>6. ASSUME Timeout PROVE IInv'
  <2>1. BitsOK' BY <1>6, Zenon DEF Timeout, BitsOK
  <2>2. ValuesOK' BY <1>6 DEF Timeout, ValuesOK, PC, Results, ByteAwaited, Place
  <2>3. /\ ByteAwaited' /\ Direction' /\ Place' /\ SendCount'
        /\ Released' /\ DoneMeansAll' /\ LastByteRefused' /\ BusGivenUp'
    BY <1>6 DEF Timeout, ByteAwaited, Direction, Place, SendCount, Released,
       DoneMeansAll, LastByteRefused, BusGivenUp
  <2>4. RecvCount' BY <1>6 DEF Timeout, ValuesOK, Place, RecvCount, AckedOf
  <2> QED BY <2>1, <2>2, <2>3, <2>4
<1>7. ASSUME Late PROVE IInv'
  <2>1. BitsOK' BY <1>7, Zenon DEF Late, Seen, BitsOK
  <2>2. ValuesOK'
    BY <1>7 DEF Late, Seen, ValuesOK, PC, Results, ByteAwaited, Place, SendCount,
       RecvCount, AckedOf
  <2>3. /\ ByteAwaited' /\ Direction' /\ SendCount' /\ Released'
        /\ DoneMeansAll' /\ LastByteRefused' /\ BusGivenUp'
    BY <1>7 DEF Late, Seen, ByteAwaited, Direction, SendCount, Released, DoneMeansAll,
       LastByteRefused, BusGivenUp
  <2>4. Place' BY <1>7 DEF Late, Seen, ValuesOK, Place
  <2>5. RecvCount'
    BY <1>7 DEF Late, Seen, ValuesOK, ByteAwaited, Direction, Place, RecvCount,
       AckedOf
  <2> QED BY <2>1, <2>2, <2>3, <2>4, <2>5
<1>8. ASSUME Reset PROVE IInv'
  <2>1. BitsOK' BY <1>8, Zenon DEF Reset, Cleared, BitsOK
  <2>2. ValuesOK'
    BY <1>8 DEF Reset, Cleared, ValuesOK, PC, Results, ByteAwaited, Place, SendCount,
       RecvCount, AckedOf
  <2>3. ByteAwaited' /\ Direction' /\ Place' /\ RecvCount' /\ Released' /\ BusGivenUp'
    BY <1>8 DEF Reset, Cleared, ByteAwaited, Direction, Place, RecvCount, Released,
       BusGivenUp
  <2>4. SendCount' /\ DoneMeansAll' /\ LastByteRefused'
    BY <1>8 DEF Reset, Cleared, Place, SendCount, DoneMeansAll, LastByteRefused
  <2> QED BY <2>1, <2>2, <2>3, <2>4
<1>9. ASSUME Sent PROVE IInv'
  <2>1. BitsOK' BY <1>9, Zenon DEF Sent, Fail, Taken, BitsOK
  <2>2. ValuesOK'
    BY <1>9 DEF Sent, Fail, Taken, ValuesOK, PC, Results, ByteAwaited, Place
  <2>3. /\ ByteAwaited' /\ Place' /\ Released'
        /\ DoneMeansAll' /\ LastByteRefused' /\ BusGivenUp'
    BY <1>9 DEF Sent, Fail, Taken, ValuesOK, ByteAwaited, Place, Released,
       DoneMeansAll, LastByteRefused, BusGivenUp
  <2>4. Direction' /\ SendCount' /\ RecvCount'
    BY <1>9 DEF Sent, Fail, Taken, ValuesOK, ByteAwaited, Direction, Place, SendCount,
       RecvCount
  <2> QED BY <2>1, <2>2, <2>3, <2>4
<1>10. ASSUME Received PROVE IInv'
  <2>1. /\ msta /\ st = "in" /\ Receiving /\ todo \in 1..len /\ ~iif /\ pc = "check"
        /\ buf = [k \in 1..(len - todo) |-> k] /\ dat = len - todo + 1
        /\ acked = AckedOf(dat) /\ ret = "none" /\ (txak <=> todo <= 1) /\ len \in 1..MaxLen
    BY <1>10 DEF Received, ValuesOK, ByteAwaited, Direction, Place, RecvCount, Released
  <2>2. /\ todo' = todo - 1 /\ buf' = Append(buf, dat) /\ shift' = IF msta' THEN "in" ELSE "none"
        /\ pc' = IF todo > 1 \/ ~stop THEN "wait" ELSE "end"
    BY <1>10, <2>1 DEF Received, Fail, Stored
  <2>3. UNCHANGED <<op, len, stop, addrs, ret, dat, acked, iif, st, restart, mtx, other, masked, pend>>
    BY <1>10, <2>1 DEF Received, Fail
  <2>4. buf' = [k \in 1..(len' - todo') |-> k]
    BY <2>1, <2>2, <2>3, Count
  <2>5. msta' \in BOOLEAN /\ iien' \in BOOLEAN /\ txak' \in BOOLEAN
    BY <1>10, Zenon DEF Received, Fail, BitsOK
  <2>6. msta' <=> ~(todo = 1 /\ stop)
    <3>1. CASE Nack
      <4>1. msta' = msta BY <1>10, <2>1, <3>1, Zenon DEF Received
      <4> QED BY <2>1, <3>1, <4>1 DEF Nack
    <3>2. CASE ~Nack /\ todo = 1 /\ stop
      BY <1>10, <2>1, <3>2, Zenon DEF Received
    <3>3. CASE ~Nack /\ ~(todo = 1 /\ stop)
      BY <1>10, <2>1, <3>3, Zenon DEF Received
    <3> QED BY <3>1, <3>2, <3>3
  <2>7. txak' <=> todo' <= 1
    <3>1. CASE Nack
      <4>1. txak' BY <1>10, <2>1, <3>1, Zenon DEF Received
      <4> QED BY <2>2, <3>1, <4>1 DEF Nack
    <3>2. CASE ~Nack /\ todo = 1 /\ stop
      <4>1. txak' BY <1>10, <2>1, <3>2, Zenon DEF Received
      <4> QED BY <2>2, <3>2, <4>1
    <3>3. CASE ~Nack /\ ~(todo = 1 /\ stop)
      <4>1. txak' = txak BY <1>10, <2>1, <3>3, Zenon DEF Received
      <4> QED BY <2>1, <2>2, <3>3, <4>1 DEF Nack
    <3> QED BY <3>1, <3>2, <3>3
  <2> HIDE DEF IInv
  <2>8. BitsOK' BY <2>3, <2>5, Zenon DEF IInv, BitsOK
  <2>9. ValuesOK'
    <3>1. buf' \in Seq(0..(MaxLen + 1)) /\ Len(buf') <= len'
      BY <2>1, <2>2, <2>3, <2>4
    <3>2. todo' \in 0..len' /\ shift' \in {"none", "out", "in"} /\ pc' \in PC
      BY <2>1, <2>2, <2>3 DEF PC
    <3> QED BY <2>1, <2>3, <3>1, <3>2 DEF IInv, ValuesOK, AckedOf
  <2>10. ByteAwaited' /\ Direction'
    BY <2>1, <2>2, <2>3, <2>6 DEF ByteAwaited, Direction
  <2>11. Place'
    BY <2>1, <2>2, <2>3, <2>6 DEF Place
  <2>12. SendCount' /\ DoneMeansAll' /\ BusGivenUp'
    BY <2>1, <2>2, <2>3 DEF SendCount, DoneMeansAll, BusGivenUp
  <2>13. RecvCount' /\ LastByteRefused'
    BY <2>1, <2>2, <2>3, <2>4, <2>6, <2>7 DEF RecvCount, LastByteRefused, AckedOf
  <2>14. Released'
    BY <2>1, <2>2, <2>3, <2>6 DEF Released
  <2> QED BY <2>8, <2>9, <2>10, <2>11, <2>12, <2>13, <2>14 DEF IInv
<1>11. ASSUME ExtraSeen PROVE IInv'
  <2>1. BitsOK' BY <1>11, Zenon DEF ExtraSeen, BitsOK
  <2>2. ValuesOK' BY <1>11 DEF ExtraSeen, ValuesOK, PC, Results, ByteAwaited, Place
  <2>3. /\ ByteAwaited' /\ Direction' /\ Place' /\ SendCount'
        /\ Released' /\ DoneMeansAll' /\ LastByteRefused' /\ BusGivenUp'
    BY <1>11 DEF ExtraSeen, ByteAwaited, Direction, Place, SendCount, Released,
       DoneMeansAll, LastByteRefused, BusGivenUp
  <2>4. RecvCount' BY <1>11 DEF ExtraSeen, ValuesOK, Place, RecvCount, AckedOf
  <2> QED BY <2>1, <2>2, <2>3, <2>4
<1>12. ASSUME End PROVE IInv'
  <2>1. BitsOK' BY <1>12, Zenon DEF End, EndSend, BitsOK
  <2>2. ValuesOK'
    BY <1>12 DEF End, EndSend, ValuesOK, PC, Results, ByteAwaited, Place, SendCount,
       RecvCount, AckedOf
  <2>3. ByteAwaited' /\ Direction' /\ Place' /\ SendCount' /\ Released'
    BY <1>12 DEF End, EndSend, ByteAwaited, Direction, Place, SendCount, Released
  <2>4. RecvCount' BY <1>12 DEF End, EndSend, ByteAwaited, RecvCount
  <2>5. DoneMeansAll'
    BY <1>12 DEF End, ValuesOK, Place, SendCount, RecvCount, DoneMeansAll
  <2>6. LastByteRefused'
    BY <1>12 DEF End, EndSend, ValuesOK, Place, RecvCount, AckedOf, LastByteRefused
  <2>7. BusGivenUp'
    BY <1>12 DEF End, EndSend, ValuesOK, ByteAwaited, Released, BusGivenUp
  <2> QED BY <2>1, <2>2, <2>3, <2>4, <2>5, <2>6, <2>7
<1>13. ASSUME InDone PROVE IInv'
  <2>1. /\ shift = "in" /\ msta /\ Receiving /\ pc \in {"wait", "late", "reset"} /\ todo \in 0..len
        /\ buf = [k \in 1..(len - todo) |-> k] /\ dat = len - todo /\ acked = AckedOf(dat)
        /\ (txak <=> todo <= 1) /\ len \in 1..MaxLen
    BY <1>13 DEF InDone, ValuesOK, ByteAwaited, Direction, Place, RecvCount
  <2>2. shift' = "none" /\ iif' = TRUE /\ st' = "in" /\ dat' = dat + 1
    BY <1>13 DEF InDone, Shifted
  <2>3. UNCHANGED <<pc, op, len, stop, todo, addrs, restart, ret, buf, msta, iien, mtx, txak,
                    other, masked, pend>>
    BY <1>13 DEF InDone, Shifted
  <2>4. acked' = AckedOf(dat')
    BY <1>13, <2>1, <2>2, <2>3 DEF InDone, AckedOf
  <2>5. BitsOK' BY <2>2, <2>3, Zenon DEF BitsOK
  <2>6. ValuesOK'
    <3>1. dat' \in 0..(MaxLen + 1) /\ acked' \in 0..MaxLen
      BY <2>1, <2>2, <2>3, <2>4, I2cAssumption DEF AckedOf
    <3> QED BY <2>2, <2>3, <3>1 DEF ValuesOK
  <2> HIDE DEF IInv
  <2>7. ByteAwaited' /\ Direction' /\ SendCount'
    BY <2>1, <2>2, <2>3 DEF ByteAwaited, Direction, SendCount
  <2>8. Place' /\ Released'
    BY <2>1, <2>2, <2>3 DEF IInv, Place, Released
  <2>9. RecvCount'
    BY <2>1, <2>2, <2>3, <2>4 DEF RecvCount, AckedOf, IInv, Place, ValuesOK
  <2>10. DoneMeansAll' /\ LastByteRefused' /\ BusGivenUp'
    BY <2>1, <2>2, <2>3, <2>4 DEF DoneMeansAll, LastByteRefused, BusGivenUp, AckedOf
  <2> QED BY <2>5, <2>7, <2>8, <2>9, <2>10, <2>6 DEF IInv
<1>14. ASSUME Interrupt PROVE IInv'
  <2>1. BitsOK' BY <1>14, Zenon DEF Interrupt, BitsOK
  <2>2. /\ ValuesOK' /\ ByteAwaited' /\ Direction' /\ Place' /\ SendCount'
        /\ Released' /\ DoneMeansAll' /\ LastByteRefused' /\ BusGivenUp'
    BY <1>14 DEF Interrupt, ValuesOK, ByteAwaited, Direction, Place, SendCount,
       Released, DoneMeansAll, LastByteRefused, BusGivenUp
  <2>3. RecvCount' BY <1>14 DEF Interrupt, ValuesOK, Place, RecvCount, AckedOf
  <2> QED BY <2>1, <2>2, <2>3
<1>15. ASSUME NEW o \in {"ack", "nack", "arbl", "aas", "error"}, OutDone(o) PROVE IInv'
  <2>1. BitsOK' BY <1>15, Zenon DEF OutDone, Shifted, BitsOK
  <2>2. ValuesOK'
    BY <1>15 DEF OutDone, Shifted, ValuesOK, PC, Results, ByteAwaited, Place,
       SendCount, RecvCount, AckedOf
  <2>3. ByteAwaited' /\ Direction' /\ BusGivenUp'
    BY <1>15 DEF OutDone, Shifted, ByteAwaited, Direction, BusGivenUp
  <2>4. Place' /\ DoneMeansAll'
    BY <1>15 DEF OutDone, Shifted, ByteAwaited, Place, DoneMeansAll
  <2>5. SendCount'
    BY <1>15 DEF OutDone, Shifted, ValuesOK, ByteAwaited, Place, SendCount
  <2>6. RecvCount' /\ Released' /\ LastByteRefused'
    BY <1>15 DEF OutDone, Shifted, ByteAwaited, Direction, Place, RecvCount, Released,
       LastByteRefused
  <2> QED BY <2>1, <2>2, <2>3, <2>4, <2>5, <2>6
<1>16. ASSUME OtherUses PROVE IInv'
  <2>1. BitsOK' BY <1>16, Zenon DEF OtherUses, BitsOK
  <2>2. /\ ValuesOK' /\ ByteAwaited' /\ Direction' /\ Place' /\ SendCount'
        /\ Released' /\ DoneMeansAll' /\ LastByteRefused' /\ BusGivenUp'
    BY <1>16 DEF OtherUses, ValuesOK, ByteAwaited, Direction, Place, SendCount,
       Released, DoneMeansAll, LastByteRefused, BusGivenUp
  <2>3. RecvCount' BY <1>16 DEF OtherUses, ValuesOK, Place, RecvCount, AckedOf
  <2> QED BY <2>1, <2>2, <2>3
<1>17. ASSUME NEW o \in {"send", "recv"}, NEW l \in 1..MaxLen, NEW s \in BOOLEAN,
              NEW t \in BOOLEAN, Call(o, l, s, t)
       PROVE  IInv'
  <2>1. BitsOK' BY <1>17, Zenon DEF Call, BitsOK
  <2>2. ValuesOK' BY <1>17 DEF Call, ValuesOK, PC, Results, ByteAwaited, Place
  <2>3. /\ ByteAwaited' /\ Place' /\ SendCount' /\ RecvCount'
        /\ Released' /\ DoneMeansAll' /\ LastByteRefused' /\ BusGivenUp'
    BY <1>17 DEF Call, ByteAwaited, Place, SendCount, RecvCount, Released,
       DoneMeansAll, LastByteRefused, BusGivenUp
  <2>4. Direction' BY <1>17 DEF Call, ByteAwaited, Direction
  <2> QED BY <2>1, <2>2, <2>3, <2>4
<1>18. CASE UNCHANGED vars
  <2>1. BitsOK' BY <1>18, Zenon DEF vars, BitsOK
  <2>2. ValuesOK' /\ ByteAwaited' /\ Direction' /\ Place' /\ SendCount' /\ Released'
    BY <1>18 DEF vars, ValuesOK, ByteAwaited, Direction, Place, SendCount, Released
  <2>3. RecvCount' /\ DoneMeansAll' /\ LastByteRefused' /\ BusGivenUp'
    BY <1>18 DEF vars, RecvCount, AckedOf, DoneMeansAll, LastByteRefused, BusGivenUp
  <2> QED BY <2>1, <2>2, <2>3
<1> QED
  BY <1>1, <1>2, <1>3, <1>4, <1>5, <1>6, <1>7, <1>8, <1>9, <1>10, <1>11, <1>12, <1>13,
     <1>14, <1>15, <1>16, <1>17, <1>18 DEF Next, Driver, Hardware

LEMMA Invariant == Spec => []IInv
<1>1. IInv /\ [Next]_vars => IInv' BY NextIInv
<1> QED BY InitIInv, <1>1, PTL DEF Spec

(* The types hold for messages of any length: no counter runs past its     *)
(* bound, and the buffer is never written beyond the length of the call    *)
(* (mx35_recvbyte).                                                        *)
THEOREM TypeCorrect == Spec => []TypeOK
<1>1. IInv => TypeOK BY DEF IInv
<1> QED BY Invariant, <1>1, PTL

(* A call that reports DONE has sent or received every byte, in order,     *)
(* whatever the slave, the other master and the time-out do (send.c,       *)
(* recv.c).                                                                *)
THEOREM DoneCorrect == Spec => []DoneMeansAll
<1>1. IInv => DoneMeansAll BY DEF IInv
<1> QED BY Invariant, <1>1, PTL

(* A receiving master acknowledges all bytes but the last one (recv.c,     *)
(* TXAK).                                                                  *)
THEOREM LastByteCorrect == Spec => []LastByteRefused
<1>1. IInv => LastByteRefused BY DEF IInv
<1> QED BY Invariant, <1>1, PTL

(* A call that failed or stopped has left the bus and the restart flag     *)
(* behind it (wait.c, mx35_i2c_reset; send.c, recv.c).                     *)
THEOREM BusCorrect == Spec => []BusGivenUp
<1>1. IInv => BusGivenUp BY DEF IInv
<1> QED BY Invariant, <1>1, PTL

(***************************************************************************)
(* Serial output and flow control: SerialTx, for any number of characters  *)
(* and any level of the FIFO                                               *)
(***************************************************************************)

(* create_device leaves the UART enabled and the output not stopped.       *)
LEMMA TxInitially == TxInit => TxInv
<1> SUFFICES ASSUME TxInit PROVE TxInv OBVIOUS
<1> USE SerialAssumption DEF TxInit
<1>1. TxTypeOK
  <2>1. stty \in 0..MaxStty /\ ohflow \in BOOLEAN /\ irts \in BOOLEAN
        /\ obuf \in Seq({Data, Control}) /\ fifo \in 0..FifoLevel
    BY DEF TxInit
  <2>2. cr1 \subseteq Bits /\ cr \subseteq Bits /\ icr \subseteq Bits
    BY DEF TxInit, Bits
  <2>3. rts \in BOOLEAN /\ rtsd \in BOOLEAN /\ rxc \in {"none", "xon", "xoff", "full"}
    BY DEF TxInit, TxTypeOK, Bits
  <2>4. ohw \in BOOLEAN /\ osw \in BOOLEAN /\ over \in BOOLEAN
    BY DEF TxInit, TxTypeOK, Bits
  <2>5. tto_event \in BOOLEAN /\ queued \in BOOLEAN
    BY DEF TxInit, TxTypeOK, Bits
  <2>6. /\ tpc \in {"idle", "loop", "char", "override", "enable", "write", "ctrl",
                      "stty", "flow", "settings", "reset", "uarten", "rtsden"}
        /\ ipc \in {"idle", "tx", "trdyen", "event", "rtsd", "ms", "queue"}
    BY DEF TxInit
  <2>7. rtss \in BOOLEAN /\ sts \in BOOLEAN
    BY DEF TxInit, TxTypeOK, Bits
  <2>8. writes \in 0..MaxChars /\ injects \in 0..MaxInject
        /\ since \in Nat /\ last \in {"none", Data, Control}
    BY DEF TxInit
  <2> QED BY <2>1, <2>2, <2>3, <2>4, <2>5, <2>6, <2>7, <2>8 DEF TxTypeOK
<1>2. CountedWhilePaged /\ AboutToSend /\ OverrideAt /\ StopObeyed
  BY DEF CountedWhilePaged, AboutToSend, OverrideAt, StopObeyed
<1> QED BY <1>1, <1>2 DEF TxInv

(* tx_inject: the flow-control character is at the front.                  *)
LEMMA Injected ==
  ASSUME NEW s \in Seq({Data, Control})
  PROVE  /\ <<Control>> \o s \in Seq({Data, Control})
         /\ <<Control>> \o s # <<>>
         /\ Head(<<Control>> \o s) = Control
OBVIOUS

(* Every step preserves the invariant.                                     *)
LEMMA TxPreserved == ASSUME TxInv, [TxNext]_txVars PROVE TxInv'
<1> USE SerialAssumption DEF TxInv, line
<1>1. CASE Write
  <2>1. TxTypeOK' BY <1>1 DEF Write, flow, events, isr, TxTypeOK
  <2>2. CountedWhilePaged' BY <1>1 DEF Write, flow, Paged, CountedWhilePaged
  <2>3. AboutToSend' BY <1>1 DEF Write, AboutToSend
  <2>4. OverrideAt' BY <1>1 DEF Write, OverrideAt
  <2>5. StopObeyed' BY <1>1 DEF Write, StopObeyed
  <2> QED BY <2>1, <2>2, <2>3, <2>4, <2>5
<1>2. CASE EventQueue
  <2>1. TxTypeOK'
    <3>1. stty' \in 0..MaxStty /\ ohflow' \in BOOLEAN /\ irts' \in BOOLEAN
          /\ obuf' \in Seq({Data, Control}) /\ fifo' \in 0..FifoLevel
      BY <1>2 DEF EventQueue, TxTypeOK
    <3>2. cr1' \subseteq Bits /\ cr' \subseteq Bits /\ icr' \subseteq Bits
      BY <1>2 DEF EventQueue, isr, TxTypeOK
    <3>3. rts' \in BOOLEAN /\ rtsd' \in BOOLEAN /\ rxc' \in {"none", "xon", "xoff", "full"}
      BY <1>2 DEF EventQueue, TxTypeOK
    <3>4. ohw' \in BOOLEAN /\ osw' \in BOOLEAN /\ over' \in BOOLEAN
      BY <1>2 DEF EventQueue, flow, TxTypeOK
    <3>5. tto_event' \in BOOLEAN /\ queued' \in BOOLEAN
      BY <1>2 DEF EventQueue, flow, events, thread, isr, count, TRDY,
         Paged, TxTypeOK, AboutToSend, Bits
    <3>6. /\ tpc' \in {"idle", "loop", "char", "override", "enable", "write", "ctrl",
                      "stty", "flow", "settings", "reset", "uarten", "rtsden"}
          /\ ipc' \in {"idle", "tx", "trdyen", "event", "rtsd", "ms", "queue"}
      BY <1>2 DEF EventQueue, isr, TxTypeOK
    <3>7. rtss' \in BOOLEAN /\ sts' \in BOOLEAN
      BY <1>2 DEF EventQueue, isr, TxTypeOK
    <3>8. writes' \in 0..MaxChars /\ injects' \in 0..MaxInject
          /\ since' \in Nat /\ last' \in {"none", Data, Control}
      BY <1>2 DEF EventQueue, count, TxTypeOK
    <3> QED BY <3>1, <3>2, <3>3, <3>4, <3>5, <3>6, <3>7, <3>8 DEF TxTypeOK
  <2>2. CountedWhilePaged' BY <1>2 DEF EventQueue, flow, Paged, CountedWhilePaged
  <2>3. AboutToSend' BY <1>2 DEF EventQueue, AboutToSend
  <2>4. OverrideAt' BY <1>2 DEF EventQueue, OverrideAt
  <2>5. StopObeyed' BY <1>2 DEF EventQueue, StopObeyed
  <2> QED BY <2>1, <2>2, <2>3, <2>4, <2>5
<1>3. CASE Loop
  <2>1. TxTypeOK' BY <1>3 DEF Loop, flow, events, isr, count, TxTypeOK
  <2>2. CountedWhilePaged' BY <1>3 DEF Loop, flow, Paged, CountedWhilePaged
  <2>3. AboutToSend' BY <1>3 DEF Loop, TRDY, LoopTest, AboutToSend, CountedWhilePaged
  <2>4. OverrideAt' BY <1>3 DEF Loop, OverrideAt
  <2>5. StopObeyed' BY <1>3 DEF Loop, StopObeyed
  <2> QED BY <2>1, <2>2, <2>3, <2>4, <2>5
<1>4. CASE Char
  <2>1. TxTypeOK'
    BY <1>4 DEF Char, flow, events, isr, count, TRDY, TxTypeOK, AboutToSend
  <2>2. CountedWhilePaged' BY <1>4 DEF Char, flow, Paged, CountedWhilePaged
  <2>3. AboutToSend' BY <1>4 DEF Char, AboutToSend
  <2>4. OverrideAt' BY <1>4 DEF Char, OverrideAt
  <2>5. StopObeyed' BY <1>4 DEF Char, StopObeyed, AboutToSend, OverrideAt, Data, Control
  <2> QED BY <2>1, <2>2, <2>3, <2>4, <2>5
<1>5. CASE Override
  <2>1. TxTypeOK'
    <3>1. stty' \in 0..MaxStty /\ ohflow' \in BOOLEAN /\ irts' \in BOOLEAN
          /\ obuf' \in Seq({Data, Control}) /\ fifo' \in 0..FifoLevel
      BY <1>5 DEF Override, TxTypeOK
    <3>2. cr1' \subseteq Bits /\ cr' \subseteq Bits /\ icr' \subseteq Bits
      BY <1>5 DEF Override, isr, TxTypeOK
    <3>3. rts' \in BOOLEAN /\ rtsd' \in BOOLEAN /\ rxc' \in {"none", "xon", "xoff", "full"}
      BY <1>5 DEF Override, TxTypeOK
    <3>4. ohw' \in BOOLEAN /\ osw' \in BOOLEAN /\ over' \in BOOLEAN
      BY <1>5 DEF Override, flow, events, thread, isr, count, TRDY, Paged,
         TxTypeOK, AboutToSend, Bits
    <3>5. tto_event' \in BOOLEAN /\ queued' \in BOOLEAN
      BY <1>5 DEF Override, events, TxTypeOK
    <3>6. /\ tpc' \in {"idle", "loop", "char", "override", "enable", "write", "ctrl",
                      "stty", "flow", "settings", "reset", "uarten", "rtsden"}
          /\ ipc' \in {"idle", "tx", "trdyen", "event", "rtsd", "ms", "queue"}
      BY <1>5 DEF Override, isr, TxTypeOK
    <3>7. rtss' \in BOOLEAN /\ sts' \in BOOLEAN
      BY <1>5 DEF Override, isr, TxTypeOK
    <3>8. writes' \in 0..MaxChars /\ injects' \in 0..MaxInject
          /\ since' \in Nat /\ last' \in {"none", Data, Control}
      BY <1>5 DEF Override, count, TxTypeOK
    <3> QED BY <3>1, <3>2, <3>3, <3>4, <3>5, <3>6, <3>7, <3>8 DEF TxTypeOK
  <2>2. CountedWhilePaged' BY <1>5 DEF Override, flow, Paged, CountedWhilePaged
  <2>3. AboutToSend' BY <1>5 DEF Override, AboutToSend
  <2>4. OverrideAt' BY <1>5 DEF Override, OverrideAt
  <2>5. StopObeyed' BY <1>5 DEF Override, StopObeyed
  <2> QED BY <2>1, <2>2, <2>3, <2>4, <2>5
<1>6. CASE Enable
  <2>1. TxTypeOK'
    <3>1. stty' \in 0..MaxStty /\ ohflow' \in BOOLEAN /\ irts' \in BOOLEAN
          /\ obuf' \in Seq({Data, Control}) /\ fifo' \in 0..FifoLevel
      BY <1>6 DEF Enable, TxTypeOK
    <3>2. cr1' \subseteq Bits /\ cr' \subseteq Bits /\ icr' \subseteq Bits
      BY <1>6 DEF Enable, flow, events, thread, isr, count, TRDY, Paged,
         MoreToSend, TxTypeOK, AboutToSend, Bits
    <3>3. rts' \in BOOLEAN /\ rtsd' \in BOOLEAN /\ rxc' \in {"none", "xon", "xoff", "full"}
      BY <1>6 DEF Enable, TxTypeOK
    <3>4. ohw' \in BOOLEAN /\ osw' \in BOOLEAN /\ over' \in BOOLEAN
      BY <1>6 DEF Enable, flow, TxTypeOK
    <3>5. tto_event' \in BOOLEAN /\ queued' \in BOOLEAN
      BY <1>6 DEF Enable, events, TxTypeOK
    <3>6. /\ tpc' \in {"idle", "loop", "char", "override", "enable", "write", "ctrl",
                      "stty", "flow", "settings", "reset", "uarten", "rtsden"}
          /\ ipc' \in {"idle", "tx", "trdyen", "event", "rtsd", "ms", "queue"}
      BY <1>6 DEF Enable, isr, TxTypeOK
    <3>7. rtss' \in BOOLEAN /\ sts' \in BOOLEAN
      BY <1>6 DEF Enable, isr, TxTypeOK
    <3>8. writes' \in 0..MaxChars /\ injects' \in 0..MaxInject
          /\ since' \in Nat /\ last' \in {"none", Data, Control}
      BY <1>6 DEF Enable, count, TxTypeOK
    <3> QED BY <3>1, <3>2, <3>3, <3>4, <3>5, <3>6, <3>7, <3>8 DEF TxTypeOK
  <2>2. CountedWhilePaged' BY <1>6 DEF Enable, flow, Paged, CountedWhilePaged
  <2>3. AboutToSend' BY <1>6 DEF Enable, AboutToSend
  <2>4. OverrideAt' BY <1>6 DEF Enable, OverrideAt
  <2>5. StopObeyed' BY <1>6 DEF Enable, StopObeyed
  <2> QED BY <2>1, <2>2, <2>3, <2>4, <2>5
<1>7. CASE EnableWrite
  <2>1. TxTypeOK' BY <1>7 DEF EnableWrite, flow, events, isr, count, TxTypeOK, Bits
  <2>2. CountedWhilePaged' BY <1>7 DEF EnableWrite, flow, Paged, CountedWhilePaged
  <2>3. AboutToSend' BY <1>7 DEF EnableWrite, AboutToSend
  <2>4. OverrideAt' BY <1>7 DEF EnableWrite, OverrideAt
  <2>5. StopObeyed' BY <1>7 DEF EnableWrite, StopObeyed
  <2> QED BY <2>1, <2>2, <2>3, <2>4, <2>5
<1>8. CASE CtrlWrite
  <2>1. TxTypeOK' BY <1>8 DEF CtrlWrite, flow, events, isr, count, TxTypeOK
  <2>2. CountedWhilePaged' BY <1>8 DEF CtrlWrite, flow, Paged, CountedWhilePaged
  <2>3. AboutToSend' BY <1>8 DEF CtrlWrite, AboutToSend
  <2>4. OverrideAt' BY <1>8 DEF CtrlWrite, OverrideAt
  <2>5. StopObeyed' BY <1>8 DEF CtrlWrite, StopObeyed
  <2> QED BY <2>1, <2>2, <2>3, <2>4, <2>5
<1>9. CASE Ctrl
  <2>1. TxTypeOK' BY <1>9 DEF Ctrl, flow, events, isr, count, TxTypeOK, Bits
  <2>2. CountedWhilePaged' BY <1>9 DEF Ctrl, flow, Paged, CountedWhilePaged
  <2>3. AboutToSend' BY <1>9 DEF Ctrl, AboutToSend
  <2>4. OverrideAt' BY <1>9 DEF Ctrl, OverrideAt
  <2>5. StopObeyed' BY <1>9 DEF Ctrl, StopObeyed
  <2> QED BY <2>1, <2>2, <2>3, <2>4, <2>5
<1>10. CASE SttyDisable
  <2>1. TxTypeOK' BY <1>10 DEF SttyDisable, flow, events, isr, count, TxTypeOK
  <2>2. CountedWhilePaged' BY <1>10 DEF SttyDisable, flow, Paged, CountedWhilePaged
  <2>3. AboutToSend' BY <1>10 DEF SttyDisable, AboutToSend
  <2>4. OverrideAt' BY <1>10 DEF SttyDisable, OverrideAt
  <2>5. StopObeyed' BY <1>10 DEF SttyDisable, StopObeyed
  <2> QED BY <2>1, <2>2, <2>3, <2>4, <2>5
<1>11. CASE SttyReset
  <2>1. TxTypeOK'
    <3>1. stty' \in 0..MaxStty /\ ohflow' \in BOOLEAN /\ irts' \in BOOLEAN
          /\ obuf' \in Seq({Data, Control}) /\ fifo' \in 0..FifoLevel
      BY <1>11 DEF SttyReset, TxTypeOK
    <3>2. cr1' \subseteq Bits /\ cr' \subseteq Bits /\ icr' \subseteq Bits
      BY <1>11 DEF SttyReset, isr, TxTypeOK, Bits
    <3>3. rts' \in BOOLEAN /\ rtsd' \in BOOLEAN /\ rxc' \in {"none", "xon", "xoff", "full"}
      BY <1>11 DEF SttyReset, flow, events, thread, isr, count, TRDY,
         Paged, TxTypeOK, AboutToSend, Bits
    <3>4. ohw' \in BOOLEAN /\ osw' \in BOOLEAN /\ over' \in BOOLEAN
      BY <1>11 DEF SttyReset, flow, TxTypeOK
    <3>5. tto_event' \in BOOLEAN /\ queued' \in BOOLEAN
      BY <1>11 DEF SttyReset, events, TxTypeOK
    <3>6. /\ tpc' \in {"idle", "loop", "char", "override", "enable", "write", "ctrl",
                      "stty", "flow", "settings", "reset", "uarten", "rtsden"}
          /\ ipc' \in {"idle", "tx", "trdyen", "event", "rtsd", "ms", "queue"}
      BY <1>11 DEF SttyReset, isr, TxTypeOK
    <3>7. rtss' \in BOOLEAN /\ sts' \in BOOLEAN
      BY <1>11 DEF SttyReset, isr, TxTypeOK
    <3>8. writes' \in 0..MaxChars /\ injects' \in 0..MaxInject
          /\ since' \in Nat /\ last' \in {"none", Data, Control}
      BY <1>11 DEF SttyReset, count, TxTypeOK
    <3> QED BY <3>1, <3>2, <3>3, <3>4, <3>5, <3>6, <3>7, <3>8 DEF TxTypeOK
  <2>2. CountedWhilePaged' BY <1>11 DEF SttyReset, flow, Paged, CountedWhilePaged
  <2>3. AboutToSend' BY <1>11 DEF SttyReset, AboutToSend
  <2>4. OverrideAt' BY <1>11 DEF SttyReset, OverrideAt
  <2>5. StopObeyed' BY <1>11 DEF SttyReset, StopObeyed
  <2> QED BY <2>1, <2>2, <2>3, <2>4, <2>5
<1>12. CASE SttyRead
  <2>1. TxTypeOK'
    BY <1>12 DEF SttyRead, flow, events, isr, count, TxTypeOK, Bits
  <2>2. CountedWhilePaged' BY <1>12 DEF SttyRead, flow, Paged, CountedWhilePaged
  <2>3. AboutToSend' BY <1>12 DEF SttyRead, AboutToSend
  <2>4. OverrideAt' BY <1>12 DEF SttyRead, OverrideAt
  <2>5. StopObeyed' BY <1>12 DEF SttyRead, StopObeyed
  <2> QED BY <2>1, <2>2, <2>3, <2>4, <2>5
<1>13. CASE SttyWrite
  <2>1. TxTypeOK' BY <1>13 DEF SttyWrite, flow, events, isr, count, TxTypeOK
  <2>2. CountedWhilePaged' BY <1>13 DEF SttyWrite, flow, Paged, CountedWhilePaged
  <2>3. AboutToSend' BY <1>13 DEF SttyWrite, AboutToSend
  <2>4. OverrideAt' BY <1>13 DEF SttyWrite, OverrideAt
  <2>5. StopObeyed' BY <1>13 DEF SttyWrite, StopObeyed
  <2> QED BY <2>1, <2>2, <2>3, <2>4, <2>5
<1>14. CASE IntrRx
  <2>1. TxTypeOK'
    <3>1. stty' \in 0..MaxStty /\ ohflow' \in BOOLEAN /\ irts' \in BOOLEAN
          /\ obuf' \in Seq({Data, Control}) /\ fifo' \in 0..FifoLevel
      BY <1>14, Injected DEF IntrRx, flow, events, thread, isr, count,
         TRDY, Paged, tti, TxTypeOK, AboutToSend, Bits
    <3>2. cr1' \subseteq Bits /\ cr' \subseteq Bits /\ icr' \subseteq Bits
      BY <1>14, Injected DEF IntrRx, thread, TxTypeOK
    <3>3. rts' \in BOOLEAN /\ rtsd' \in BOOLEAN /\ rxc' \in {"none", "xon", "xoff", "full"}
      BY <1>14, Injected DEF IntrRx, TxTypeOK
    <3>4. ohw' \in BOOLEAN /\ osw' \in BOOLEAN /\ over' \in BOOLEAN
      BY <1>14, Injected DEF IntrRx, flow, events, thread, isr, count,
         TRDY, Paged, tti, TxTypeOK, AboutToSend, Bits
    <3>5. tto_event' \in BOOLEAN /\ queued' \in BOOLEAN
      BY <1>14, Injected DEF IntrRx, tti, TxTypeOK
    <3>6. /\ tpc' \in {"idle", "loop", "char", "override", "enable", "write", "ctrl",
                      "stty", "flow", "settings", "reset", "uarten", "rtsden"}
          /\ ipc' \in {"idle", "tx", "trdyen", "event", "rtsd", "ms", "queue"}
      BY <1>14, Injected DEF IntrRx, thread, TxTypeOK
    <3>7. rtss' \in BOOLEAN /\ sts' \in BOOLEAN
      BY <1>14, Injected DEF IntrRx, tti, TxTypeOK
    <3>8. writes' \in 0..MaxChars /\ injects' \in 0..MaxInject
          /\ since' \in Nat /\ last' \in {"none", Data, Control}
      BY <1>14, Injected DEF IntrRx, count, tti, TxTypeOK
    <3> QED BY <3>1, <3>2, <3>3, <3>4, <3>5, <3>6, <3>7, <3>8 DEF TxTypeOK
  <2>2. CountedWhilePaged' BY <1>14 DEF IntrRx, Paged, tti, CountedWhilePaged
  <2>3. AboutToSend' BY <1>14, Injected DEF IntrRx, thread, TRDY, tti, AboutToSend
  <2>4. OverrideAt'
    BY <1>14, Injected DEF IntrRx, flow, events, thread, isr, count, TRDY,
       Paged, tti, TxTypeOK, OverrideAt, AboutToSend
  <2>5. StopObeyed' BY <1>14 DEF IntrRx, tti, StopObeyed
  <2> QED BY <2>1, <2>2, <2>3, <2>4, <2>5
<1>15. CASE IntrTx
  <2>1. TxTypeOK'
    <3>1. stty' \in 0..MaxStty /\ ohflow' \in BOOLEAN /\ irts' \in BOOLEAN
          /\ obuf' \in Seq({Data, Control}) /\ fifo' \in 0..FifoLevel
      BY <1>15 DEF IntrTx, TxTypeOK
    <3>2. cr1' \subseteq Bits /\ cr' \subseteq Bits /\ icr' \subseteq Bits
      BY <1>15 DEF IntrTx, flow, events, thread, isr, count, TRDY, Paged,
         TxTypeOK, AboutToSend, Bits
    <3>3. rts' \in BOOLEAN /\ rtsd' \in BOOLEAN /\ rxc' \in {"none", "xon", "xoff", "full"}
      BY <1>15 DEF IntrTx, TxTypeOK
    <3>4. ohw' \in BOOLEAN /\ osw' \in BOOLEAN /\ over' \in BOOLEAN
      BY <1>15 DEF IntrTx, flow, TxTypeOK
    <3>5. tto_event' \in BOOLEAN /\ queued' \in BOOLEAN
      BY <1>15 DEF IntrTx, events, TxTypeOK
    <3>6. /\ tpc' \in {"idle", "loop", "char", "override", "enable", "write", "ctrl",
                      "stty", "flow", "settings", "reset", "uarten", "rtsden"}
          /\ ipc' \in {"idle", "tx", "trdyen", "event", "rtsd", "ms", "queue"}
      BY <1>15 DEF IntrTx, thread, TxTypeOK
    <3>7. rtss' \in BOOLEAN /\ sts' \in BOOLEAN
      BY <1>15 DEF IntrTx, TxTypeOK
    <3>8. writes' \in 0..MaxChars /\ injects' \in 0..MaxInject
          /\ since' \in Nat /\ last' \in {"none", Data, Control}
      BY <1>15 DEF IntrTx, count, TxTypeOK
    <3> QED BY <3>1, <3>2, <3>3, <3>4, <3>5, <3>6, <3>7, <3>8 DEF TxTypeOK
  <2>2. CountedWhilePaged' BY <1>15 DEF IntrTx, flow, Paged, CountedWhilePaged
  <2>3. AboutToSend' BY <1>15 DEF IntrTx, thread, TRDY, AboutToSend
  <2>4. OverrideAt' BY <1>15 DEF IntrTx, thread, OverrideAt
  <2>5. StopObeyed' BY <1>15 DEF IntrTx, StopObeyed
  <2> QED BY <2>1, <2>2, <2>3, <2>4, <2>5
<1>16. CASE IntrTrdyen
  <2>1. TxTypeOK' BY <1>16 DEF IntrTrdyen, flow, events, thread, count, TxTypeOK
  <2>2. CountedWhilePaged' BY <1>16 DEF IntrTrdyen, flow, Paged, CountedWhilePaged
  <2>3. AboutToSend' BY <1>16 DEF IntrTrdyen, thread, TRDY, AboutToSend
  <2>4. OverrideAt' BY <1>16 DEF IntrTrdyen, thread, OverrideAt
  <2>5. StopObeyed' BY <1>16 DEF IntrTrdyen, StopObeyed
  <2> QED BY <2>1, <2>2, <2>3, <2>4, <2>5
<1>17. CASE IntrEvent
  <2>1. TxTypeOK' BY <1>17 DEF IntrEvent, flow, thread, count, TxEvent, TxTypeOK
  <2>2. CountedWhilePaged' BY <1>17 DEF IntrEvent, flow, Paged, CountedWhilePaged
  <2>3. AboutToSend' BY <1>17 DEF IntrEvent, thread, TRDY, AboutToSend
  <2>4. OverrideAt' BY <1>17 DEF IntrEvent, thread, OverrideAt
  <2>5. StopObeyed' BY <1>17 DEF IntrEvent, StopObeyed
  <2> QED BY <2>1, <2>2, <2>3, <2>4, <2>5
<1>18. CASE IntrRtsd
  <2>1. TxTypeOK' BY <1>18 DEF IntrRtsd, flow, events, thread, count, TxTypeOK
  <2>2. CountedWhilePaged' BY <1>18 DEF IntrRtsd, flow, Paged, CountedWhilePaged
  <2>3. AboutToSend' BY <1>18 DEF IntrRtsd, thread, TRDY, AboutToSend
  <2>4. OverrideAt' BY <1>18 DEF IntrRtsd, thread, OverrideAt
  <2>5. StopObeyed' BY <1>18 DEF IntrRtsd, StopObeyed
  <2> QED BY <2>1, <2>2, <2>3, <2>4, <2>5
<1>19. CASE IntrMs
  <2>1. TxTypeOK'
    <3>1. stty' \in 0..MaxStty /\ ohflow' \in BOOLEAN /\ irts' \in BOOLEAN
          /\ obuf' \in Seq({Data, Control}) /\ fifo' \in 0..FifoLevel
      BY <1>19 DEF IntrMs, flow, events, thread, isr, count, TxTypeOK
    <3>2. cr1' \subseteq Bits /\ cr' \subseteq Bits /\ icr' \subseteq Bits
      BY <1>19 DEF IntrMs, flow, events, thread, isr, count, TxTypeOK, Bits
    <3>3. rts' \in BOOLEAN /\ rtsd' \in BOOLEAN /\ rxc' \in {"none", "xon", "xoff", "full"}
      BY <1>19 DEF IntrMs, flow, events, thread, isr, count, TxTypeOK
    <3>4. ohw' \in BOOLEAN /\ osw' \in BOOLEAN /\ over' \in BOOLEAN
      BY <1>19, Zenon DEF IntrMs, flow, events, thread, isr, count, TxTypeOK
    <3>5. tto_event' \in BOOLEAN /\ queued' \in BOOLEAN
      BY <1>19, Zenon DEF IntrMs, flow, events, thread, isr, count, TxTypeOK
    <3>6. /\ tpc' \in {"idle", "loop", "char", "override", "enable", "write", "ctrl",
                      "stty", "flow", "settings", "reset", "uarten", "rtsden"}
          /\ ipc' \in {"idle", "tx", "trdyen", "event", "rtsd", "ms", "queue"}
      BY <1>19 DEF IntrMs, flow, events, thread, isr, count, TxTypeOK
    <3>7. rtss' \in BOOLEAN /\ sts' \in BOOLEAN
      BY <1>19, Zenon DEF IntrMs, flow, events, thread, isr, count, TxTypeOK
    <3>8. writes' \in 0..MaxChars /\ injects' \in 0..MaxInject
          /\ since' \in Nat /\ last' \in {"none", Data, Control}
      BY <1>19 DEF IntrMs, flow, events, thread, isr, count, TxTypeOK
    <3> QED BY <3>1, <3>2, <3>3, <3>4, <3>5, <3>6, <3>7, <3>8 DEF TxTypeOK
  <2>2. CountedWhilePaged' BY <1>19 DEF IntrMs, Paged, CountedWhilePaged
  <2>3. AboutToSend' BY <1>19 DEF IntrMs, thread, TRDY, AboutToSend
  <2>4. OverrideAt' BY <1>19 DEF IntrMs, thread, OverrideAt
  <2>5. StopObeyed' BY <1>19 DEF IntrMs, StopObeyed
  <2> QED BY <2>1, <2>2, <2>3, <2>4, <2>5
<1>20. CASE IntrQueue
  <2>1. TxTypeOK'
    <3>1. stty' \in 0..MaxStty /\ ohflow' \in BOOLEAN /\ irts' \in BOOLEAN
          /\ obuf' \in Seq({Data, Control}) /\ fifo' \in 0..FifoLevel
      BY <1>20 DEF IntrQueue, TxTypeOK
    <3>2. cr1' \subseteq Bits /\ cr' \subseteq Bits /\ icr' \subseteq Bits
      BY <1>20 DEF IntrQueue, thread, TxTypeOK
    <3>3. rts' \in BOOLEAN /\ rtsd' \in BOOLEAN /\ rxc' \in {"none", "xon", "xoff", "full"}
      BY <1>20 DEF IntrQueue, TxTypeOK
    <3>4. ohw' \in BOOLEAN /\ osw' \in BOOLEAN /\ over' \in BOOLEAN
      BY <1>20 DEF IntrQueue, flow, TxTypeOK
    <3>5. tto_event' \in BOOLEAN /\ queued' \in BOOLEAN
      BY <1>20 DEF IntrQueue, TxTypeOK
    <3>6. /\ tpc' \in {"idle", "loop", "char", "override", "enable", "write", "ctrl",
                      "stty", "flow", "settings", "reset", "uarten", "rtsden"}
          /\ ipc' \in {"idle", "tx", "trdyen", "event", "rtsd", "ms", "queue"}
      BY <1>20 DEF IntrQueue, thread, TxTypeOK
    <3>7. rtss' \in BOOLEAN /\ sts' \in BOOLEAN
      BY <1>20 DEF IntrQueue, flow, events, thread, isr, count, TRDY,
         Paged, TxTypeOK, AboutToSend, Bits
    <3>8. writes' \in 0..MaxChars /\ injects' \in 0..MaxInject
          /\ since' \in Nat /\ last' \in {"none", Data, Control}
      BY <1>20 DEF IntrQueue, count, TxTypeOK
    <3> QED BY <3>1, <3>2, <3>3, <3>4, <3>5, <3>6, <3>7, <3>8 DEF TxTypeOK
  <2>2. CountedWhilePaged' BY <1>20 DEF IntrQueue, flow, Paged, CountedWhilePaged
  <2>3. AboutToSend' BY <1>20 DEF IntrQueue, thread, TRDY, AboutToSend
  <2>4. OverrideAt' BY <1>20 DEF IntrQueue, thread, OverrideAt
  <2>5. StopObeyed' BY <1>20 DEF IntrQueue, StopObeyed
  <2> QED BY <2>1, <2>2, <2>3, <2>4, <2>5
<1>21. CASE Shift
  <2>1. TxTypeOK' BY <1>21 DEF Shift, flow, events, thread, isr, count, TxTypeOK
  <2>2. CountedWhilePaged' BY <1>21 DEF Shift, flow, Paged, CountedWhilePaged
  <2>3. AboutToSend' BY <1>21 DEF Shift, thread, TRDY, TxTypeOK, AboutToSend
  <2>4. OverrideAt' BY <1>21 DEF Shift, thread, OverrideAt
  <2>5. StopObeyed' BY <1>21 DEF Shift, StopObeyed
  <2> QED BY <2>1, <2>2, <2>3, <2>4, <2>5
<1>22. CASE Rts
  <2>1. TxTypeOK' BY <1>22 DEF Rts, flow, events, thread, isr, count, TxTypeOK
  <2>2. CountedWhilePaged' BY <1>22 DEF Rts, flow, Paged, CountedWhilePaged
  <2>3. AboutToSend' BY <1>22 DEF Rts, thread, TRDY, AboutToSend
  <2>4. OverrideAt' BY <1>22 DEF Rts, thread, OverrideAt
  <2>5. StopObeyed' BY <1>22 DEF Rts, StopObeyed
  <2> QED BY <2>1, <2>2, <2>3, <2>4, <2>5
<1>23. CASE \E k \in {"xon", "xoff", "full"} : Arrive(k)
  <2>1. TxTypeOK' BY <1>23 DEF Arrive, flow, events, thread, isr, TxTypeOK
  <2>2. CountedWhilePaged' BY <1>23 DEF Arrive, flow, Paged, CountedWhilePaged
  <2>3. AboutToSend' BY <1>23 DEF Arrive, thread, TRDY, AboutToSend
  <2>4. OverrideAt' BY <1>23 DEF Arrive, thread, OverrideAt
  <2>5. StopObeyed' BY <1>23 DEF Arrive, StopObeyed
  <2> QED BY <2>1, <2>2, <2>3, <2>4, <2>5
<1>24. CASE Stty
  <2>1. TxTypeOK' BY <1>24 DEF Stty, flow, events, isr, count, TxTypeOK, Bits
  <2>2. CountedWhilePaged' BY <1>24 DEF Stty, flow, Paged, CountedWhilePaged
  <2>3. AboutToSend' BY <1>24 DEF Stty, AboutToSend
  <2>4. OverrideAt' BY <1>24 DEF Stty, OverrideAt
  <2>5. StopObeyed' BY <1>24 DEF Stty, StopObeyed
  <2> QED BY <2>1, <2>2, <2>3, <2>4, <2>5
<1>25. CASE SttyRts
  <2>1. TxTypeOK'
    <3>1. stty' \in 0..MaxStty /\ ohflow' \in BOOLEAN /\ irts' \in BOOLEAN
          /\ obuf' \in Seq({Data, Control}) /\ fifo' \in 0..FifoLevel
      BY <1>25 DEF SttyRts, flow, events, isr, count, TxTypeOK
    <3>2. cr1' \subseteq Bits /\ cr' \subseteq Bits /\ icr' \subseteq Bits
      BY <1>25 DEF SttyRts, flow, events, isr, count, TxTypeOK, Bits
    <3>3. rts' \in BOOLEAN /\ rtsd' \in BOOLEAN /\ rxc' \in {"none", "xon", "xoff", "full"}
      BY <1>25 DEF SttyRts, flow, events, isr, count, TxTypeOK
    <3>4. ohw' \in BOOLEAN /\ osw' \in BOOLEAN /\ over' \in BOOLEAN
      BY <1>25 DEF SttyRts, flow, events, isr, count, TxTypeOK
    <3>5. tto_event' \in BOOLEAN /\ queued' \in BOOLEAN
      BY <1>25 DEF SttyRts, flow, events, isr, count, TxTypeOK
    <3>6. /\ tpc' \in {"idle", "loop", "char", "override", "enable", "write", "ctrl",
                      "stty", "flow", "settings", "reset", "uarten", "rtsden"}
          /\ ipc' \in {"idle", "tx", "trdyen", "event", "rtsd", "ms", "queue"}
      BY <1>25 DEF SttyRts, flow, events, isr, count, TxTypeOK
    <3>7. rtss' \in BOOLEAN /\ sts' \in BOOLEAN
      BY <1>25 DEF SttyRts, flow, events, isr, count, TxTypeOK
    <3>8. writes' \in 0..MaxChars /\ injects' \in 0..MaxInject
          /\ since' \in Nat /\ last' \in {"none", Data, Control}
      BY <1>25 DEF SttyRts, flow, events, isr, count, TxTypeOK
    <3> QED BY <3>1, <3>2, <3>3, <3>4, <3>5, <3>6, <3>7, <3>8 DEF TxTypeOK
  <2>2. CountedWhilePaged' BY <1>25 DEF SttyRts, flow, Paged, CountedWhilePaged
  <2>3. AboutToSend' BY <1>25 DEF SttyRts, AboutToSend
  <2>4. OverrideAt' BY <1>25 DEF SttyRts, OverrideAt
  <2>5. StopObeyed' BY <1>25 DEF SttyRts, StopObeyed
  <2> QED BY <2>1, <2>2, <2>3, <2>4, <2>5
<1>26. CASE SttyFlow
  <2>1. TxTypeOK' BY <1>26 DEF SttyFlow, flow, events, isr, count, TxTypeOK, Bits
  <2>2. CountedWhilePaged' BY <1>26 DEF SttyFlow, flow, Paged, CountedWhilePaged
  <2>3. AboutToSend' BY <1>26 DEF SttyFlow, AboutToSend
  <2>4. OverrideAt' BY <1>26 DEF SttyFlow, OverrideAt
  <2>5. StopObeyed' BY <1>26 DEF SttyFlow, StopObeyed
  <2> QED BY <2>1, <2>2, <2>3, <2>4, <2>5
<1>27. CASE SttySame
  <2>1. TxTypeOK' BY <1>27 DEF SttySame, flow, events, isr, count, TxTypeOK, Bits
  <2>2. CountedWhilePaged' BY <1>27 DEF SttySame, flow, Paged, CountedWhilePaged
  <2>3. AboutToSend' BY <1>27 DEF SttySame, AboutToSend
  <2>4. OverrideAt' BY <1>27 DEF SttySame, OverrideAt
  <2>5. StopObeyed' BY <1>27 DEF SttySame, StopObeyed
  <2> QED BY <2>1, <2>2, <2>3, <2>4, <2>5
<1>u. CASE UNCHANGED txVars
  BY <1>u DEF txVars, flow, events, thread, isr, count, TxTypeOK, CountedWhilePaged,
     AboutToSend, OverrideAt, StopObeyed, Paged, TRDY
<1> QED
  BY <1>1, <1>2, <1>3, <1>4, <1>5, <1>6, <1>7, <1>8, <1>9, <1>10, <1>11, <1>12, <1>13,
     <1>14, <1>15, <1>16, <1>17, <1>18, <1>19, <1>20, <1>21, <1>22, <1>23, <1>24,
     <1>25, <1>26, <1>27, <1>u DEF
     TxNext, Tto, SttySteps, Intr

(* The inductive invariant holds in every state.                           *)
LEMMA TxInvariant == TxSpec => []TxInv
BY TxInitially, TxPreserved, PTL DEF TxSpec

(* Every variable keeps its type.                                          *)
THEOREM TxTypeCorrect == TxSpec => []TxTypeOK
<1>1. TxInv => TxTypeOK BY DEF TxInv
<1> QED BY <1>1, TxInvariant, PTL

(* After a stop, by the peer's RTS or by an XOFF, tto sends at most one    *)
(* more character of data, although the handler runs on another CPU, and   *)
(* whatever characters are injected and settings changed meanwhile.        *)
THEOREM StopCorrect == TxSpec => []StopObeyed
<1>1. TxInv => StopObeyed BY DEF TxInv
<1> QED BY <1>1, TxInvariant, PTL
=============================================================================
