--------------------------- MODULE EnetRxProofs ---------------------------
(***************************************************************************)
(* Proofs about EnetRx for a ring of any size and any mbufs, when io-pkt   *)
(* has one thread.                                                         *)
(***************************************************************************)
EXTENDS EnetRx, TLAPS

(* All mbufs are free initially.                                           *)
LEMMA InitIInv == Init => IInv
<1> SUFFICES ASSUME Init PROVE IInv OBVIOUS
<1> USE RingAssumption, NoneAssumption DEF Init
<1>0. FlagsOK
  BY Zenon DEF FlagsOK
<1>1. TypeOK
  BY <1>0 DEF TypeOK, Slots, MbufOrNone, StackPC, JobPC
<1>2. Turn /\ Holds /\ Wraps
  BY DEF Turn, Holds, Wraps, ReceivePC
<1>3. Filled /\ OneOwner
  BY DEF Filled, OneOwner
<1>4. NoMbufLost
  BY DEF NoMbufLost, RingMbufs
<1> QED BY <1>1, <1>2, <1>3, <1>4 DEF IInv

(* Every step preserves the invariant.                                     *)
LEMMA NextIInv == ASSUME OneThread, IInv, [Next]_vars PROVE IInv'
<1> USE RingAssumption, OptionAssumption, NoneAssumption
    DEF IInv, ring, mem, hist, hw, irq, stack, locals, Slots
<1>0. CASE UNCHANGED vars
  BY <1>0 DEF vars, FlagsOK, TypeOK, Turn, Holds, Filled, InPlace, Wraps,
      OneOwner,
      NoMbufLost, RingMbufs
<1>1. ASSUME Isr PROVE IInv'
  <2>0. FlagsOK' BY <1>1, Zenon DEF Isr, FlagsOK, TypeOK
  <2>1. TypeOK'
    BY <1>1, <2>0 DEF Isr, TypeOK, Wraps, Holds, MbufOrNone, StackPC, JobPC
  <2>2. Turn' BY <1>1 DEF Isr, Turn, TypeOK, ReceivePC
  <2>3. Holds'
    BY <1>1 DEF Isr, Holds, TypeOK, Turn, Filled, ReceivePC, InPlace,
        MbufOrNone
  <2>4. Filled'
    BY <1>1 DEF Isr, Filled, InPlace, TypeOK, Turn, Holds, MbufOrNone
  <2>5. Wraps' BY <1>1 DEF Isr, Wraps, TypeOK, Turn
  <2>6. OneOwner' BY <1>1 DEF Isr, OneOwner, TypeOK, Holds, Turn, MbufOrNone
  <2>7. NoMbufLost'
    BY <1>1 DEF Isr, NoMbufLost, RingMbufs, TypeOK, Holds, OneOwner,
        MbufOrNone
  <2> QED BY <2>1, <2>2, <2>3, <2>4, <2>5, <2>6, <2>7
<1>2. ASSUME JobStart PROVE IInv'
  <2>0. FlagsOK' BY <1>2, Zenon DEF JobStart, FlagsOK, TypeOK
  <2>1. TypeOK'
    BY <1>2, <2>0 DEF JobStart, TypeOK, Wraps, Holds, MbufOrNone, StackPC,
        JobPC
  <2>2. Turn' BY <1>2 DEF JobStart, Turn, TypeOK, ReceivePC
  <2>3. Holds'
    BY <1>2 DEF JobStart, Holds, TypeOK, Turn, Filled, ReceivePC, InPlace,
        MbufOrNone
  <2>4. Filled'
    BY <1>2 DEF JobStart, Filled, InPlace, TypeOK, Turn, Holds, MbufOrNone
  <2>5. Wraps' BY <1>2 DEF JobStart, Wraps, TypeOK, Turn
  <2>6. OneOwner'
    BY <1>2 DEF JobStart, OneOwner, TypeOK, Holds, Turn, MbufOrNone
  <2>7. NoMbufLost'
    BY <1>2 DEF JobStart, NoMbufLost, RingMbufs, TypeOK, Holds, OneOwner,
        MbufOrNone
  <2> QED BY <2>1, <2>2, <2>3, <2>4, <2>5, <2>6, <2>7
<1>3. ASSUME Cause PROVE IInv'
  <2>0. FlagsOK' BY <1>3, Zenon DEF Cause, FlagsOK, TypeOK
  <2>1. TypeOK'
    BY <1>3, <2>0 DEF Cause, TypeOK, Wraps, Holds, MbufOrNone, StackPC,
        JobPC
  <2>2. Turn' BY <1>3 DEF Cause, Turn, TypeOK, ReceivePC
  <2>3. Holds'
    BY <1>3 DEF Cause, Holds, TypeOK, Turn, Filled, ReceivePC, InPlace,
        MbufOrNone
  <2>4. Filled'
    BY <1>3 DEF Cause, Filled, InPlace, TypeOK, Turn, Holds, MbufOrNone
  <2>5. Wraps' BY <1>3 DEF Cause, Wraps, TypeOK, Turn
  <2>6. OneOwner' BY <1>3 DEF Cause, OneOwner, TypeOK, Holds, Turn, MbufOrNone
  <2>7. NoMbufLost'
    BY <1>3 DEF Cause, NoMbufLost, RingMbufs, TypeOK, Holds, OneOwner,
        MbufOrNone
  <2> QED BY <2>1, <2>2, <2>3, <2>4, <2>5, <2>6, <2>7
<1>4. ASSUME Enable PROVE IInv'
  <2>0. FlagsOK' BY <1>4, Zenon DEF Enable, FlagsOK, TypeOK
  <2>1. TypeOK'
    BY <1>4, <2>0 DEF Enable, TypeOK, Wraps, Holds, MbufOrNone, StackPC,
        JobPC
  <2>2. Turn' BY <1>4 DEF Enable, Turn, TypeOK, ReceivePC
  <2>3. Holds'
    BY <1>4 DEF Enable, Holds, TypeOK, Turn, Filled, ReceivePC, InPlace,
        MbufOrNone
  <2>4. Filled'
    BY <1>4 DEF Enable, Filled, InPlace, TypeOK, Turn, Holds, MbufOrNone
  <2>5. Wraps' BY <1>4 DEF Enable, Wraps, TypeOK, Turn
  <2>6. OneOwner' BY <1>4 DEF Enable, OneOwner, TypeOK, Holds, Turn, MbufOrNone
  <2>7. NoMbufLost'
    BY <1>4 DEF Enable, NoMbufLost, RingMbufs, TypeOK, Holds, OneOwner,
        MbufOrNone
  <2> QED BY <2>1, <2>2, <2>3, <2>4, <2>5, <2>6, <2>7
<1>5. ASSUME Check PROVE IInv'
  <2>0. FlagsOK'
    <3>1. err' = err \/ err' = TRUE \/ err' = FALSE BY <1>5 DEF Check
    <3>2. err' \in BOOLEAN BY <3>1, Zenon DEF FlagsOK, TypeOK
    <3> QED BY <1>5, <3>2, Zenon DEF Check, FlagsOK, TypeOK
  <2>1. TypeOK'
    BY <1>5, <2>0 DEF Check, TypeOK, Wraps, Holds, MbufOrNone, StackPC,
        JobPC
  <2>2. Turn' BY <1>5 DEF Check, Turn, TypeOK, ReceivePC
  <2>3. Holds'
    BY <1>5 DEF Check, Holds, TypeOK, Turn, Filled, ReceivePC, InPlace,
        MbufOrNone
  <2>4. Filled'
    BY <1>5 DEF Check, Filled, InPlace, TypeOK, Turn, Holds, MbufOrNone
  <2>5. Wraps' BY <1>5 DEF Check, Wraps, TypeOK, Turn
  <2>6. OneOwner' BY <1>5 DEF Check, OneOwner, TypeOK, Holds, Turn, MbufOrNone
  <2>7. NoMbufLost'
    BY <1>5 DEF Check, NoMbufLost, RingMbufs, TypeOK, Holds, OneOwner,
        MbufOrNone
  <2> QED BY <2>1, <2>2, <2>3, <2>4, <2>5, <2>6, <2>7
<1>6. ASSUME Take PROVE IInv'
  <2>0. FlagsOK' BY <1>6, Zenon DEF Take, FlagsOK, TypeOK
  <2>1. TypeOK'
    BY <1>6, <2>0 DEF Take, NEXT_RX, NextFrame, TypeOK, Wraps, Holds,
        MbufOrNone, StackPC, JobPC
  <2>2. Turn' BY <1>6 DEF Take, NEXT_RX, NextFrame, Turn, TypeOK, ReceivePC
  <2>3. Holds'
    BY <1>6 DEF Take, NEXT_RX, NextFrame, Holds, TypeOK, Turn, Filled,
        ReceivePC, InPlace, MbufOrNone
  <2>4. Filled'
    BY <1>6 DEF Take, NEXT_RX, NextFrame, Filled, InPlace, TypeOK, Turn,
        Holds, MbufOrNone
  <2>5. Wraps' BY <1>6 DEF Take, NEXT_RX, NextFrame, Wraps, TypeOK, Turn
  <2>6. OneOwner'
    BY <1>6 DEF Take, NEXT_RX, NextFrame, OneOwner, TypeOK, Holds, Turn,
        MbufOrNone
  <2>7. NoMbufLost'
    BY <1>6 DEF Take, NEXT_RX, NextFrame, NoMbufLost, RingMbufs, TypeOK,
        Holds, OneOwner, MbufOrNone
  <2> QED BY <2>1, <2>2, <2>3, <2>4, <2>5, <2>6, <2>7
<1>7. ASSUME Refill PROVE IInv'
  <2>0. FlagsOK' BY <1>7, Zenon DEF Refill, FlagsOK, TypeOK
  <2>1. TypeOK'
    <3>1. pool' \subseteq Mbufs /\ new' \in MbufOrNone /\ rpkt' \in MbufOrNone
      BY <1>7 DEF Refill, TypeOK, MbufOrNone
    <3>2. frame' \in [Mbufs -> 0..(Frames - 1)]
      BY <1>7 DEF Refill, TypeOK, Holds
    <3>3. job' \in JobPC BY <1>7 DEF Refill, JobPC
    <3>4. UNCHANGED <<rx_pkts, rx_cidx, empty, wrap, bad, buffer, up, sent, seen, nic, ievent,
                      stk, i, op, this>>
      BY <1>7 DEF Refill
    <3> QED BY <2>0, <3>1, <3>2, <3>3, <3>4 DEF TypeOK
  <2>2. Turn' BY <1>7 DEF Refill, Turn, TypeOK, ReceivePC
  <2>3. Holds'
    BY <1>7 DEF Refill, Holds, TypeOK, Turn, Filled, ReceivePC, InPlace,
        MbufOrNone
  <2>4. Filled'
    BY <1>7 DEF Refill, Filled, InPlace, TypeOK, Turn, Holds, MbufOrNone
  <2>5. Wraps' BY <1>7 DEF Refill, Wraps, TypeOK, Turn
  <2>6. OneOwner' BY <1>7 DEF Refill, OneOwner, TypeOK, Holds, Turn, MbufOrNone
  <2>7. NoMbufLost'
    BY <1>7 DEF Refill, NoMbufLost, RingMbufs, TypeOK, Holds, OneOwner,
        MbufOrNone
  <2> QED BY <2>1, <2>2, <2>3, <2>4, <2>5, <2>6, <2>7
<1>8. ASSUME LoadBuffer PROVE IInv'
  <2>0. FlagsOK' BY <1>8, Zenon DEF LoadBuffer, FlagsOK, TypeOK
  <2>1. TypeOK'
    BY <1>8, <2>0 DEF LoadBuffer, TypeOK, Wraps, Holds, MbufOrNone, StackPC,
        JobPC
  <2>2. Turn' BY <1>8 DEF LoadBuffer, Turn, TypeOK, ReceivePC
  <2>3. Holds'
    BY <1>8 DEF LoadBuffer, Holds, TypeOK, Turn, Filled, ReceivePC, InPlace,
        MbufOrNone
  <2>4. Filled'
    BY <1>8 DEF LoadBuffer, Filled, InPlace, TypeOK, Turn, Holds, MbufOrNone
  <2>5. Wraps' BY <1>8 DEF LoadBuffer, Wraps, TypeOK, Turn
  <2>6. OneOwner'
    BY <1>8 DEF LoadBuffer, OneOwner, TypeOK, Holds, Turn, MbufOrNone
  <2>7. NoMbufLost'
    BY <1>8 DEF LoadBuffer, NoMbufLost, RingMbufs, TypeOK, Holds, OneOwner,
        MbufOrNone
  <2> QED BY <2>1, <2>2, <2>3, <2>4, <2>5, <2>6, <2>7
<1>9. ASSUME GiveToNic PROVE IInv'
  <2>0. FlagsOK' BY <1>9, Zenon DEF GiveToNic, FlagsOK, TypeOK
  <2>1. TypeOK'
    BY <1>9, <2>0 DEF GiveToNic, With, TypeOK, Wraps, Holds, MbufOrNone,
        StackPC, JobPC
  <2>2. Turn' BY <1>9 DEF GiveToNic, With, Turn, TypeOK, ReceivePC
  <2>3. Holds'
    BY <1>9 DEF GiveToNic, With, Holds, TypeOK, Turn, Filled, ReceivePC,
        InPlace, MbufOrNone
  <2>4. Filled'
    BY <1>9 DEF GiveToNic, With, Filled, InPlace, TypeOK, Turn, Holds,
        MbufOrNone
  <2>5. Wraps' BY <1>9 DEF GiveToNic, With, Wraps, TypeOK, Turn
  <2>6. OneOwner'
    BY <1>9 DEF GiveToNic, With, OneOwner, TypeOK, Holds, Turn, MbufOrNone
  <2>7. NoMbufLost'
    BY <1>9 DEF GiveToNic, With, NoMbufLost, RingMbufs, TypeOK, Holds,
        OneOwner, MbufOrNone
  <2> QED BY <2>1, <2>2, <2>3, <2>4, <2>5, <2>6, <2>7
<1>10. ASSUME PassUp PROVE IInv'
  <2>0. FlagsOK' BY <1>10, Zenon DEF PassUp, FlagsOK, TypeOK
  <2>1. TypeOK'
    BY <1>10, <2>0 DEF PassUp, TypeOK, Wraps, Holds, MbufOrNone, StackPC,
        JobPC
  <2>2. Turn' BY <1>10 DEF PassUp, Turn, TypeOK, ReceivePC
  <2>3. Holds'
    BY <1>10 DEF PassUp, Holds, TypeOK, Turn, Filled, ReceivePC, InPlace,
        MbufOrNone
  <2>4. Filled'
    BY <1>10 DEF PassUp, Filled, InPlace, TypeOK, Turn, Holds, MbufOrNone
  <2>5. Wraps' BY <1>10 DEF PassUp, Wraps, TypeOK, Turn
  <2>6. OneOwner' BY <1>10 DEF PassUp, OneOwner, TypeOK, Holds, Turn, MbufOrNone
  <2>7. NoMbufLost'
    BY <1>10 DEF PassUp, NoMbufLost, RingMbufs, TypeOK, Holds, OneOwner,
        MbufOrNone
  <2> QED BY <2>1, <2>2, <2>3, <2>4, <2>5, <2>6, <2>7
<1>11. ASSUME DesActive PROVE IInv'
  <2>0. FlagsOK' BY <1>11, Zenon DEF DesActive, FlagsOK, TypeOK
  <2>1. TypeOK'
    BY <1>11, <2>0 DEF DesActive, TypeOK, Wraps, Holds, MbufOrNone, StackPC,
        JobPC
  <2>2. Turn' BY <1>11 DEF DesActive, Turn, TypeOK, ReceivePC
  <2>3. Holds'
    BY <1>11 DEF DesActive, Holds, TypeOK, Turn, Filled, ReceivePC, InPlace,
        MbufOrNone
  <2>4. Filled'
    BY <1>11 DEF DesActive, Filled, InPlace, TypeOK, Turn, Holds, MbufOrNone
  <2>5. Wraps' BY <1>11 DEF DesActive, Wraps, TypeOK, Turn
  <2>6. OneOwner'
    BY <1>11 DEF DesActive, OneOwner, TypeOK, Holds, Turn, MbufOrNone
  <2>7. NoMbufLost'
    BY <1>11 DEF DesActive, NoMbufLost, RingMbufs, TypeOK, Holds, OneOwner,
        MbufOrNone
  <2> QED BY <2>1, <2>2, <2>3, <2>4, <2>5, <2>6, <2>7
<1>12. ASSUME Call PROVE IInv'
  <2>0. FlagsOK' BY <1>12, Zenon DEF Call, FlagsOK, TypeOK
  <2>1. TypeOK'
    BY <1>12, <2>0 DEF Call, TypeOK, Wraps, Holds, MbufOrNone, StackPC,
        JobPC
  <2>2. Turn' BY <1>12 DEF Call, Turn, TypeOK, ReceivePC
  <2>3. Holds'
    BY <1>12 DEF Call, Holds, TypeOK, Turn, Filled, ReceivePC, InPlace,
        MbufOrNone
  <2>4. Filled'
    BY <1>12 DEF Call, Filled, InPlace, TypeOK, Turn, Holds, MbufOrNone
  <2>5. Wraps' BY <1>12 DEF Call, Wraps, TypeOK, Turn
  <2>6. OneOwner' BY <1>12 DEF Call, OneOwner, TypeOK, Holds, Turn, MbufOrNone
  <2>7. NoMbufLost'
    BY <1>12 DEF Call, NoMbufLost, RingMbufs, TypeOK, Holds, OneOwner,
        MbufOrNone
  <2> QED BY <2>1, <2>2, <2>3, <2>4, <2>5, <2>6, <2>7
<1>13. ASSUME Reset PROVE IInv'
  <2>0. FlagsOK' BY <1>13, Zenon DEF Reset, FlagsOK, TypeOK
  <2>1. TypeOK'
    BY <1>13, <2>0 DEF Reset, TypeOK, Wraps, Holds, MbufOrNone, StackPC,
        JobPC
  <2>2. Turn' BY <1>13 DEF Reset, Turn, TypeOK, ReceivePC
  <2>3. Holds'
    BY <1>13 DEF Reset, Holds, TypeOK, Turn, Filled, ReceivePC, InPlace,
        MbufOrNone
  <2>4. Filled'
    BY <1>13 DEF Reset, Filled, InPlace, TypeOK, Turn, Holds, MbufOrNone
  <2>5. Wraps' BY <1>13 DEF Reset, Wraps, TypeOK, Turn
  <2>6. OneOwner' BY <1>13 DEF Reset, OneOwner, TypeOK, Holds, Turn, MbufOrNone
  <2>7. NoMbufLost'
    BY <1>13 DEF Reset, NoMbufLost, RingMbufs, TypeOK, Holds, OneOwner,
        MbufOrNone
  <2> QED BY <2>1, <2>2, <2>3, <2>4, <2>5, <2>6, <2>7
<1>14. ASSUME Detach PROVE IInv'
  <2>0. FlagsOK' BY <1>14, Zenon DEF Detach, FlagsOK, TypeOK
  <2>1. TypeOK'
    BY <1>14, <2>0 DEF Detach, TypeOK, Wraps, Holds, MbufOrNone, StackPC,
        JobPC
  <2>2. Turn' BY <1>14 DEF Detach, Turn, TypeOK, ReceivePC
  <2>3. Holds'
    BY <1>14 DEF Detach, Holds, TypeOK, Turn, Filled, ReceivePC, InPlace,
        MbufOrNone
  <2>4. Filled'
    BY <1>14 DEF Detach, Filled, InPlace, TypeOK, Turn, Holds, MbufOrNone
  <2>5. Wraps' BY <1>14 DEF Detach, Wraps, TypeOK, Turn
  <2>6. OneOwner' BY <1>14 DEF Detach, OneOwner, TypeOK, Holds, Turn, MbufOrNone
  <2>7. NoMbufLost'
    BY <1>14 DEF Detach, NoMbufLost, RingMbufs, TypeOK, Holds, OneOwner,
        MbufOrNone
  <2> QED BY <2>1, <2>2, <2>3, <2>4, <2>5, <2>6, <2>7
<1>15. ASSUME RingSlot PROVE IInv'
  <2>0. FlagsOK' BY <1>15, Zenon DEF RingSlot, FlagsOK, TypeOK
  <2>1. TypeOK'
    BY <1>15, <2>0 DEF RingSlot, With, NewFrames, TypeOK, Wraps, Holds,
        MbufOrNone, StackPC, JobPC
  <2>2. Turn' BY <1>15 DEF RingSlot, With, NewFrames, Turn, TypeOK, ReceivePC
  <2>3. Holds'
    BY <1>15 DEF RingSlot, With, NewFrames, Holds, TypeOK, Turn, Filled,
        ReceivePC, InPlace, MbufOrNone
  <2>a. \/ rx_pkts' = rx_pkts /\ pool' = pool
        \/ /\ rx_pkts[i] = None
           /\ \E m \in pool : pool' = pool \ {m} /\ rx_pkts' = [rx_pkts EXCEPT ![i] = m]
    BY <1>15 DEF RingSlot
  <2>b. new' = new /\ rpkt' = rpkt /\ up' = up
    BY <1>15 DEF RingSlot
  <2>4. Filled'
    <3>1. ~nicOn' /\ job' = "idle"
      BY <1>15 DEF RingSlot, Turn
    <3>2. CASE stk' = "idle"
      BY <3>1, <3>2 DEF Filled
    <3>3. CASE stk' # "idle"
      <4>1. /\ rx_pkts' \in [Slots -> MbufOrNone] /\ rx_pkts'[i] \in Mbufs
            /\ \A s \in Slots : s # i => rx_pkts'[s] = rx_pkts[s]
        BY <1>15, <3>3, <2>1 DEF RingSlot, TypeOK, MbufOrNone
      <4>2. buffer' = [buffer EXCEPT ![i] = rx_pkts'[i]]
        BY <1>15, <3>3 DEF RingSlot
      <4>3. \A s \in Slots : s <= i => InPlace(s)'
        BY <1>15, <4>1, <4>2 DEF RingSlot, Filled, InPlace, TypeOK
      <4>4. \/ i < N - 1 /\ i' = i + 1 /\ stk' = "ring"
            \/ i = N - 1 /\ stk' = "on"
        BY <1>15, <3>3 DEF RingSlot, TypeOK
      <4> QED BY <3>1, <4>3, <4>4 DEF Filled, TypeOK
    <3> QED BY <3>2, <3>3
  <2>5. Wraps' BY <1>15 DEF RingSlot, With, NewFrames, Wraps, TypeOK, Turn
  <2>6. OneOwner'
    <3>1. CASE rx_pkts' = rx_pkts /\ pool' = pool
      BY <3>1, <2>b DEF OneOwner
    <3>2. ASSUME NEW m \in pool, pool' = pool \ {m},
                 rx_pkts' = [rx_pkts EXCEPT ![i] = m]
          PROVE  OneOwner'
      BY <3>2, <2>b DEF OneOwner, TypeOK
    <3> QED BY <2>a, <3>1, <3>2
  <2>7. NoMbufLost'
    <3>1. CASE rx_pkts' = rx_pkts /\ pool' = pool
      BY <3>1, <2>b DEF NoMbufLost, RingMbufs
    <3>2. ASSUME NEW m \in pool, pool' = pool \ {m}, rx_pkts[i] = None,
                 rx_pkts' = [rx_pkts EXCEPT ![i] = m]
          PROVE  NoMbufLost'
      <4>1. RingMbufs' = RingMbufs \cup {m}
        BY <3>2 DEF RingMbufs, TypeOK
      <4> QED BY <3>2, <2>b, <4>1 DEF NoMbufLost, TypeOK
    <3> QED BY <2>a, <3>1, <3>2
  <2> QED BY <2>1, <2>2, <2>3, <2>4, <2>5, <2>6, <2>7
<1>16. ASSUME TurnOn PROVE IInv'
  <2>0. FlagsOK' BY <1>16, Zenon DEF TurnOn, FlagsOK, TypeOK
  <2>1. TypeOK'
    BY <1>16, <2>0 DEF TurnOn, TypeOK, Wraps, Holds, MbufOrNone, StackPC,
        JobPC
  <2>2. Turn' BY <1>16 DEF TurnOn, Turn, TypeOK, ReceivePC
  <2>3. Holds'
    BY <1>16 DEF TurnOn, Holds, TypeOK, Turn, Filled, ReceivePC, InPlace,
        MbufOrNone
  <2>4. Filled'
    BY <1>16 DEF TurnOn, Filled, InPlace, TypeOK, Turn, Holds, MbufOrNone
  <2>5. Wraps' BY <1>16 DEF TurnOn, Wraps, TypeOK, Turn
  <2>6. OneOwner' BY <1>16 DEF TurnOn, OneOwner, TypeOK, Holds, Turn, MbufOrNone
  <2>7. NoMbufLost'
    BY <1>16 DEF TurnOn, NoMbufLost, RingMbufs, TypeOK, Holds, OneOwner,
        MbufOrNone
  <2> QED BY <2>1, <2>2, <2>3, <2>4, <2>5, <2>6, <2>7
<1>17. ASSUME Attach PROVE IInv'
  <2>0. FlagsOK' BY <1>17, Zenon DEF Attach, FlagsOK, TypeOK
  <2>1. TypeOK'
    BY <1>17, <2>0 DEF Attach, TypeOK, Wraps, Holds, MbufOrNone, StackPC,
        JobPC
  <2>2. Turn' BY <1>17 DEF Attach, Turn, TypeOK, ReceivePC
  <2>3. Holds'
    BY <1>17 DEF Attach, Holds, TypeOK, Turn, Filled, ReceivePC, InPlace,
        MbufOrNone
  <2>4. Filled'
    BY <1>17 DEF Attach, Filled, InPlace, TypeOK, Turn, Holds, MbufOrNone
  <2>5. Wraps' BY <1>17 DEF Attach, Wraps, TypeOK, Turn
  <2>6. OneOwner' BY <1>17 DEF Attach, OneOwner, TypeOK, Holds, Turn, MbufOrNone
  <2>7. NoMbufLost'
    BY <1>17 DEF Attach, NoMbufLost, RingMbufs, TypeOK, Holds, OneOwner,
        MbufOrNone
  <2> QED BY <2>1, <2>2, <2>3, <2>4, <2>5, <2>6, <2>7
<1>18. ASSUME RxMbufFree PROVE IInv'
  <2>0. FlagsOK' BY <1>18, Zenon DEF RxMbufFree, FlagsOK, TypeOK
  <2>1. TypeOK'
    BY <1>18, <2>0 DEF RxMbufFree, TypeOK, Wraps, Holds, MbufOrNone,
        StackPC, JobPC
  <2>2. Turn' BY <1>18 DEF RxMbufFree, Turn, TypeOK, ReceivePC
  <2>3. Holds'
    BY <1>18 DEF RxMbufFree, Holds, TypeOK, Turn, Filled, ReceivePC,
        InPlace, MbufOrNone
  <2>4. Filled'
    BY <1>18 DEF RxMbufFree, Filled, InPlace, TypeOK, Turn, Holds,
        MbufOrNone
  <2>5. Wraps' BY <1>18 DEF RxMbufFree, Wraps, TypeOK, Turn
  <2>6. OneOwner'
    BY <1>18 DEF RxMbufFree, OneOwner, TypeOK, Holds, Turn, MbufOrNone
  <2>7. NoMbufLost'
    BY <1>18 DEF RxMbufFree, NoMbufLost, RingMbufs, TypeOK, Holds, OneOwner,
        MbufOrNone
  <2> QED BY <2>1, <2>2, <2>3, <2>4, <2>5, <2>6, <2>7
<1>19. ASSUME StackFree PROVE IInv'
  <2>0. FlagsOK' BY <1>19, Zenon DEF StackFree, FlagsOK, TypeOK
  <2>1. TypeOK'
    BY <1>19, <2>0 DEF StackFree, TypeOK, Wraps, Holds, MbufOrNone, StackPC,
        JobPC
  <2>2. Turn' BY <1>19 DEF StackFree, Turn, TypeOK, ReceivePC
  <2>3. Holds'
    BY <1>19 DEF StackFree, Holds, TypeOK, Turn, Filled, ReceivePC, InPlace,
        MbufOrNone
  <2>4. Filled'
    BY <1>19 DEF StackFree, Filled, InPlace, TypeOK, Turn, Holds, MbufOrNone
  <2>5. Wraps' BY <1>19 DEF StackFree, Wraps, TypeOK, Turn
  <2>6. OneOwner'
    BY <1>19 DEF StackFree, OneOwner, TypeOK, Holds, Turn, MbufOrNone
  <2>7. NoMbufLost'
    BY <1>19 DEF StackFree, NoMbufLost, RingMbufs, TypeOK, Holds, OneOwner,
        MbufOrNone
  <2> QED BY <2>1, <2>2, <2>3, <2>4, <2>5, <2>6, <2>7
<1>20. ASSUME NicReceive PROVE IInv'
  <2>0. FlagsOK' BY <1>20, Zenon DEF NicReceive, FlagsOK, TypeOK
  <2>1. TypeOK'
    BY <1>20, <2>0 DEF NicReceive, NextFrame, TypeOK, Wraps, Holds,
        MbufOrNone, StackPC, JobPC
  <2>2. Turn' BY <1>20 DEF NicReceive, NextFrame, Turn, TypeOK, ReceivePC
  <2>3. Holds'
    BY <1>20 DEF NicReceive, NextFrame, Holds, TypeOK, Turn, Filled,
        ReceivePC, InPlace, MbufOrNone
  <2>4. Filled'
    BY <1>20 DEF NicReceive, NextFrame, Filled, InPlace, TypeOK, Turn,
        Holds, MbufOrNone
  <2>5. Wraps' BY <1>20 DEF NicReceive, NextFrame, Wraps, TypeOK, Turn
  <2>6. OneOwner'
    BY <1>20 DEF NicReceive, NextFrame, OneOwner, TypeOK, Holds, Turn,
        MbufOrNone
  <2>7. NoMbufLost'
    BY <1>20 DEF NicReceive, NextFrame, NoMbufLost, RingMbufs, TypeOK,
        Holds, OneOwner, MbufOrNone
  <2> QED BY <2>1, <2>2, <2>3, <2>4, <2>5, <2>6, <2>7
<1>21. ASSUME NicStall PROVE IInv'
  <2>0. FlagsOK' BY <1>21, Zenon DEF NicStall, FlagsOK, TypeOK
  <2>1. TypeOK'
    BY <1>21, <2>0 DEF NicStall, TypeOK, Wraps, Holds, MbufOrNone, StackPC,
        JobPC
  <2>2. Turn' BY <1>21 DEF NicStall, Turn, TypeOK, ReceivePC
  <2>3. Holds'
    BY <1>21 DEF NicStall, Holds, TypeOK, Turn, Filled, ReceivePC, InPlace,
        MbufOrNone
  <2>4. Filled'
    BY <1>21 DEF NicStall, Filled, InPlace, TypeOK, Turn, Holds, MbufOrNone
  <2>5. Wraps' BY <1>21 DEF NicStall, Wraps, TypeOK, Turn
  <2>6. OneOwner'
    BY <1>21 DEF NicStall, OneOwner, TypeOK, Holds, Turn, MbufOrNone
  <2>7. NoMbufLost'
    BY <1>21 DEF NicStall, NoMbufLost, RingMbufs, TypeOK, Holds, OneOwner,
        MbufOrNone
  <2> QED BY <2>1, <2>2, <2>3, <2>4, <2>5, <2>6, <2>7
<1>22. ASSUME NicOther PROVE IInv'
  <2>0. FlagsOK' BY <1>22, Zenon DEF NicOther, FlagsOK, TypeOK
  <2>1. TypeOK'
    BY <1>22, <2>0 DEF NicOther, TypeOK, Wraps, Holds, MbufOrNone, StackPC,
        JobPC
  <2>2. Turn' BY <1>22 DEF NicOther, Turn, TypeOK, ReceivePC
  <2>3. Holds'
    BY <1>22 DEF NicOther, Holds, TypeOK, Turn, Filled, ReceivePC, InPlace,
        MbufOrNone
  <2>4. Filled'
    BY <1>22 DEF NicOther, Filled, InPlace, TypeOK, Turn, Holds, MbufOrNone
  <2>5. Wraps' BY <1>22 DEF NicOther, Wraps, TypeOK, Turn
  <2>6. OneOwner'
    BY <1>22 DEF NicOther, OneOwner, TypeOK, Holds, Turn, MbufOrNone
  <2>7. NoMbufLost'
    BY <1>22 DEF NicOther, NoMbufLost, RingMbufs, TypeOK, Holds, OneOwner,
        MbufOrNone
  <2> QED BY <2>1, <2>2, <2>3, <2>4, <2>5, <2>6, <2>7
<1>23. ASSUME MiiBegin PROVE IInv'
  <2>0. FlagsOK'
    <3>1. lost' = lost \/ lost' = TRUE \/ lost' = FALSE BY <1>23 DEF MiiBegin, AckAll
    <3>2. lost' \in BOOLEAN BY <3>1, Zenon DEF FlagsOK, TypeOK
    <3> QED BY <1>23, <3>2, Zenon DEF MiiBegin, FlagsOK, TypeOK
  <2>1. TypeOK' BY <1>23, <2>0 DEF MiiBegin, AckAll, TypeOK, StackPC
  <2>2. Turn' BY <1>23 DEF MiiBegin, AckAll, Turn, ReceivePC
  <2>3. Holds' /\ Wraps' BY <1>23 DEF MiiBegin, Holds, Wraps, Turn
  <2>4. Filled' BY <1>23 DEF MiiBegin, Filled, InPlace
  <2>5. OneOwner' BY <1>23 DEF MiiBegin, OneOwner
  <2>6. NoMbufLost' BY <1>23 DEF MiiBegin, NoMbufLost, RingMbufs
  <2> QED BY <2>1, <2>2, <2>3, <2>4, <2>5, <2>6
<1>24. ASSUME MiiEnd PROVE IInv'
  <2>0. FlagsOK'
    <3>1. lost' = lost \/ lost' = TRUE \/ lost' = FALSE BY <1>24 DEF MiiEnd, AckAll
    <3>2. lost' \in BOOLEAN BY <3>1, Zenon DEF FlagsOK, TypeOK
    <3> QED BY <1>24, <3>2, Zenon DEF MiiEnd, FlagsOK, TypeOK
  <2>1. TypeOK' BY <1>24, <2>0 DEF MiiEnd, AckAll, TypeOK, StackPC
  <2>2. Turn' BY <1>24 DEF MiiEnd, AckAll, Turn, ReceivePC
  <2>3. Holds' /\ Wraps' BY <1>24 DEF MiiEnd, Holds, Wraps, Turn
  <2>4. Filled' BY <1>24 DEF MiiEnd, Filled, InPlace
  <2>5. OneOwner' BY <1>24 DEF MiiEnd, OneOwner
  <2>6. NoMbufLost' BY <1>24 DEF MiiEnd, NoMbufLost, RingMbufs
  <2> QED BY <2>1, <2>2, <2>3, <2>4, <2>5, <2>6
<1> QED
  BY <1>0, <1>1, <1>2, <1>3, <1>4, <1>5, <1>6, <1>7, <1>8, <1>9, <1>10,
      <1>11, <1>12, <1>13, <1>14, <1>15, <1>16, <1>17, <1>18, <1>19, <1>20,
      <1>21, <1>22, <1>23, <1>24 DEF Next, Job, Receive, Stack, Mii, Nic

(* No mbuf is ever lost, with one io-pkt thread, whatever the size of the  *)
(* ring and the number of mbufs, across every error path, stop and init.   *)
THEOREM NoMbufLostCorrect == ASSUME OneThread PROVE Spec => []NoMbufLost
<1>1. IInv /\ [Next]_vars => IInv' BY NextIInv, OneThread
<1>2. IInv => NoMbufLost BY DEF IInv
<1> QED BY InitIInv, <1>1, <1>2, PTL DEF Spec

(* The NIC only ever fills the mbuf of its own descriptor, which neither   *)
(* the stack, the pool nor another descriptor has.                         *)
THEOREM NicMbufCorrect == ASSUME OneThread PROVE Spec => []NicHasOwnMbuf
<1>1. IInv /\ [Next]_vars => IInv' BY NextIInv, OneThread
<1>2. IInv => NicHasOwnMbuf
  BY NoneAssumption DEF IInv, NicHasOwnMbuf, TypeOK, Filled, InPlace, Holds,
      OneOwner
<1> QED BY InitIInv, <1>1, <1>2, PTL DEF Spec

(* The state stays well typed: the NIC and the driver stay in the ring.    *)
THEOREM TypeCorrect == ASSUME OneThread PROVE Spec => []TypeOK
<1>1. IInv /\ [Next]_vars => IInv' BY NextIInv, OneThread
<1>2. IInv => TypeOK BY DEF IInv
<1> QED BY InitIInv, <1>1, <1>2, PTL DEF Spec

(***************************************************************************)
(* The order of the frames                                                 *)
(***************************************************************************)

(* NEXT_RX without the remainder.                                          *)
LEMMA NextSlot ==
  ASSUME NEW x \in Slots
  PROVE  NEXT_RX(x) = IF x = N - 1 THEN 0 ELSE x + 1
<1> USE RingAssumption DEF Slots
<1>1. CASE x = N - 1
  <2>1. x + 1 = N BY <1>1
  <2>2. N % N = 0 OBVIOUS
  <2> QED BY <1>1, <2>1, <2>2 DEF NEXT_RX
<1>2. CASE x # N - 1
  <2>1. x + 1 \in 0..(N - 1) BY <1>2
  <2>2. \A y \in 0..(N - 1) : y % N = y OBVIOUS
  <2> QED BY <1>2, <2>1, <2>2 DEF NEXT_RX
<1> QED BY <1>1, <1>2

(* What Ordered depends on.                                                *)
LEMMA OrderKept ==
  ASSUME Ordered, UNCHANGED <<rx_cidx, rx_pkts, frame, nic, sent, seen>>,
         \A s \in Slots : Waiting(s)' <=> Waiting(s), nic \in Slots
  PROVE  Ordered'
<1>1. \A s \in Slots : Ahead(s)' = Ahead(s) BY DEF Ahead
<1>2. Behind' = Behind BY <1>1 DEF Behind
<1> QED BY <1>1, <1>2 DEF Ordered

(* The same when mbufs are exchanged that hold no waiting frame.           *)
LEMMA OrderMoved ==
  ASSUME Ordered, UNCHANGED <<rx_cidx, nic, sent, seen>>,
         nic \in Slots, rx_cidx \in Slots,
         \A s \in Slots : Waiting(s)' <=> Waiting(s),
         \A s \in Slots : Waiting(s) => frame'[rx_pkts'[s]] = frame[rx_pkts[s]]
  PROVE  Ordered'
<1> USE RingAssumption
<1>1. \A s \in Slots : Ahead(s)' = Ahead(s) /\ Ahead(s) \in 0..(N - 1)
  BY DEF Ahead, Slots
<1>2. Behind' = Behind /\ Behind \in 0..N BY <1>1 DEF Behind
<1>3. ASSUME NEW s \in Slots, Ahead(s) + 1 < Behind
      PROVE  frame'[rx_pkts'[NEXT_RX(s)]] = NextFrame(frame'[rx_pkts'[s]])
  <2>1. NEXT_RX(s) \in Slots /\ Ahead(NEXT_RX(s)) = Ahead(s) + 1
    BY <1>2, <1>3, NextSlot DEF Ahead, Slots
  <2>2. Waiting(s) /\ Waiting(NEXT_RX(s)) BY <1>1, <1>2, <1>3, <2>1 DEF Ordered
  <2> QED BY <1>3, <2>1, <2>2 DEF Ordered
<1>4. ASSUME NEW s \in Slots, Ahead(s) + 1 = Behind
      PROVE  sent = NextFrame(frame'[rx_pkts'[s]])
  <2>1. Waiting(s) BY <1>1, <1>2, <1>4 DEF Ordered
  <2> QED BY <1>4, <2>1 DEF Ordered
<1>5. Behind # 0 => seen = frame'[rx_pkts'[rx_cidx]]
  <2> SUFFICES ASSUME Behind # 0 PROVE seen = frame'[rx_pkts'[rx_cidx]] OBVIOUS
  <2>1. Ahead(rx_cidx) = 0 BY DEF Ahead, Slots
  <2>2. Waiting(rx_cidx) BY <1>2, <2>1 DEF Ordered
  <2> QED BY <2>2 DEF Ordered
<1> QED BY <1>1, <1>2, <1>3, <1>4, <1>5 DEF Ordered

(* Before the MAC is turned on there is no order.                          *)
LEMMA InitOrder == Init => OrderInv
BY DEF Init, OrderInv, Taken, Fresh

(* Every step preserves the order.                                         *)
LEMMA NextOrder == ASSUME OneThread, IInv, OrderInv, [Next]_vars PROVE OrderInv'
<1> USE RingAssumption, OptionAssumption, NoneAssumption
<1>1. nic \in Slots /\ rx_cidx \in Slots /\ this \in Slots BY DEF IInv, TypeOK
<1> DEFINE seenOf == <<rx_cidx, rx_pkts, frame, nic, sent, seen>>
<1>2. CASE UNCHANGED vars
  <2>1. UNCHANGED seenOf /\ \A s \in Slots : Waiting(s)' <=> Waiting(s)
    BY <1>2 DEF vars, ring, hist, hw, locals, Waiting
  <2>2. nicOn' => Ordered' BY <1>2, <1>1, <2>1, OrderKept DEF vars, hw, OrderInv
  <2>3. Taken' /\ Fresh'
    BY <1>2 DEF OrderInv, Taken, Fresh, vars, ring, hist, hw, stack, locals
  <2> QED BY <2>2, <2>3 DEF OrderInv
<1>3. ASSUME Isr PROVE OrderInv'
  <2>1. UNCHANGED seenOf /\ \A s \in Slots : Waiting(s)' <=> Waiting(s)
    BY <1>3 DEF Isr, ring, hist, hw, locals, Waiting
  <2>2. nicOn' => Ordered' BY <1>3, <1>1, <2>1, OrderKept DEF Isr, hw, OrderInv
  <2>3. Taken' /\ Fresh'
    BY <1>3, <1>1 DEF Isr, OrderInv, Taken, Fresh, ring, hist, hw, stack, locals
  <2> QED BY <2>2, <2>3 DEF OrderInv
<1>4. ASSUME JobStart PROVE OrderInv'
  <2>1. UNCHANGED seenOf /\ \A s \in Slots : Waiting(s)' <=> Waiting(s)
    BY <1>4 DEF JobStart, ring, hist, hw, Waiting
  <2>2. nicOn' => Ordered' BY <1>4, <1>1, <2>1, OrderKept DEF JobStart, hw, OrderInv
  <2>3. Taken' /\ Fresh'
    BY <1>4, <1>1 DEF JobStart, Taken, Fresh, IInv, Holds, stack, locals
  <2> QED BY <2>2, <2>3 DEF OrderInv
<1>5. ASSUME Cause PROVE OrderInv'
  <2>1. UNCHANGED seenOf /\ \A s \in Slots : Waiting(s)' <=> Waiting(s)
    BY <1>5 DEF Cause, ring, hist, Waiting
  <2>2. nicOn' => Ordered' BY <1>5, <1>1, <2>1, OrderKept DEF Cause, OrderInv
  <2>3. Taken' /\ Fresh'
    BY <1>5, <1>1 DEF Cause, Taken, Fresh, IInv, Turn, Holds, stack, locals
  <2> QED BY <2>2, <2>3 DEF OrderInv
<1>6. ASSUME Enable PROVE OrderInv'
  <2>1. UNCHANGED seenOf /\ \A s \in Slots : Waiting(s)' <=> Waiting(s)
    BY <1>6 DEF Enable, ring, hist, hw, Waiting
  <2>2. nicOn' => Ordered' BY <1>6, <1>1, <2>1, OrderKept DEF Enable, hw, OrderInv
  <2>3. Taken' /\ Fresh'
    BY <1>6, <1>1 DEF Enable, Taken, Fresh, IInv, Turn, Holds, stack, locals
  <2> QED BY <2>2, <2>3 DEF OrderInv
<1>7. ASSUME Check PROVE OrderInv'
  <2>1. UNCHANGED seenOf /\ \A s \in Slots : Waiting(s)' <=> Waiting(s)
    BY <1>7 DEF Check, ring, hist, hw, Waiting
  <2>2. nicOn' => Ordered' BY <1>7, <1>1, <2>1, OrderKept DEF Check, hw, OrderInv
  <2>3. Taken' /\ Fresh'
    BY <1>7, <1>1 DEF Check, Taken, Fresh, IInv, Turn, Holds, ring, stack
  <2> QED BY <2>2, <2>3 DEF OrderInv
<1>8. ASSUME DesActive PROVE OrderInv'
  <2>1. UNCHANGED seenOf /\ \A s \in Slots : Waiting(s)' <=> Waiting(s)
    BY <1>8 DEF DesActive, ring, hist, Waiting
  <2>2. nicOn' => Ordered' BY <1>8, <1>1, <2>1, OrderKept DEF DesActive, OrderInv
  <2>3. Taken' /\ Fresh'
    BY <1>8, <1>1 DEF DesActive, Taken, Fresh, IInv, Turn, Holds, stack, locals
  <2> QED BY <2>2, <2>3 DEF OrderInv
<1>9. ASSUME Call PROVE OrderInv'
  <2>1. UNCHANGED seenOf /\ \A s \in Slots : Waiting(s)' <=> Waiting(s)
    BY <1>9 DEF Call, ring, hist, hw, Waiting
  <2>2. nicOn' => Ordered' BY <1>9, <1>1, <2>1, OrderKept DEF Call, hw, OrderInv
  <2>3. Taken' /\ Fresh'
    BY <1>9, <1>1 DEF Call, Taken, Fresh, IInv, Holds, locals
  <2> QED BY <2>2, <2>3 DEF OrderInv
<1>10. ASSUME Attach PROVE OrderInv'
  <2>1. UNCHANGED seenOf /\ \A s \in Slots : Waiting(s)' <=> Waiting(s)
    BY <1>10 DEF Attach, ring, hist, hw, locals, Waiting
  <2>2. nicOn' => Ordered' BY <1>10, <1>1, <2>1, OrderKept DEF Attach, hw, OrderInv
  <2>3. Taken' /\ Fresh'
    BY <1>10, <1>1 DEF Attach, Taken, Fresh, IInv, Turn, Holds, locals
  <2> QED BY <2>2, <2>3 DEF OrderInv
<1>11. ASSUME StackFree PROVE OrderInv'
  <2>1. UNCHANGED seenOf /\ \A s \in Slots : Waiting(s)' <=> Waiting(s)
    BY <1>11 DEF StackFree, ring, hist, hw, locals, Waiting
  <2>2. nicOn' => Ordered' BY <1>11, <1>1, <2>1, OrderKept DEF StackFree, hw, OrderInv
  <2>3. Taken' /\ Fresh'
    BY <1>11, <1>1 DEF StackFree, OrderInv, Taken, Fresh, ring, hist, hw, stack, locals
  <2> QED BY <2>2, <2>3 DEF OrderInv
<1>12. ASSUME NicStall PROVE OrderInv'
  <2>1. UNCHANGED seenOf /\ \A s \in Slots : Waiting(s)' <=> Waiting(s)
    BY <1>12 DEF NicStall, ring, hist, locals, Waiting
  <2>2. nicOn' => Ordered' BY <1>12, <1>1, <2>1, OrderKept DEF NicStall, OrderInv
  <2>3. Taken' /\ Fresh'
    BY <1>12, <1>1 DEF NicStall, OrderInv, Taken, Fresh, ring, hist, stack, locals
  <2> QED BY <2>2, <2>3 DEF OrderInv
<1>13. ASSUME NicOther PROVE OrderInv'
  <2>1. UNCHANGED seenOf /\ \A s \in Slots : Waiting(s)' <=> Waiting(s)
    BY <1>13 DEF NicOther, ring, hist, locals, Waiting
  <2>2. nicOn' => Ordered' BY <1>13, <1>1, <2>1, OrderKept DEF NicOther, OrderInv
  <2>3. Taken' /\ Fresh'
    BY <1>13, <1>1 DEF NicOther, OrderInv, Taken, Fresh, ring, hist, stack, locals
  <2> QED BY <2>2, <2>3 DEF OrderInv
<1>14. ASSUME GiveToNic PROVE OrderInv'
  <2>1. UNCHANGED seenOf /\ \A s \in Slots : Waiting(s)' <=> Waiting(s)
    BY <1>14 DEF GiveToNic, hist, hw, Waiting
  <2>2. nicOn' => Ordered' BY <1>14, <1>1, <2>1, OrderKept DEF GiveToNic, hw, OrderInv
  <2>3. Taken' /\ Fresh'
    BY <1>14, <1>1 DEF GiveToNic, OrderInv, Taken, Fresh, hist, hw, stack
  <2> QED BY <2>2, <2>3 DEF OrderInv
<1>15. ASSUME Reset PROVE OrderInv'
  <2>1. ~nicOn' BY <1>15 DEF Reset
  <2>2. Taken' /\ Fresh'
    BY <1>15, <1>1 DEF Reset, Taken, Fresh, IInv, Turn, Holds, locals
  <2> QED BY <2>1, <2>2 DEF OrderInv
<1>16. ASSUME Detach PROVE OrderInv'
  <2>1. ~nicOn' BY <1>16 DEF Detach, hw, IInv, Turn
  <2>2. Taken' /\ Fresh'
    BY <1>16, <1>1 DEF Detach, OrderInv, Taken, Fresh, Slots, ring, hist, hw, locals
  <2> QED BY <2>1, <2>2 DEF OrderInv
<1>17. ASSUME RxMbufFree PROVE OrderInv'
  <2>1. ~nicOn' BY <1>17 DEF RxMbufFree, hw, IInv, Turn
  <2>2. Taken' /\ Fresh'
    BY <1>17, <1>1 DEF RxMbufFree, Taken, Fresh, IInv, Turn, Holds, locals
  <2> QED BY <2>1, <2>2 DEF OrderInv
<1>18. ASSUME RingSlot PROVE OrderInv'
  <2>1. ~nicOn' /\ job = "idle" /\ rpkt = None
    BY <1>18 DEF RingSlot, hw, IInv, Turn, Holds
  <2>2. Taken' BY <1>18, <2>1 DEF RingSlot, Taken, locals
  <2>3. Fresh'
    <3>1. /\ i \in 0..(N - 1) /\ nic' = 0 /\ empty \subseteq Slots
          /\ \A s \in Slots : s < i => s \in empty
      BY <1>18 DEF RingSlot, hw, OrderInv, Fresh, IInv, TypeOK, Slots
    <3>2. empty' = empty \cup {i} BY <1>18 DEF RingSlot
    <3>3. CASE i < N - 1 /\ i' = i + 1 /\ stk' = stk
      BY <1>18, <3>1, <3>2, <3>3 DEF RingSlot, Fresh, Slots
    <3>4. CASE i = N - 1 /\ stk' = "on" /\ rx_cidx' = 0 /\ NewFrames
      <4>1. \A s \in Slots : s \in empty' BY <3>1, <3>2, <3>4 DEF Slots
      <4>2. empty' = Slots BY <3>1, <3>2, <4>1 DEF Slots
      <4> QED BY <3>1, <3>4, <4>2 DEF Fresh, NewFrames
    <3>5. CASE stk' = "idle" BY <3>5 DEF Fresh
    <3>6. \/ i < N - 1 /\ i' = i + 1 /\ stk' = stk
          \/ i = N - 1 /\ stk' = "on" /\ rx_cidx' = 0 /\ NewFrames
          \/ stk' = "idle"
      BY <1>18, <3>1 DEF RingSlot
    <3> QED BY <3>3, <3>4, <3>5, <3>6
  <2> QED BY <2>1, <2>2, <2>3 DEF OrderInv
<1>19. ASSUME TurnOn PROVE OrderInv'
  <2>1. job = "idle" /\ empty = Slots /\ rx_cidx = 0 /\ nic = 0 /\ sent = seen
    BY <1>19 DEF TurnOn, IInv, Turn, OrderInv, Fresh
  <2>2. UNCHANGED <<job, this, empty, seenOf>> BY <1>19 DEF TurnOn, ring, hist, locals
  <2>3. \A s \in Slots : ~Waiting(s) BY <2>1 DEF Waiting
  <2>4. Behind = 0 BY <1>1, <2>1, <2>3 DEF Behind, Ahead
  <2>5. \A s \in Slots : Ahead(s) = s BY <2>1 DEF Ahead, Slots
  <2>6. Ordered BY <2>1, <2>3, <2>4, <2>5 DEF Ordered, Slots
  <2>7. Ordered' BY <1>1, <2>2, <2>6, OrderKept DEF Waiting
  <2>8. Taken' /\ Fresh' BY <1>19 DEF TurnOn, OrderInv, Taken, Fresh, ring, hist, locals
  <2> QED BY <2>7, <2>8 DEF OrderInv
<1>20. ASSUME Take PROVE OrderInv'
  <2> DEFINE c == rx_cidx
  <2>1. /\ nicOn /\ nicOn' /\ this = c /\ c \notin empty /\ Ordered
        /\ Waiting(c)
    BY <1>20 DEF Take, hw, IInv, Turn, Holds, ReceivePC, OrderInv, Taken, Waiting
  <2>2. /\ rx_cidx' = (IF c = N - 1 THEN 0 ELSE c + 1)
        /\ UNCHANGED <<nic, frame, sent, empty>>
    BY <1>20, <1>1, <2>1, NextSlot DEF Take, hw
  <2>3. \A s \in Slots : Waiting(s)' <=> Waiting(s) /\ s # c
    BY <1>20, <2>1 DEF Take, Waiting
  <2>4. \A s \in Slots : Ahead(s)' = IF s = c THEN N - 1 ELSE Ahead(s) - 1
    BY <1>1, <2>2 DEF Ahead, Slots
  <2>5. /\ Ahead(c) = 0
        /\ \A s \in Slots : Ahead(s) \in 0..(N - 1) /\ (s # c => Ahead(s) # 0)
    BY <1>1 DEF Ahead, Slots
  <2>6. Behind \in 1..N BY <1>1, <2>1, <2>5 DEF Ordered, Behind
  <2>7. Behind' = Behind - 1
    BY <1>1, <2>1, <2>2, <2>3, <2>4, <2>5 DEF Ordered, Behind
  <2>8. seen = frame[rx_pkts[c]] /\ seen' = NextFrame(seen) /\ rpkt' = rx_pkts[c]
    BY <1>20, <2>1, <2>6 DEF Take, Ordered
  <2>9. \A s \in Slots : s # c => rx_pkts'[s] = rx_pkts[s]
    BY <1>20, <2>1 DEF Take
  <2>10. \A s \in Slots : Waiting(s)' <=> Ahead(s)' < Behind'
    BY <2>1, <2>3, <2>4, <2>5, <2>6, <2>7 DEF Ordered
  <2>11. IF Behind' = 0 THEN seen' = sent ELSE seen' = frame[rx_pkts'[rx_cidx']]
    BY <1>1, <2>1, <2>2, <2>5, <2>6, <2>7, <2>8, <2>9, NextSlot DEF Ordered, Slots
  <2>12. ASSUME NEW s \in Slots, Ahead(s)' + 1 < Behind'
         PROVE  frame[rx_pkts'[NEXT_RX(s)]] = NextFrame(frame[rx_pkts'[s]])
    <3>1. s # c /\ Ahead(s) + 1 < Behind BY <2>4, <2>5, <2>6, <2>7, <2>12
    <3>2. NEXT_RX(s) \in Slots /\ NEXT_RX(s) # c
      BY <1>1, <2>6, <3>1, NextSlot DEF Ahead, Slots
    <3> QED BY <2>1, <2>9, <3>1, <3>2 DEF Ordered
  <2>13. ASSUME NEW s \in Slots, Ahead(s)' + 1 = Behind'
         PROVE  sent = NextFrame(frame[rx_pkts'[s]])
    <3>1. s # c /\ Ahead(s) + 1 = Behind BY <2>4, <2>5, <2>6, <2>7, <2>13
    <3> QED BY <2>1, <2>9, <3>1 DEF Ordered
  <2>14. Ordered' BY <2>2, <2>10, <2>11, <2>12, <2>13 DEF Ordered
  <2>15. Taken' BY <1>20, <2>1, <2>2, <2>8 DEF Take, Taken
  <2>16. Fresh' BY <1>20 DEF Take, Fresh, IInv, Turn, stack
  <2> QED BY <2>14, <2>15, <2>16 DEF OrderInv
<1>21. ASSUME Refill PROVE OrderInv'
  <2>1. nicOn /\ Ordered BY <1>21 DEF Refill, IInv, Turn, ReceivePC, OrderInv
  <2>2. /\ UNCHANGED <<rx_cidx, nic, sent, seen>>
        /\ \A s \in Slots : Waiting(s)' <=> Waiting(s)
    BY <1>21 DEF Refill, ring, hw, Waiting
  <2>3. \A s \in Slots : Waiting(s) => frame'[rx_pkts'[s]] = frame[rx_pkts[s]]
    BY <1>21, <1>1, <2>1 DEF Refill, ring, Waiting, IInv, TypeOK, OneOwner, Filled,
       InPlace
  <2>4. Ordered' BY <1>1, <2>1, <2>2, <2>3, OrderMoved
  <2>5. Taken' BY <1>21 DEF Refill, OrderInv, Taken, ring
  <2>6. Fresh' BY <1>21 DEF Refill, Fresh, IInv, Turn, stack
  <2> QED BY <2>4, <2>5, <2>6 DEF OrderInv
<1>22. ASSUME LoadBuffer PROVE OrderInv'
  <2>1. nicOn /\ Ordered BY <1>22 DEF LoadBuffer, IInv, Turn, ReceivePC, OrderInv
  <2>2. /\ UNCHANGED <<rx_cidx, nic, sent, seen>>
        /\ \A s \in Slots : Waiting(s)' <=> Waiting(s)
    BY <1>22 DEF LoadBuffer, hw, hist, Waiting
  <2>3. \A s \in Slots : Waiting(s) => frame'[rx_pkts'[s]] = frame[rx_pkts[s]]
    BY <1>22, <1>1, <2>1 DEF LoadBuffer, hist, Waiting
  <2>4. Ordered' BY <1>1, <2>1, <2>2, <2>3, OrderMoved
  <2>5. Taken' BY <1>22 DEF LoadBuffer, OrderInv, Taken, hist
  <2>6. Fresh' BY <1>22 DEF LoadBuffer, Fresh, IInv, Turn, stack
  <2> QED BY <2>4, <2>5, <2>6 DEF OrderInv
<1>23. ASSUME PassUp PROVE OrderInv'
  <2>1. nicOn /\ Ordered BY <1>23 DEF PassUp, IInv, Turn, ReceivePC, OrderInv
  <2>2. /\ UNCHANGED <<rx_cidx, nic, sent, seen>>
        /\ \A s \in Slots : Waiting(s)' <=> Waiting(s)
    BY <1>23 DEF PassUp, ring, hw, Waiting
  <2>3. \A s \in Slots : Waiting(s) => frame'[rx_pkts'[s]] = frame[rx_pkts[s]]
    BY <1>23, <1>1, <2>1 DEF PassUp, ring, IInv, OneOwner, Holds
  <2>4. Ordered' BY <1>1, <2>1, <2>2, <2>3, OrderMoved
  <2>5. Taken' BY <1>23 DEF PassUp, Taken
  <2>6. Fresh' BY <1>23 DEF PassUp, Fresh, IInv, Turn, stack
  <2> QED BY <2>4, <2>5, <2>6 DEF OrderInv
<1>24. ASSUME NicReceive PROVE OrderInv'
  <2>1. nicOn /\ Ordered /\ nic \in empty /\ ~Waiting(nic)
    BY <1>24 DEF NicReceive, OrderInv, Waiting
  <2>2. nic' = (IF nic = N - 1 THEN 0 ELSE nic + 1) /\ sent' = NextFrame(sent)
    BY <1>24, <1>1, <2>1 DEF NicReceive, IInv, Wraps
  <2>3. UNCHANGED <<rx_cidx, rx_pkts, seen>> BY <1>24 DEF NicReceive
  <2>4. \A s \in Slots : Waiting(s)' <=> Waiting(s) \/ s = nic
    BY <1>24, <1>1, <2>1 DEF NicReceive, locals, Waiting, IInv, Holds
  <2>5. \A s \in Slots : Ahead(s)' = Ahead(s) /\ Ahead(s) \in 0..(N - 1)
    BY <1>1, <2>3 DEF Ahead, Slots
  <2>6. Behind = Ahead(nic) BY <2>1 DEF Behind
  <2>7. Behind' = Behind + 1
    BY <1>1, <2>1, <2>2, <2>3, <2>4, <2>6 DEF Behind, Ahead, Ordered, Slots
  <2>8. \A s \in Slots : Ahead(s) = Behind <=> s = nic BY <1>1, <2>6 DEF Ahead, Slots
  <2>9. frame'[rx_pkts[nic]] = sent /\ \A s \in Slots : s # nic /\ Waiting(s) =>
          frame'[rx_pkts[s]] = frame[rx_pkts[s]]
    BY <1>24, <1>1, <2>1 DEF NicReceive, Waiting, IInv, OneOwner, Filled, InPlace, Holds
  <2>10. \A s \in Slots : Waiting(s)' <=> Ahead(s)' < Behind'
    <3> TAKE s \in Slots
    <3>1. Waiting(s) <=> Ahead(s) < Behind BY <2>1 DEF Ordered
    <3>2. Ahead(s) \in Int /\ Ahead(nic) \in Int BY <1>1, <2>5
    <3>3. Ahead(s)' < Behind' <=> Ahead(s) < Behind \/ Ahead(s) = Behind
      BY <2>5, <2>6, <2>7, <3>2
    <3> QED BY <2>4, <2>8, <3>1, <3>3, Zenon
  <2>11. seen' = frame'[rx_pkts'[rx_cidx']]
    BY <1>1, <2>1, <2>3, <2>5, <2>6, <2>8, <2>9 DEF Ordered, Ahead, Slots
  <2>12. ASSUME NEW s \in Slots, Ahead(s) + 1 < Behind + 1
         PROVE  frame'[rx_pkts[NEXT_RX(s)]] = NextFrame(frame'[rx_pkts[s]])
    <3>1. NEXT_RX(s) \in Slots /\ Ahead(NEXT_RX(s)) = Ahead(s) + 1
      BY <1>1, <2>5, <2>6, <2>12, NextSlot DEF Ahead, Slots
    <3>2. s # nic /\ Waiting(s)
      <4>1. Ahead(s) < Behind BY <1>1, <2>5, <2>6, <2>12
      <4>2. Waiting(s) BY <2>1, <4>1 DEF Ordered
      <4> QED BY <2>1, <4>2
    <3>3. CASE Ahead(s) + 1 < Behind
      <4>1. NEXT_RX(s) # nic /\ Waiting(NEXT_RX(s))
        BY <2>1, <2>6, <3>1, <3>3 DEF Ordered
      <4> QED BY <2>1, <2>9, <3>1, <3>2, <3>3, <4>1 DEF Ordered
    <3>4. CASE Ahead(s) + 1 = Behind
      <4>1. NEXT_RX(s) = nic BY <2>8, <3>1, <3>4
      <4> QED BY <2>1, <2>9, <3>2, <3>4, <4>1 DEF Ordered
    <3> QED BY <2>5, <2>6, <2>12, <3>3, <3>4, <1>1
  <2>13. ASSUME NEW s \in Slots, Ahead(s) + 1 = Behind + 1
         PROVE  sent' = NextFrame(frame'[rx_pkts[s]])
    <3>1. s = nic BY <1>1, <2>5, <2>6, <2>8, <2>13
    <3> QED BY <2>2, <2>9, <3>1
  <2>14. Behind' # 0 BY <1>1, <2>5, <2>6, <2>7
  <2>15. Ordered'
    BY <2>3, <2>5, <2>7, <2>10, <2>11, <2>12, <2>13, <2>14 DEF Ordered
  <2>16. Taken'
    BY <1>24, <1>1, <2>1 DEF NicReceive, locals, OrderInv, Taken, IInv, TypeOK,
       MbufOrNone, OneOwner, Filled, InPlace, Holds
  <2>17. Fresh' BY <1>24 DEF NicReceive, Fresh, IInv, Turn, stack
  <2> QED BY <2>15, <2>16, <2>17 DEF OrderInv
<1>25. ASSUME MiiBegin PROVE OrderInv'
  <2>1. UNCHANGED seenOf /\ \A s \in Slots : Waiting(s)' <=> Waiting(s)
    BY <1>25 DEF MiiBegin, ring, hist, locals, Waiting
  <2>2. nicOn' => Ordered' BY <1>25, <1>1, <2>1, OrderKept DEF MiiBegin, OrderInv
  <2>3. Taken' /\ Fresh'
    BY <1>25, <1>1 DEF MiiBegin, OrderInv, Taken, Fresh, ring, hist, locals
  <2> QED BY <2>2, <2>3 DEF OrderInv
<1>26. ASSUME MiiEnd PROVE OrderInv'
  <2>1. UNCHANGED seenOf /\ \A s \in Slots : Waiting(s)' <=> Waiting(s)
    BY <1>26 DEF MiiEnd, ring, hist, locals, Waiting
  <2>2. nicOn' => Ordered' BY <1>26, <1>1, <2>1, OrderKept DEF MiiEnd, OrderInv
  <2>3. Taken' /\ Fresh'
    BY <1>26, <1>1 DEF MiiEnd, OrderInv, Taken, Fresh, ring, hist, locals
  <2> QED BY <2>2, <2>3 DEF OrderInv
<1> QED
  BY <1>2, <1>3, <1>4, <1>5, <1>6, <1>7, <1>8, <1>9, <1>10, <1>11, <1>12, <1>13,
     <1>14, <1>15, <1>16, <1>17, <1>18, <1>19, <1>20, <1>21, <1>22, <1>23, <1>24,
     <1>25, <1>26 DEF Next, Job, Receive, Stack, Mii, Nic

(* With one io-pkt thread, whatever the size of the ring, and however the  *)
(* interface is stopped and initialised again: mx6q_receive passes up the  *)
(* frames in the order of arrival, none twice and none overwritten.        *)
THEOREM OrderCorrect == ASSUME OneThread PROVE Spec => []InOrder
<1>1. IInv /\ OrderInv /\ [Next]_vars => IInv' /\ OrderInv' BY NextIInv, NextOrder
<1>2. IInv /\ OrderInv => InOrder
  BY NoneAssumption DEF IInv, Holds, OrderInv, Taken, InOrder
<1> QED BY InitIInv, InitOrder, <1>1, <1>2, PTL DEF Spec
=============================================================================
