--------------------------- MODULE EnetTxProofs ---------------------------
(***************************************************************************)
(* Proofs about EnetTx for any threads and any length of the ring.         *)
(***************************************************************************)
EXTENDS EnetTx, TLAPS

(* Advancing an index stays in the ring and wraps at its end.              *)
LEMMA NextInRing ==
  ASSUME NEW x \in Slots
  PROVE  NEXT_TX(x) = IF x = N - 1 THEN 0 ELSE x + 1
<1>1. CASE x = N - 1
  <2>1. x + 1 = N BY <1>1, RingAssumption
  <2>2. N % N = 0 BY RingAssumption, SMT
  <2> QED BY <1>1, <2>1, <2>2 DEF NEXT_TX
<1>2. CASE x # N - 1
  <2>1. x + 1 \in Nat /\ x + 1 < N /\ N \in Nat /\ N > 0
    BY <1>2, RingAssumption DEF Slots
  <2>2. \A a, b \in Nat : a < b => a % b = a OBVIOUS
  <2>3. (x + 1) % N = x + 1 BY <2>1, <2>2
  <2> QED BY <1>2, <2>3 DEF NEXT_TX
<1> QED BY <1>1, <1>2

(* ... so the result is a descriptor.                                      *)
LEMMA NextSlot == \A x \in Slots : NEXT_TX(x) \in Slots
BY NextInRing, RingAssumption DEF Slots

(* Loading a descriptor makes the distance one longer, while one remains.  *)
LEMMA SpanGrows ==
  ASSUME NEW c \in Slots, NEW p \in Slots, Span(c, p) < N - 1
  PROVE  Span(c, NEXT_TX(p)) = Span(c, p) + 1
BY NextInRing, RingAssumption DEF Slots, Span

(* Taking one back makes it one shorter.                                   *)
LEMMA SpanShrinks ==
  ASSUME NEW c \in Slots, NEW p \in Slots, c # p
  PROVE  Span(NEXT_TX(c), p) = Span(c, p) - 1
BY NextInRing, RingAssumption DEF Slots, Span

(* What lies between the indices when either of them advances.             *)
LEMMA BetweenGrows ==
  ASSUME NEW c \in Slots, NEW p \in Slots, Span(c, p) < N - 1
  PROVE  /\ Between(p, c, NEXT_TX(p))
         /\ \A x \in Slots : Between(x, c, p) => Between(x, c, NEXT_TX(p))
BY NextInRing, RingAssumption DEF Slots, Span, Between

LEMMA BetweenShrinks ==
  ASSUME NEW c \in Slots, NEW p \in Slots, c # p
  PROVE  \A x \in Slots : Between(x, c, p) /\ x # c => Between(x, NEXT_TX(c), p)
BY NextInRing, RingAssumption DEF Slots, Between

(* The interface is down and nothing is in the ring.                       *)
LEMMA InitOccupied == Init => Occupied
<1> SUFFICES ASSUME Init PROVE Occupied OBVIOUS
<1> USE ThreadsAssumption, RingAssumption, BoundsAssumption DEF Init
<1>1. TypeOK
  <2>1. has \in [Threads -> BOOLEAN] /\ running \in BOOLEAN /\ oactive \in BOOLEAN
    BY Zenon
  <2>2. callout \in BOOLEAN /\ reaped \in BOOLEAN /\ nicOn \in BOOLEAN
    BY Zenon
  <2> QED BY <2>1, <2>2 DEF TypeOK, PCs, Slots
<1>2. LockAt /\ NoInterrupt
  BY DEF LockAt, NoInterrupt, LockedPC, StartPC, ReapPC
<1>3. Roles /\ RunningAt /\ ReapAt
  BY DEF Roles, RunningAt, ReapAt, StartPC, ReapPC, StopPC
<1>4. InUseExact /\ RoomAt
  BY DEF InUseExact, Span, RoomAt, SpareDescriptors, MX6Q_UNUSED_DESCR
<1>5. BufferAlive /\ PktsAt /\ FirstInit
  BY DEF BufferAlive, PktsAt, FirstInit, StopPC
<1> QED BY <1>1, <1>2, <1>3, <1>4, <1>5 DEF Occupied, Turns

(* The numbers the flow control compares.                                  *)
LEMMA Few == TypeOK => (TooFew <=> inuse > N - 5)
BY RingAssumption DEF TypeOK, TooFew, desc_avail, MX6Q_MAX_FRAGS,
    MX6Q_UNUSED_DESCR

(* Every step keeps the threads to their turns.                            *)
LEMMA NextTurns == ASSUME SafeThreads, Turns, [Next]_vars PROVE Turns'
<1> USE ThreadsAssumption, RingAssumption, BoundsAssumption
<1> USE DEF SafeThreads, Turns, Goto, Lock, Unlock, ring, flags, hw, locals, LockedPC, StartPC,
    ReapPC, StopPC
<1>1. ASSUME NEW t \in Threads, Output(t) PROVE Turns'
  <2>1. TypeOK' BY <1>1 DEF Output, TypeOK, PCs, Roles
  <2>2. LockAt' BY <1>1 DEF Output, None, TypeOK, LockAt, Roles
  <2>3. NoInterrupt' BY <1>1 DEF Output, TypeOK, NoInterrupt, Roles
  <2>4. Roles' BY <1>1 DEF Output, TypeOK, Roles
  <2>5. RunningAt' BY <1>1 DEF Output, TypeOK, RunningAt, Roles, LockAt
  <2>6. ReapAt' BY <1>1 DEF Output, TypeOK, ReapAt, LockAt, RunningAt, Roles
  <2>7. InUseExact' BY <1>1 DEF Output, TypeOK, InUseExact, Span
  <2>8. RoomAt'
      BY <1>1 DEF Output, TypeOK, RoomAt, SpareDescriptors,
          MX6Q_UNUSED_DESCR, MX6Q_MAX_FRAGS, TooFew, desc_avail, LockAt
  <2> QED BY <2>1, <2>2, <2>3, <2>4, <2>5, <2>6, <2>7, <2>8
<1>2. ASSUME NEW t \in Threads, Start(t) PROVE Turns'
  <2>1. TypeOK'
      <3>1. pc' \in [Threads -> PCs]
        BY <1>2 DEF Start, TypeOK, PCs, Roles
      <3>2. /\ running' \in BOOLEAN /\ oactive' \in BOOLEAN
            /\ callout' \in BOOLEAN /\ reaped' \in BOOLEAN /\ nicOn' \in BOOLEAN
        BY <1>2, Zenon DEF Start, TypeOK
      <3>3. has' \in [Threads -> BOOLEAN]
        BY <1>2, Zenon DEF Start, TypeOK
      <3>4. ret' \in [Threads -> {"check", "monitor", "irq", "ring", "idle"}]
        BY <1>2 DEF Start, TypeOK
      <3>5. idx' \in [Threads -> Slots]
        BY <1>2 DEF Start, TypeOK, Slots
      <3>6. /\ snd_ex' \in Threads \cup {None} /\ queue' \in 0..MaxQueue
            /\ tries' \in 0..StopTries /\ nic' \in Slots /\ ievent' \subseteq {"rx", "ts"}
        BY <1>2 DEF Start, TypeOK
      <3>7. /\ pidx' \in Slots /\ cidx' \in Slots /\ inuse' \in Int
            /\ ready' \subseteq Slots /\ bdu' \subseteq Slots /\ pkts' \subseteq Slots
        BY <1>2 DEF Start, TypeOK, ReapAt
      <3> QED BY <3>1, <3>2, <3>3, <3>4, <3>5, <3>6, <3>7 DEF TypeOK
  <2>2. LockAt' BY <1>2 DEF Start, None, TypeOK, LockAt, Roles
  <2>3. NoInterrupt' BY <1>2 DEF Start, TypeOK, NoInterrupt, Roles
  <2>4. Roles' BY <1>2 DEF Start, TypeOK, Roles
  <2>5. RunningAt' BY <1>2 DEF Start, TypeOK, RunningAt, Roles, LockAt
  <2>6. ReapAt' BY <1>2 DEF Start, TypeOK, ReapAt, LockAt, RunningAt, Roles
  <2>7. InUseExact' BY <1>2 DEF Start, TypeOK, InUseExact, Span
  <2>8. RoomAt'
      BY <1>2 DEF Start, TypeOK, RoomAt, SpareDescriptors,
          MX6Q_UNUSED_DESCR, MX6Q_MAX_FRAGS, TooFew, desc_avail, LockAt
  <2> QED BY <2>1, <2>2, <2>3, <2>4, <2>5, <2>6, <2>7, <2>8
<1>3. ASSUME NEW t \in Threads, Loop(t) PROVE Turns'
  <2>1. TypeOK' BY <1>3 DEF Loop, TypeOK, PCs, Roles
  <2>2. LockAt' BY <1>3 DEF Loop, None, TypeOK, LockAt, Roles
  <2>3. NoInterrupt' BY <1>3 DEF Loop, TypeOK, NoInterrupt, Roles
  <2>4. Roles' BY <1>3 DEF Loop, TypeOK, Roles
  <2>5. RunningAt' BY <1>3 DEF Loop, TypeOK, RunningAt, Roles, LockAt
  <2>6. ReapAt' BY <1>3 DEF Loop, TypeOK, ReapAt, LockAt, RunningAt, Roles
  <2>7. InUseExact' BY <1>3 DEF Loop, TypeOK, InUseExact, Span
  <2>8. RoomAt'
      BY <1>3 DEF Loop, TypeOK, RoomAt, SpareDescriptors, MX6Q_UNUSED_DESCR,
          MX6Q_MAX_FRAGS, TooFew, desc_avail, LockAt
  <2> QED BY <2>1, <2>2, <2>3, <2>4, <2>5, <2>6, <2>7, <2>8
<1>4. ASSUME NEW t \in Threads, Check(t) PROVE Turns'
  <2>1. TypeOK'
      <3>1. pc' \in [Threads -> PCs]
        BY <1>4 DEF Check, TypeOK, PCs, Roles
      <3>2. /\ running' \in BOOLEAN /\ oactive' \in BOOLEAN
            /\ callout' \in BOOLEAN /\ reaped' \in BOOLEAN /\ nicOn' \in BOOLEAN
        BY <1>4, Zenon DEF Check, TypeOK
      <3>3. has' \in [Threads -> BOOLEAN]
        BY <1>4, Zenon DEF Check, TypeOK
      <3>4. ret' \in [Threads -> {"check", "monitor", "irq", "ring", "idle"}]
        BY <1>4 DEF Check, TypeOK
      <3>5. idx' \in [Threads -> Slots]
        BY <1>4 DEF Check, TypeOK, Slots
      <3>6. /\ snd_ex' \in Threads \cup {None} /\ queue' \in 0..MaxQueue
            /\ tries' \in 0..StopTries /\ nic' \in Slots /\ ievent' \subseteq {"rx", "ts"}
        BY <1>4 DEF Check, TypeOK
      <3>7. /\ pidx' \in Slots /\ cidx' \in Slots /\ inuse' \in Int
            /\ ready' \subseteq Slots /\ bdu' \subseteq Slots /\ pkts' \subseteq Slots
        BY <1>4 DEF Check, TypeOK, ReapAt
      <3> QED BY <3>1, <3>2, <3>3, <3>4, <3>5, <3>6, <3>7 DEF TypeOK
  <2>2. LockAt' BY <1>4 DEF Check, None, TypeOK, LockAt, Roles
  <2>3. NoInterrupt' BY <1>4 DEF Check, TypeOK, NoInterrupt, Roles
  <2>4. Roles' BY <1>4 DEF Check, TypeOK, Roles
  <2>5. RunningAt' BY <1>4 DEF Check, TypeOK, RunningAt, Roles, LockAt
  <2>6. ReapAt' BY <1>4 DEF Check, TypeOK, ReapAt, LockAt, RunningAt, Roles
  <2>7. InUseExact' BY <1>4 DEF Check, TypeOK, InUseExact, Span
  <2>8. RoomAt'
      BY <1>4 DEF Check, TypeOK, RoomAt, SpareDescriptors,
          MX6Q_UNUSED_DESCR, MX6Q_MAX_FRAGS, TooFew, desc_avail, LockAt
  <2> QED BY <2>1, <2>2, <2>3, <2>4, <2>5, <2>6, <2>7, <2>8
<1>5. ASSUME NEW t \in Threads, Dequeue(t) PROVE Turns'
  <2>1. TypeOK'
      <3>1. pc' \in [Threads -> PCs]
        BY <1>5 DEF Dequeue, TypeOK, PCs, Roles
      <3>2. /\ running' \in BOOLEAN /\ oactive' \in BOOLEAN
            /\ callout' \in BOOLEAN /\ reaped' \in BOOLEAN /\ nicOn' \in BOOLEAN
        BY <1>5, Zenon DEF Dequeue, TypeOK
      <3>3. has' \in [Threads -> BOOLEAN]
        BY <1>5, Zenon DEF Dequeue, TypeOK
      <3>4. ret' \in [Threads -> {"check", "monitor", "irq", "ring", "idle"}]
        BY <1>5 DEF Dequeue, TypeOK
      <3>5. idx' \in [Threads -> Slots]
        BY <1>5 DEF Dequeue, TypeOK, Slots
      <3>6. /\ snd_ex' \in Threads \cup {None} /\ queue' \in 0..MaxQueue
            /\ tries' \in 0..StopTries /\ nic' \in Slots /\ ievent' \subseteq {"rx", "ts"}
        BY <1>5 DEF Dequeue, TypeOK
      <3>7. /\ pidx' \in Slots /\ cidx' \in Slots /\ inuse' \in Int
            /\ ready' \subseteq Slots /\ bdu' \subseteq Slots /\ pkts' \subseteq Slots
        BY <1>5 DEF Dequeue, TypeOK, ReapAt
      <3> QED BY <3>1, <3>2, <3>3, <3>4, <3>5, <3>6, <3>7 DEF TypeOK
  <2>2. LockAt' BY <1>5 DEF Dequeue, None, TypeOK, LockAt, Roles
  <2>3. NoInterrupt' BY <1>5 DEF Dequeue, TypeOK, NoInterrupt, Roles
  <2>4. Roles' BY <1>5 DEF Dequeue, TypeOK, Roles
  <2>5. RunningAt' BY <1>5 DEF Dequeue, TypeOK, RunningAt, Roles, LockAt
  <2>6. ReapAt' BY <1>5 DEF Dequeue, TypeOK, ReapAt, LockAt, RunningAt, Roles
  <2>7. InUseExact' BY <1>5 DEF Dequeue, TypeOK, InUseExact, Span
  <2>8. RoomAt'
      BY <1>5 DEF Dequeue, TypeOK, RoomAt, SpareDescriptors,
          MX6Q_UNUSED_DESCR, MX6Q_MAX_FRAGS, TooFew, desc_avail, LockAt
  <2> QED BY <2>1, <2>2, <2>3, <2>4, <2>5, <2>6, <2>7, <2>8
<1>6. ASSUME NEW t \in Threads, Fill(t) PROVE Turns'
  <2>1. TypeOK'
      <3>1. pc' \in [Threads -> PCs]
        BY <1>6, NextSlot DEF Fill, TypeOK, PCs, Roles
      <3>2. /\ running' \in BOOLEAN /\ oactive' \in BOOLEAN
            /\ callout' \in BOOLEAN /\ reaped' \in BOOLEAN /\ nicOn' \in BOOLEAN
        BY <1>6, NextSlot, Zenon DEF Fill, TypeOK
      <3>3. has' \in [Threads -> BOOLEAN]
        BY <1>6, NextSlot, Zenon DEF Fill, TypeOK
      <3>4. ret' \in [Threads -> {"check", "monitor", "irq", "ring", "idle"}]
        BY <1>6, NextSlot DEF Fill, TypeOK
      <3>5. idx' \in [Threads -> Slots]
        BY <1>6, NextSlot DEF Fill, TypeOK, Slots
      <3>6. /\ snd_ex' \in Threads \cup {None} /\ queue' \in 0..MaxQueue
            /\ tries' \in 0..StopTries /\ nic' \in Slots /\ ievent' \subseteq {"rx", "ts"}
        BY <1>6, NextSlot DEF Fill, TypeOK
      <3>7. /\ pidx' \in Slots /\ cidx' \in Slots /\ inuse' \in Int
            /\ ready' \subseteq Slots /\ bdu' \subseteq Slots /\ pkts' \subseteq Slots
        BY <1>6, NextSlot DEF Fill, TypeOK, ReapAt
      <3> QED BY <3>1, <3>2, <3>3, <3>4, <3>5, <3>6, <3>7 DEF TypeOK
  <2>2. LockAt' BY <1>6 DEF Fill, None, TypeOK, LockAt, Roles
  <2>3. NoInterrupt' BY <1>6 DEF Fill, TypeOK, NoInterrupt, Roles
  <2>4. Roles' BY <1>6 DEF Fill, TypeOK, Roles
  <2>5. RunningAt' BY <1>6 DEF Fill, TypeOK, RunningAt, Roles, LockAt
  <2>6. ReapAt' BY <1>6 DEF Fill, TypeOK, ReapAt, LockAt, RunningAt, Roles
  <2>7. InUseExact' BY <1>6, SpanGrows, Few DEF Fill, TypeOK, InUseExact, RoomAt
  <2>8. RoomAt'
      BY <1>6, Few DEF Fill, TypeOK, RoomAt, SpareDescriptors,
          MX6Q_UNUSED_DESCR, MX6Q_MAX_FRAGS, TooFew, desc_avail, LockAt
  <2> QED BY <2>1, <2>2, <2>3, <2>4, <2>5, <2>6, <2>7, <2>8
<1>7. ASSUME NEW t \in Threads, Enable(t) PROVE Turns'
  <2>1. TypeOK'
      <3>1. pc' \in [Threads -> PCs]
        BY <1>7 DEF Enable, TypeOK, PCs, Roles
      <3>2. /\ running' \in BOOLEAN /\ oactive' \in BOOLEAN
            /\ callout' \in BOOLEAN /\ reaped' \in BOOLEAN /\ nicOn' \in BOOLEAN
        BY <1>7, Zenon DEF Enable, TypeOK
      <3>3. has' \in [Threads -> BOOLEAN]
        BY <1>7, Zenon DEF Enable, TypeOK
      <3>4. ret' \in [Threads -> {"check", "monitor", "irq", "ring", "idle"}]
        BY <1>7 DEF Enable, TypeOK
      <3>5. idx' \in [Threads -> Slots]
        BY <1>7 DEF Enable, TypeOK, Slots
      <3>6. /\ snd_ex' \in Threads \cup {None} /\ queue' \in 0..MaxQueue
            /\ tries' \in 0..StopTries /\ nic' \in Slots /\ ievent' \subseteq {"rx", "ts"}
        BY <1>7 DEF Enable, TypeOK
      <3>7. /\ pidx' \in Slots /\ cidx' \in Slots /\ inuse' \in Int
            /\ ready' \subseteq Slots /\ bdu' \subseteq Slots /\ pkts' \subseteq Slots
        BY <1>7 DEF Enable, TypeOK, ReapAt
      <3> QED BY <3>1, <3>2, <3>3, <3>4, <3>5, <3>6, <3>7 DEF TypeOK
  <2>2. LockAt' BY <1>7 DEF Enable, None, TypeOK, LockAt, Roles
  <2>3. NoInterrupt' BY <1>7 DEF Enable, TypeOK, NoInterrupt, Roles
  <2>4. Roles' BY <1>7 DEF Enable, TypeOK, Roles
  <2>5. RunningAt' BY <1>7 DEF Enable, TypeOK, RunningAt, Roles, LockAt
  <2>6. ReapAt' BY <1>7 DEF Enable, TypeOK, ReapAt, LockAt, RunningAt, Roles
  <2>7. InUseExact' BY <1>7 DEF Enable, TypeOK, InUseExact, Span
  <2>8. RoomAt'
      BY <1>7 DEF Enable, TypeOK, RoomAt, SpareDescriptors,
          MX6Q_UNUSED_DESCR, MX6Q_MAX_FRAGS, TooFew, desc_avail, LockAt
  <2> QED BY <2>1, <2>2, <2>3, <2>4, <2>5, <2>6, <2>7, <2>8
<1>8. ASSUME NEW t \in Threads, Reap(t) PROVE Turns'
  <2>1. TypeOK'
      <3>1. pc' \in [Threads -> PCs]
        BY <1>8 DEF Reap, TypeOK, PCs, Roles
      <3>2. /\ running' \in BOOLEAN /\ oactive' \in BOOLEAN
            /\ callout' \in BOOLEAN /\ reaped' \in BOOLEAN /\ nicOn' \in BOOLEAN
        BY <1>8, Zenon DEF Reap, TypeOK
      <3>3. has' \in [Threads -> BOOLEAN]
        <4>1. has' = has \/ has' = [has EXCEPT ![t] = cidx \in pkts]
          BY <1>8 DEF Reap
        <4>2. has \in [Threads -> BOOLEAN] /\ (cidx \in pkts) \in BOOLEAN
          BY DEF TypeOK
        <4>3. [has EXCEPT ![t] = cidx \in pkts] \in [Threads -> BOOLEAN]
          BY <4>2, Zenon
        <4> QED BY <4>1, <4>2, <4>3, Zenon
      <3>4. ret' \in [Threads -> {"check", "monitor", "irq", "ring", "idle"}]
        BY <1>8 DEF Reap, TypeOK
      <3>5. idx' \in [Threads -> Slots]
        BY <1>8 DEF Reap, TypeOK, Slots
      <3>6. /\ snd_ex' \in Threads \cup {None} /\ queue' \in 0..MaxQueue
            /\ tries' \in 0..StopTries /\ nic' \in Slots /\ ievent' \subseteq {"rx", "ts"}
        BY <1>8 DEF Reap, TypeOK
      <3>7. /\ pidx' \in Slots /\ cidx' \in Slots /\ inuse' \in Int
            /\ ready' \subseteq Slots /\ bdu' \subseteq Slots /\ pkts' \subseteq Slots
        BY <1>8 DEF Reap, TypeOK, ReapAt
      <3> QED BY <3>1, <3>2, <3>3, <3>4, <3>5, <3>6, <3>7 DEF TypeOK
  <2>2. LockAt' BY <1>8 DEF Reap, None, TypeOK, LockAt, Roles
  <2>3. NoInterrupt' BY <1>8 DEF Reap, TypeOK, NoInterrupt, Roles
  <2>4. Roles' BY <1>8 DEF Reap, TypeOK, Roles
  <2>5. RunningAt' BY <1>8 DEF Reap, TypeOK, RunningAt, Roles, LockAt
  <2>6. ReapAt' BY <1>8 DEF Reap, TypeOK, ReapAt, LockAt, RunningAt, Roles
  <2>7. InUseExact' BY <1>8 DEF Reap, TypeOK, InUseExact, Span
  <2>8. RoomAt'
      BY <1>8 DEF Reap, TypeOK, RoomAt, SpareDescriptors, MX6Q_UNUSED_DESCR,
          MX6Q_MAX_FRAGS, TooFew, desc_avail, LockAt
  <2> QED BY <2>1, <2>2, <2>3, <2>4, <2>5, <2>6, <2>7, <2>8
<1>9. ASSUME NEW t \in Threads, Free(t) PROVE Turns'
  <2>1. TypeOK' BY <1>9 DEF Free, TypeOK, PCs, Roles
  <2>2. LockAt' BY <1>9 DEF Free, None, TypeOK, LockAt, Roles
  <2>3. NoInterrupt' BY <1>9 DEF Free, TypeOK, NoInterrupt, Roles
  <2>4. Roles' BY <1>9 DEF Free, TypeOK, Roles
  <2>5. RunningAt' BY <1>9 DEF Free, TypeOK, RunningAt, Roles, LockAt
  <2>6. ReapAt' BY <1>9 DEF Free, TypeOK, ReapAt, LockAt, RunningAt, Roles
  <2>7. InUseExact' BY <1>9 DEF Free, TypeOK, InUseExact, Span
  <2>8. RoomAt'
      BY <1>9 DEF Free, TypeOK, RoomAt, SpareDescriptors, MX6Q_UNUSED_DESCR,
          MX6Q_MAX_FRAGS, TooFew, desc_avail, LockAt
  <2> QED BY <2>1, <2>2, <2>3, <2>4, <2>5, <2>6, <2>7, <2>8
<1>10. ASSUME NEW t \in Threads, FreeNext(t) PROVE Turns'
  <2>1. TypeOK'
      <3>1. pc' \in [Threads -> PCs]
        BY <1>10, NextSlot DEF FreeNext, TypeOK, PCs, Roles
      <3>2. /\ running' \in BOOLEAN /\ oactive' \in BOOLEAN
            /\ callout' \in BOOLEAN /\ reaped' \in BOOLEAN /\ nicOn' \in BOOLEAN
        BY <1>10, NextSlot, Zenon DEF FreeNext, TypeOK
      <3>3. has' \in [Threads -> BOOLEAN]
        BY <1>10, NextSlot, Zenon DEF FreeNext, TypeOK
      <3>4. ret' \in [Threads -> {"check", "monitor", "irq", "ring", "idle"}]
        BY <1>10, NextSlot DEF FreeNext, TypeOK
      <3>5. idx' \in [Threads -> Slots]
        BY <1>10, NextSlot DEF FreeNext, TypeOK, Slots
      <3>6. /\ snd_ex' \in Threads \cup {None} /\ queue' \in 0..MaxQueue
            /\ tries' \in 0..StopTries /\ nic' \in Slots /\ ievent' \subseteq {"rx", "ts"}
        BY <1>10, NextSlot DEF FreeNext, TypeOK
      <3>7. /\ pidx' \in Slots /\ cidx' \in Slots /\ inuse' \in Int
            /\ ready' \subseteq Slots /\ bdu' \subseteq Slots /\ pkts' \subseteq Slots
        BY <1>10, NextSlot DEF FreeNext, TypeOK, ReapAt
      <3> QED BY <3>1, <3>2, <3>3, <3>4, <3>5, <3>6, <3>7 DEF TypeOK
  <2>2. LockAt' BY <1>10 DEF FreeNext, None, TypeOK, LockAt, Roles
  <2>3. NoInterrupt' BY <1>10 DEF FreeNext, TypeOK, NoInterrupt, Roles
  <2>4. Roles' BY <1>10 DEF FreeNext, TypeOK, Roles
  <2>5. RunningAt' BY <1>10 DEF FreeNext, TypeOK, RunningAt, Roles, LockAt
  <2>6. ReapAt' BY <1>10 DEF FreeNext, TypeOK, ReapAt, LockAt, RunningAt, Roles
  <2>7. InUseExact'
      BY <1>10, SpanShrinks DEF FreeNext, TypeOK, InUseExact, ReapAt
  <2>8. RoomAt'
      <3>1. inuse > 0
        BY <1>10, RingAssumption DEF FreeNext, TypeOK, InUseExact, Span,
            ReapAt, Slots
      <3> QED BY <1>10, <3>1 DEF FreeNext, TypeOK, RoomAt, SpareDescriptors,
          MX6Q_UNUSED_DESCR, MX6Q_MAX_FRAGS, TooFew, desc_avail, LockAt
  <2> QED BY <2>1, <2>2, <2>3, <2>4, <2>5, <2>6, <2>7, <2>8
<1>11. ASSUME Kick PROVE Turns'
  <2>1. TypeOK' BY <1>11 DEF Kick, TypeOK, PCs, Roles
  <2>2. LockAt' BY <1>11 DEF Kick, None, TypeOK, LockAt, Roles
  <2>3. NoInterrupt' BY <1>11 DEF Kick, TypeOK, NoInterrupt, Roles
  <2>4. Roles' BY <1>11 DEF Kick, TypeOK, Roles
  <2>5. RunningAt' BY <1>11 DEF Kick, TypeOK, RunningAt, Roles, LockAt
  <2>6. ReapAt' BY <1>11 DEF Kick, TypeOK, ReapAt, LockAt, RunningAt, Roles
  <2>7. InUseExact' BY <1>11 DEF Kick, TypeOK, InUseExact, Span
  <2>8. RoomAt'
      BY <1>11 DEF Kick, TypeOK, RoomAt, SpareDescriptors,
          MX6Q_UNUSED_DESCR, MX6Q_MAX_FRAGS, TooFew, desc_avail, LockAt
  <2> QED BY <2>1, <2>2, <2>3, <2>4, <2>5, <2>6, <2>7, <2>8
<1>12. ASSUME LinkUp PROVE Turns'
  <2>1. TypeOK' BY <1>12 DEF LinkUp, TypeOK, PCs, Roles
  <2>2. LockAt' BY <1>12 DEF LinkUp, None, TypeOK, LockAt, Roles
  <2>3. NoInterrupt' BY <1>12 DEF LinkUp, TypeOK, NoInterrupt, Roles
  <2>4. Roles' BY <1>12 DEF LinkUp, TypeOK, Roles
  <2>5. RunningAt' BY <1>12 DEF LinkUp, TypeOK, RunningAt, Roles, LockAt
  <2>6. ReapAt' BY <1>12 DEF LinkUp, TypeOK, ReapAt, LockAt, RunningAt, Roles
  <2>7. InUseExact' BY <1>12 DEF LinkUp, TypeOK, InUseExact, Span
  <2>8. RoomAt'
      BY <1>12 DEF LinkUp, TypeOK, RoomAt, SpareDescriptors,
          MX6Q_UNUSED_DESCR, MX6Q_MAX_FRAGS, TooFew, desc_avail, LockAt
  <2> QED BY <2>1, <2>2, <2>3, <2>4, <2>5, <2>6, <2>7, <2>8
<1>13. ASSUME Monitor PROVE Turns'
  <2>1. TypeOK' BY <1>13 DEF Monitor, TypeOK, PCs, Roles
  <2>2. LockAt' BY <1>13 DEF Monitor, None, TypeOK, LockAt, Roles
  <2>3. NoInterrupt' BY <1>13 DEF Monitor, TypeOK, NoInterrupt, Roles
  <2>4. Roles' BY <1>13 DEF Monitor, TypeOK, Roles
  <2>5. RunningAt' BY <1>13 DEF Monitor, TypeOK, RunningAt, Roles, LockAt
  <2>6. ReapAt' BY <1>13 DEF Monitor, TypeOK, ReapAt, LockAt, RunningAt, Roles
  <2>7. InUseExact' BY <1>13 DEF Monitor, TypeOK, InUseExact, Span
  <2>8. RoomAt'
      BY <1>13 DEF Monitor, TypeOK, RoomAt, SpareDescriptors,
          MX6Q_UNUSED_DESCR, MX6Q_MAX_FRAGS, TooFew, desc_avail, LockAt
  <2> QED BY <2>1, <2>2, <2>3, <2>4, <2>5, <2>6, <2>7, <2>8
<1>14. ASSUME MonitorEnd PROVE Turns'
  <2>1. TypeOK' BY <1>14 DEF MonitorEnd, TypeOK, PCs, Roles
  <2>2. LockAt' BY <1>14 DEF MonitorEnd, None, TypeOK, LockAt, Roles
  <2>3. NoInterrupt' BY <1>14 DEF MonitorEnd, TypeOK, NoInterrupt, Roles
  <2>4. Roles' BY <1>14 DEF MonitorEnd, TypeOK, Roles
  <2>5. RunningAt' BY <1>14 DEF MonitorEnd, TypeOK, RunningAt, Roles, LockAt
  <2>6. ReapAt'
      BY <1>14 DEF MonitorEnd, TypeOK, ReapAt, LockAt, RunningAt, Roles
  <2>7. InUseExact' BY <1>14 DEF MonitorEnd, TypeOK, InUseExact, Span
  <2>8. RoomAt'
      BY <1>14 DEF MonitorEnd, TypeOK, RoomAt, SpareDescriptors,
          MX6Q_UNUSED_DESCR, MX6Q_MAX_FRAGS, TooFew, desc_avail, LockAt
  <2> QED BY <2>1, <2>2, <2>3, <2>4, <2>5, <2>6, <2>7, <2>8
<1>15. ASSUME Stop PROVE Turns'
  <2>1. TypeOK'
      <3>1. pc' \in [Threads -> PCs]
        BY <1>15 DEF Stop, TypeOK, PCs, Roles
      <3>2. /\ running' \in BOOLEAN /\ oactive' \in BOOLEAN
            /\ callout' \in BOOLEAN /\ reaped' \in BOOLEAN /\ nicOn' \in BOOLEAN
        BY <1>15, Zenon DEF Stop, TypeOK
      <3>3. has' \in [Threads -> BOOLEAN]
        BY <1>15, Zenon DEF Stop, TypeOK
      <3>4. ret' \in [Threads -> {"check", "monitor", "irq", "ring", "idle"}]
        BY <1>15 DEF Stop, TypeOK
      <3>5. idx' \in [Threads -> Slots]
        BY <1>15 DEF Stop, TypeOK, Slots
      <3>6. /\ snd_ex' \in Threads \cup {None} /\ queue' \in 0..MaxQueue
            /\ tries' \in 0..StopTries /\ nic' \in Slots /\ ievent' \subseteq {"rx", "ts"}
        BY <1>15 DEF Stop, TypeOK
      <3>7. /\ pidx' \in Slots /\ cidx' \in Slots /\ inuse' \in Int
            /\ ready' \subseteq Slots /\ bdu' \subseteq Slots /\ pkts' \subseteq Slots
        BY <1>15 DEF Stop, TypeOK, ReapAt
      <3> QED BY <3>1, <3>2, <3>3, <3>4, <3>5, <3>6, <3>7 DEF TypeOK
  <2>2. LockAt' BY <1>15 DEF Stop, None, TypeOK, LockAt, Roles
  <2>3. NoInterrupt' BY <1>15 DEF Stop, TypeOK, NoInterrupt, Roles
  <2>4. Roles' BY <1>15 DEF Stop, TypeOK, Roles
  <2>5. RunningAt' BY <1>15 DEF Stop, TypeOK, RunningAt, Roles, LockAt
  <2>6. ReapAt' BY <1>15 DEF Stop, TypeOK, ReapAt, LockAt, RunningAt, Roles
  <2>7. InUseExact' BY <1>15 DEF Stop, TypeOK, InUseExact, Span
  <2>8. RoomAt'
      BY <1>15 DEF Stop, TypeOK, RoomAt, SpareDescriptors,
          MX6Q_UNUSED_DESCR, MX6Q_MAX_FRAGS, TooFew, desc_avail, LockAt
  <2> QED BY <2>1, <2>2, <2>3, <2>4, <2>5, <2>6, <2>7, <2>8
<1>16. ASSUME StopLock PROVE Turns'
  <2>1. TypeOK' BY <1>16 DEF StopLock, TypeOK, PCs, Roles
  <2>2. LockAt' BY <1>16 DEF StopLock, None, TypeOK, LockAt, Roles
  <2>3. NoInterrupt' BY <1>16 DEF StopLock, TypeOK, NoInterrupt, Roles
  <2>4. Roles' BY <1>16 DEF StopLock, TypeOK, Roles
  <2>5. RunningAt' BY <1>16 DEF StopLock, TypeOK, RunningAt, Roles, LockAt
  <2>6. ReapAt' BY <1>16 DEF StopLock, TypeOK, ReapAt, LockAt, RunningAt, Roles
  <2>7. InUseExact' BY <1>16 DEF StopLock, TypeOK, InUseExact, Span
  <2>8. RoomAt'
      BY <1>16 DEF StopLock, TypeOK, RoomAt, SpareDescriptors,
          MX6Q_UNUSED_DESCR, MX6Q_MAX_FRAGS, TooFew, desc_avail, LockAt
  <2> QED BY <2>1, <2>2, <2>3, <2>4, <2>5, <2>6, <2>7, <2>8
<1>17. ASSUME StopWait PROVE Turns'
  <2>1. TypeOK'
      <3>1. pc' \in [Threads -> PCs]
        BY <1>17 DEF StopWait, TypeOK, PCs, Roles
      <3>2. /\ running' \in BOOLEAN /\ oactive' \in BOOLEAN
            /\ callout' \in BOOLEAN /\ reaped' \in BOOLEAN /\ nicOn' \in BOOLEAN
        BY <1>17, Zenon DEF StopWait, TypeOK
      <3>3. has' \in [Threads -> BOOLEAN]
        BY <1>17, Zenon DEF StopWait, TypeOK
      <3>4. ret' \in [Threads -> {"check", "monitor", "irq", "ring", "idle"}]
        BY <1>17 DEF StopWait, TypeOK
      <3>5. idx' \in [Threads -> Slots]
        BY <1>17 DEF StopWait, TypeOK, Slots
      <3>6. /\ snd_ex' \in Threads \cup {None} /\ queue' \in 0..MaxQueue
            /\ tries' \in 0..StopTries /\ nic' \in Slots /\ ievent' \subseteq {"rx", "ts"}
        BY <1>17 DEF StopWait, TypeOK
      <3>7. /\ pidx' \in Slots /\ cidx' \in Slots /\ inuse' \in Int
            /\ ready' \subseteq Slots /\ bdu' \subseteq Slots /\ pkts' \subseteq Slots
        BY <1>17 DEF StopWait, TypeOK, ReapAt
      <3> QED BY <3>1, <3>2, <3>3, <3>4, <3>5, <3>6, <3>7 DEF TypeOK
  <2>2. LockAt' BY <1>17 DEF StopWait, None, TypeOK, LockAt, Roles
  <2>3. NoInterrupt' BY <1>17 DEF StopWait, TypeOK, NoInterrupt, Roles
  <2>4. Roles' BY <1>17 DEF StopWait, TypeOK, Roles
  <2>5. RunningAt' BY <1>17 DEF StopWait, TypeOK, RunningAt, Roles, LockAt
  <2>6. ReapAt' BY <1>17 DEF StopWait, TypeOK, ReapAt, LockAt, RunningAt, Roles
  <2>7. InUseExact' BY <1>17 DEF StopWait, TypeOK, InUseExact, Span
  <2>8. RoomAt'
      BY <1>17 DEF StopWait, TypeOK, RoomAt, SpareDescriptors,
          MX6Q_UNUSED_DESCR, MX6Q_MAX_FRAGS, TooFew, desc_avail, LockAt
  <2> QED BY <2>1, <2>2, <2>3, <2>4, <2>5, <2>6, <2>7, <2>8
<1>18. ASSUME Quiesce PROVE Turns'
  <2>1. TypeOK' BY <1>18 DEF Quiesce, TypeOK, PCs, Roles
  <2>2. LockAt' BY <1>18 DEF Quiesce, None, TypeOK, LockAt, Roles
  <2>3. NoInterrupt' BY <1>18 DEF Quiesce, TypeOK, NoInterrupt, Roles
  <2>4. Roles' BY <1>18 DEF Quiesce, TypeOK, Roles
  <2>5. RunningAt' BY <1>18 DEF Quiesce, TypeOK, RunningAt, Roles, LockAt
  <2>6. ReapAt' BY <1>18 DEF Quiesce, TypeOK, ReapAt, LockAt, RunningAt, Roles
  <2>7. InUseExact' BY <1>18 DEF Quiesce, TypeOK, InUseExact, Span
  <2>8. RoomAt'
      BY <1>18 DEF Quiesce, TypeOK, RoomAt, SpareDescriptors,
          MX6Q_UNUSED_DESCR, MX6Q_MAX_FRAGS, TooFew, desc_avail, LockAt
  <2> QED BY <2>1, <2>2, <2>3, <2>4, <2>5, <2>6, <2>7, <2>8
<1>19. ASSUME RingInit PROVE Turns'
  <2>1. TypeOK' BY <1>19 DEF RingInit, TypeOK, PCs, Roles, Slots
  <2>2. LockAt' BY <1>19 DEF RingInit, None, TypeOK, LockAt, Roles
  <2>3. NoInterrupt' BY <1>19 DEF RingInit, TypeOK, NoInterrupt, Roles
  <2>4. Roles' BY <1>19 DEF RingInit, TypeOK, Roles
  <2>5. RunningAt' BY <1>19 DEF RingInit, TypeOK, RunningAt, Roles, LockAt
  <2>6. ReapAt' BY <1>19 DEF RingInit, TypeOK, ReapAt, LockAt, RunningAt, Roles
  <2>7. InUseExact' BY <1>19 DEF RingInit, TypeOK, InUseExact, Span
  <2>8. RoomAt'
      BY <1>19 DEF RingInit, TypeOK, RoomAt, SpareDescriptors,
          MX6Q_UNUSED_DESCR, MX6Q_MAX_FRAGS, TooFew, desc_avail, LockAt
  <2> QED BY <2>1, <2>2, <2>3, <2>4, <2>5, <2>6, <2>7, <2>8
<1>20. ASSUME TurnOn PROVE Turns'
  <2>1. TypeOK' BY <1>20 DEF TurnOn, TypeOK, PCs, Roles, Slots
  <2>2. LockAt' BY <1>20 DEF TurnOn, None, TypeOK, LockAt, Roles
  <2>3. NoInterrupt' BY <1>20 DEF TurnOn, TypeOK, NoInterrupt, Roles
  <2>4. Roles' BY <1>20 DEF TurnOn, TypeOK, Roles
  <2>5. RunningAt' BY <1>20 DEF TurnOn, TypeOK, RunningAt, Roles, LockAt
  <2>6. ReapAt' BY <1>20 DEF TurnOn, TypeOK, ReapAt, LockAt, RunningAt, Roles
  <2>7. InUseExact' BY <1>20 DEF TurnOn, TypeOK, InUseExact, Span
  <2>8. RoomAt'
      BY <1>20 DEF TurnOn, TypeOK, RoomAt, SpareDescriptors,
          MX6Q_UNUSED_DESCR, MX6Q_MAX_FRAGS, TooFew, desc_avail, LockAt
  <2> QED BY <2>1, <2>2, <2>3, <2>4, <2>5, <2>6, <2>7, <2>8
<1>21. ASSUME InitLock PROVE Turns'
  <2>1. TypeOK' BY <1>21 DEF InitLock, TypeOK, PCs, Roles
  <2>2. LockAt' BY <1>21 DEF InitLock, None, TypeOK, LockAt, Roles
  <2>3. NoInterrupt' BY <1>21 DEF InitLock, TypeOK, NoInterrupt, Roles
  <2>4. Roles' BY <1>21 DEF InitLock, TypeOK, Roles
  <2>5. RunningAt' BY <1>21 DEF InitLock, TypeOK, RunningAt, Roles, LockAt
  <2>6. ReapAt' BY <1>21 DEF InitLock, TypeOK, ReapAt, LockAt, RunningAt, Roles
  <2>7. InUseExact' BY <1>21 DEF InitLock, TypeOK, InUseExact, Span
  <2>8. RoomAt'
      BY <1>21 DEF InitLock, TypeOK, RoomAt, SpareDescriptors,
          MX6Q_UNUSED_DESCR, MX6Q_MAX_FRAGS, TooFew, desc_avail, LockAt
  <2> QED BY <2>1, <2>2, <2>3, <2>4, <2>5, <2>6, <2>7, <2>8
<1>22. ASSUME InitRun PROVE Turns'
  <2>1. TypeOK' BY <1>22 DEF InitRun, TypeOK, PCs, Roles
  <2>2. LockAt' BY <1>22 DEF InitRun, None, TypeOK, LockAt, Roles
  <2>3. NoInterrupt' BY <1>22 DEF InitRun, TypeOK, NoInterrupt, Roles
  <2>4. Roles' BY <1>22 DEF InitRun, TypeOK, Roles
  <2>5. RunningAt' BY <1>22 DEF InitRun, TypeOK, RunningAt, Roles, LockAt
  <2>6. ReapAt' BY <1>22 DEF InitRun, TypeOK, ReapAt, LockAt, RunningAt, Roles
  <2>7. InUseExact' BY <1>22 DEF InitRun, TypeOK, InUseExact, Span
  <2>8. RoomAt'
      BY <1>22 DEF InitRun, TypeOK, RoomAt, SpareDescriptors,
          MX6Q_UNUSED_DESCR, MX6Q_MAX_FRAGS, TooFew, desc_avail, LockAt
  <2> QED BY <2>1, <2>2, <2>3, <2>4, <2>5, <2>6, <2>7, <2>8
<1>23. ASSUME NicSend PROVE Turns'
  <2>1. TypeOK' BY <1>23, NextSlot DEF NicSend, TypeOK, PCs, Roles, ReapAt
  <2>2. LockAt' BY <1>23 DEF NicSend, None, TypeOK, LockAt, Roles
  <2>3. NoInterrupt' BY <1>23 DEF NicSend, TypeOK, NoInterrupt, Roles
  <2>4. Roles' BY <1>23 DEF NicSend, TypeOK, Roles
  <2>5. RunningAt' BY <1>23 DEF NicSend, TypeOK, RunningAt, Roles, LockAt
  <2>6. ReapAt' BY <1>23 DEF NicSend, TypeOK, ReapAt, LockAt, RunningAt, Roles
  <2>7. InUseExact' BY <1>23 DEF NicSend, TypeOK, InUseExact, Span
  <2>8. RoomAt'
      BY <1>23 DEF NicSend, TypeOK, RoomAt, SpareDescriptors,
          MX6Q_UNUSED_DESCR, MX6Q_MAX_FRAGS, TooFew, desc_avail, LockAt
  <2> QED BY <2>1, <2>2, <2>3, <2>4, <2>5, <2>6, <2>7, <2>8
<1>24. ASSUME NEW t \in Threads, Interrupt(t) PROVE Turns'
  <2>1. TypeOK' BY <1>24 DEF Interrupt, TypeOK, PCs, Roles
  <2>2. LockAt' BY <1>24 DEF Interrupt, None, TypeOK, LockAt, Roles
  <2>3. NoInterrupt' BY <1>24 DEF Interrupt, TypeOK, NoInterrupt, Roles
  <2>4. Roles' BY <1>24 DEF Interrupt, TypeOK, Roles, NoInterrupt
  <2>5. RunningAt' BY <1>24 DEF Interrupt, TypeOK, RunningAt, Roles, LockAt
  <2>6. ReapAt' BY <1>24 DEF Interrupt, TypeOK, ReapAt, LockAt, RunningAt, Roles
  <2>7. InUseExact' BY <1>24 DEF Interrupt, TypeOK, InUseExact, Span
  <2>8. RoomAt'
      BY <1>24 DEF Interrupt, TypeOK, RoomAt, SpareDescriptors,
          MX6Q_UNUSED_DESCR, MX6Q_MAX_FRAGS, TooFew, desc_avail, LockAt
  <2> QED BY <2>1, <2>2, <2>3, <2>4, <2>5, <2>6, <2>7, <2>8
<1>25. ASSUME NEW t \in Threads, ProcessInterrupt(t) PROVE Turns'
  <2>1. TypeOK' BY <1>25 DEF ProcessInterrupt, TypeOK, PCs, Roles
  <2>2. LockAt' BY <1>25 DEF ProcessInterrupt, None, TypeOK, LockAt, Roles
  <2>3. NoInterrupt' BY <1>25 DEF ProcessInterrupt, TypeOK, NoInterrupt, Roles
  <2>4. Roles' BY <1>25 DEF ProcessInterrupt, TypeOK, Roles, NoInterrupt
  <2>5. RunningAt' BY <1>25 DEF ProcessInterrupt, TypeOK, RunningAt, Roles, LockAt
  <2>6. ReapAt' BY <1>25 DEF ProcessInterrupt, TypeOK, ReapAt, LockAt, RunningAt, Roles
  <2>7. InUseExact' BY <1>25 DEF ProcessInterrupt, TypeOK, InUseExact, Span
  <2>8. RoomAt'
      BY <1>25 DEF ProcessInterrupt, TypeOK, RoomAt, SpareDescriptors,
          MX6Q_UNUSED_DESCR, MX6Q_MAX_FRAGS, TooFew, desc_avail, LockAt
  <2> QED BY <2>1, <2>2, <2>3, <2>4, <2>5, <2>6, <2>7, <2>8
<1>26. ASSUME NicReceive PROVE Turns'
  <2>1. TypeOK' BY <1>26 DEF NicReceive, TypeOK, PCs, Roles
  <2>2. LockAt' BY <1>26 DEF NicReceive, None, TypeOK, LockAt, Roles
  <2>3. NoInterrupt' BY <1>26 DEF NicReceive, TypeOK, NoInterrupt, Roles
  <2>4. Roles' BY <1>26 DEF NicReceive, TypeOK, Roles, NoInterrupt
  <2>5. RunningAt' BY <1>26 DEF NicReceive, TypeOK, RunningAt, Roles, LockAt
  <2>6. ReapAt' BY <1>26 DEF NicReceive, TypeOK, ReapAt, LockAt, RunningAt, Roles
  <2>7. InUseExact' BY <1>26 DEF NicReceive, TypeOK, InUseExact, Span
  <2>8. RoomAt'
      BY <1>26 DEF NicReceive, TypeOK, RoomAt, SpareDescriptors,
          MX6Q_UNUSED_DESCR, MX6Q_MAX_FRAGS, TooFew, desc_avail, LockAt
  <2> QED BY <2>1, <2>2, <2>3, <2>4, <2>5, <2>6, <2>7, <2>8
<1>27. CASE UNCHANGED vars
  BY <1>27 DEF vars, TypeOK, LockAt, NoInterrupt, Roles, RunningAt, ReapAt,
     InUseExact, RoomAt, SpareDescriptors, TooFew, desc_avail
<1> QED BY <1>1, <1>2, <1>3, <1>4, <1>5, <1>6, <1>7, <1>8, <1>9, <1>10,
    <1>11, <1>12, <1>13, <1>14, <1>15, <1>16, <1>17, <1>18, <1>19, <1>20, <1>21,
    <1>22, <1>23, <1>24, <1>25, <1>26,
    <1>27 DEF Next, StartStep, ReapStep, StopStep

(* With one initialisation every step also keeps the mbufs of the          *)
(* descriptors in use.                                                     *)
LEMMA NextOccupied ==
  ASSUME SafeThreads, ~CanReinit, Occupied, [Next]_vars PROVE Occupied'
<1>0. Turns /\ Turns'
  BY NextTurns DEF Occupied
<1> USE ThreadsAssumption, RingAssumption, BoundsAssumption
<1> USE DEF SafeThreads, Occupied, Goto, Lock, Unlock, ring, flags, hw, locals, LockedPC,
    StartPC, ReapPC, StopPC
<1>1. ASSUME NEW t \in Threads, Output(t) PROVE Occupied'
  <2>1. BufferAlive'
      BY <1>1, <1>0 DEF Output, BufferAlive, PktsAt, FirstInit, Turns,
          TypeOK, ReapAt
  <2>2. PktsAt'
      BY <1>1, <1>0 DEF Output, PktsAt, BufferAlive, FirstInit, Turns,
          TypeOK, ReapAt, LockAt, RunningAt, Roles
  <2>3. FirstInit'
      BY <1>1, <1>0 DEF Output, FirstInit, Turns, TypeOK, RunningAt, Roles
  <2> QED BY <1>0, <2>1, <2>2, <2>3
<1>2. ASSUME NEW t \in Threads, Start(t) PROVE Occupied'
  <2>1. BufferAlive'
      BY <1>2, <1>0 DEF Start, BufferAlive, PktsAt, FirstInit, Turns,
          TypeOK, ReapAt
  <2>2. PktsAt'
      BY <1>2, <1>0 DEF Start, PktsAt, BufferAlive, FirstInit, Turns,
          TypeOK, ReapAt, LockAt, RunningAt, Roles
  <2>3. FirstInit'
      BY <1>2, <1>0 DEF Start, FirstInit, Turns, TypeOK, RunningAt, Roles
  <2> QED BY <1>0, <2>1, <2>2, <2>3
<1>3. ASSUME NEW t \in Threads, Loop(t) PROVE Occupied'
  <2>1. BufferAlive'
      BY <1>3, <1>0 DEF Loop, BufferAlive, PktsAt, FirstInit, Turns, TypeOK,
          ReapAt
  <2>2. PktsAt'
      BY <1>3, <1>0 DEF Loop, PktsAt, BufferAlive, FirstInit, Turns, TypeOK,
          ReapAt, LockAt, RunningAt, Roles
  <2>3. FirstInit'
      BY <1>3, <1>0 DEF Loop, FirstInit, Turns, TypeOK, RunningAt, Roles
  <2> QED BY <1>0, <2>1, <2>2, <2>3
<1>4. ASSUME NEW t \in Threads, Check(t) PROVE Occupied'
  <2>1. BufferAlive'
      BY <1>4, <1>0 DEF Check, BufferAlive, PktsAt, FirstInit, Turns,
          TypeOK, ReapAt
  <2>2. PktsAt'
      BY <1>4, <1>0 DEF Check, PktsAt, BufferAlive, FirstInit, Turns,
          TypeOK, ReapAt, LockAt, RunningAt, Roles
  <2>3. FirstInit'
      BY <1>4, <1>0 DEF Check, FirstInit, Turns, TypeOK, RunningAt, Roles
  <2> QED BY <1>0, <2>1, <2>2, <2>3
<1>5. ASSUME NEW t \in Threads, Dequeue(t) PROVE Occupied'
  <2>1. BufferAlive'
      BY <1>5, <1>0 DEF Dequeue, BufferAlive, PktsAt, FirstInit, Turns,
          TypeOK, ReapAt
  <2>2. PktsAt'
      BY <1>5, <1>0 DEF Dequeue, PktsAt, BufferAlive, FirstInit, Turns,
          TypeOK, ReapAt, LockAt, RunningAt, Roles
  <2>3. FirstInit'
      BY <1>5, <1>0 DEF Dequeue, FirstInit, Turns, TypeOK, RunningAt, Roles
  <2> QED BY <1>0, <2>1, <2>2, <2>3
<1>6. ASSUME NEW t \in Threads, Fill(t) PROVE Occupied'
  <2>1. BufferAlive'
      BY <1>6, <1>0 DEF Fill, BufferAlive, PktsAt, FirstInit, Turns, TypeOK,
          ReapAt
  <2>2. PktsAt'
      <3>1. Span(cidx, pidx) < N - 1
        BY <1>6, <1>0, Few DEF Fill, Turns, TypeOK, InUseExact, RoomAt
      <3>2. \A x \in pkts' : Between(x, cidx', pidx')
        BY <1>6, <1>0, <3>1, BetweenGrows DEF Fill, PktsAt, Turns, TypeOK
      <3> QED BY <1>6, <1>0, <3>2 DEF Fill, PktsAt, BufferAlive, FirstInit,
          Turns, TypeOK, ReapAt, LockAt, RunningAt, Roles
  <2>3. FirstInit'
      BY <1>6, <1>0 DEF Fill, FirstInit, Turns, TypeOK, RunningAt, Roles
  <2> QED BY <1>0, <2>1, <2>2, <2>3
<1>7. ASSUME NEW t \in Threads, Enable(t) PROVE Occupied'
  <2>1. BufferAlive'
      BY <1>7, <1>0 DEF Enable, BufferAlive, PktsAt, FirstInit, Turns,
          TypeOK, ReapAt
  <2>2. PktsAt'
      BY <1>7, <1>0 DEF Enable, PktsAt, BufferAlive, FirstInit, Turns,
          TypeOK, ReapAt, LockAt, RunningAt, Roles
  <2>3. FirstInit'
      BY <1>7, <1>0 DEF Enable, FirstInit, Turns, TypeOK, RunningAt, Roles
  <2> QED BY <1>0, <2>1, <2>2, <2>3
<1>8. ASSUME NEW t \in Threads, Reap(t) PROVE Occupied'
  <2>1. BufferAlive'
      BY <1>8, <1>0 DEF Reap, BufferAlive, PktsAt, FirstInit, Turns, TypeOK,
          ReapAt
  <2>2. PktsAt'
      <3>1. CASE pc'[t] = "free"
        <4>1. /\ pc' = [pc EXCEPT ![t] = "free"] /\ cidx \notin ready
              /\ has' = [has EXCEPT ![t] = cidx \in pkts] /\ UNCHANGED ring
          BY <1>8, <1>0, <3>1 DEF Reap, Goto, Owned, Turns, TypeOK, Roles
        <4>2. has'[t] \/ cidx \notin pkts
          BY <4>1, <1>0, Zenon DEF Turns, TypeOK
        <4>3. \A u \in Threads \ {t} : pc'[u] = pc[u] /\ pc[u] # "free" /\ idx'[u] = idx[u]
          BY <1>8, <1>0, <4>1 DEF Reap, Turns, TypeOK, LockAt, Roles
        <4> QED BY <1>8, <1>0, <4>1, <4>2, <4>3 DEF PktsAt, ring, Turns, TypeOK
      <3>2. CASE pc'[t] # "free"
        BY <1>8, <1>0, <3>2 DEF Reap, PktsAt, BufferAlive, FirstInit, Turns,
            TypeOK, ReapAt, LockAt, RunningAt, Roles
      <3> QED BY <3>1, <3>2
  <2>3. FirstInit'
      BY <1>8, <1>0 DEF Reap, FirstInit, Turns, TypeOK, RunningAt, Roles
  <2> QED BY <1>0, <2>1, <2>2, <2>3
<1>9. ASSUME NEW t \in Threads, Free(t) PROVE Occupied'
  <2>1. BufferAlive'
      BY <1>9, <1>0 DEF Free, BufferAlive, PktsAt, FirstInit, Turns, TypeOK,
          ReapAt
  <2>2. PktsAt'
      BY <1>9, <1>0 DEF Free, PktsAt, BufferAlive, FirstInit, Turns, TypeOK,
          ReapAt, LockAt, RunningAt, Roles
  <2>3. FirstInit'
      BY <1>9, <1>0 DEF Free, FirstInit, Turns, TypeOK, RunningAt, Roles
  <2> QED BY <1>0, <2>1, <2>2, <2>3
<1>10. ASSUME NEW t \in Threads, FreeNext(t) PROVE Occupied'
  <2>1. BufferAlive'
      BY <1>10, <1>0 DEF FreeNext, BufferAlive, PktsAt, FirstInit, Turns,
          TypeOK, ReapAt
  <2>2. PktsAt'
      <3>1. \A x \in pkts' : Between(x, cidx', pidx')
        BY <1>10, <1>0, BetweenShrinks DEF FreeNext, PktsAt, Turns, TypeOK,
            ReapAt
      <3> QED BY <1>10, <1>0, <3>1 DEF FreeNext, PktsAt, BufferAlive,
          FirstInit, Turns, TypeOK, ReapAt, LockAt, RunningAt, Roles
  <2>3. FirstInit'
      BY <1>10, <1>0 DEF FreeNext, FirstInit, Turns, TypeOK, RunningAt, Roles
  <2> QED BY <1>0, <2>1, <2>2, <2>3
<1>11. ASSUME Kick PROVE Occupied'
  <2>1. BufferAlive'
      BY <1>11, <1>0 DEF Kick, BufferAlive, PktsAt, FirstInit, Turns,
          TypeOK, ReapAt
  <2>2. PktsAt'
      BY <1>11, <1>0 DEF Kick, PktsAt, BufferAlive, FirstInit, Turns,
          TypeOK, ReapAt, LockAt, RunningAt, Roles
  <2>3. FirstInit'
      BY <1>11, <1>0 DEF Kick, FirstInit, Turns, TypeOK, RunningAt, Roles
  <2> QED BY <1>0, <2>1, <2>2, <2>3
<1>12. ASSUME LinkUp PROVE Occupied'
  <2>1. BufferAlive'
      BY <1>12, <1>0 DEF LinkUp, BufferAlive, PktsAt, FirstInit, Turns,
          TypeOK, ReapAt
  <2>2. PktsAt'
      BY <1>12, <1>0 DEF LinkUp, PktsAt, BufferAlive, FirstInit, Turns,
          TypeOK, ReapAt, LockAt, RunningAt, Roles
  <2>3. FirstInit'
      BY <1>12, <1>0 DEF LinkUp, FirstInit, Turns, TypeOK, RunningAt, Roles
  <2> QED BY <1>0, <2>1, <2>2, <2>3
<1>13. ASSUME Monitor PROVE Occupied'
  <2>1. BufferAlive'
      BY <1>13, <1>0 DEF Monitor, BufferAlive, PktsAt, FirstInit, Turns,
          TypeOK, ReapAt
  <2>2. PktsAt'
      BY <1>13, <1>0 DEF Monitor, PktsAt, BufferAlive, FirstInit, Turns,
          TypeOK, ReapAt, LockAt, RunningAt, Roles
  <2>3. FirstInit'
      BY <1>13, <1>0 DEF Monitor, FirstInit, Turns, TypeOK, RunningAt, Roles
  <2> QED BY <1>0, <2>1, <2>2, <2>3
<1>14. ASSUME MonitorEnd PROVE Occupied'
  <2>1. BufferAlive'
      BY <1>14, <1>0 DEF MonitorEnd, BufferAlive, PktsAt, FirstInit, Turns,
          TypeOK, ReapAt
  <2>2. PktsAt'
      BY <1>14, <1>0 DEF MonitorEnd, PktsAt, BufferAlive, FirstInit, Turns,
          TypeOK, ReapAt, LockAt, RunningAt, Roles
  <2>3. FirstInit'
      BY <1>14, <1>0 DEF MonitorEnd, FirstInit, Turns, TypeOK, RunningAt, Roles
  <2> QED BY <1>0, <2>1, <2>2, <2>3
<1>15. ASSUME Stop PROVE Occupied'
  <2>1. BufferAlive'
      BY <1>15, <1>0 DEF Stop, BufferAlive, PktsAt, FirstInit, Turns,
          TypeOK, ReapAt
  <2>2. PktsAt'
      BY <1>15, <1>0 DEF Stop, PktsAt, BufferAlive, FirstInit, Turns,
          TypeOK, ReapAt, LockAt, RunningAt, Roles
  <2>3. FirstInit'
      BY <1>15, <1>0 DEF Stop, FirstInit, Turns, TypeOK, RunningAt, Roles
  <2> QED BY <1>0, <2>1, <2>2, <2>3
<1>16. ASSUME StopLock PROVE Occupied'
  <2>1. BufferAlive'
      BY <1>16, <1>0 DEF StopLock, BufferAlive, PktsAt, FirstInit, Turns,
          TypeOK, ReapAt
  <2>2. PktsAt'
      BY <1>16, <1>0 DEF StopLock, PktsAt, BufferAlive, FirstInit, Turns,
          TypeOK, ReapAt, LockAt, RunningAt, Roles
  <2>3. FirstInit'
      BY <1>16, <1>0 DEF StopLock, FirstInit, Turns, TypeOK, RunningAt, Roles
  <2> QED BY <1>0, <2>1, <2>2, <2>3
<1>17. ASSUME StopWait PROVE Occupied'
  <2>1. BufferAlive'
      BY <1>17, <1>0 DEF StopWait, BufferAlive, PktsAt, FirstInit, Turns,
          TypeOK, ReapAt
  <2>2. PktsAt'
      BY <1>17, <1>0 DEF StopWait, PktsAt, BufferAlive, FirstInit, Turns,
          TypeOK, ReapAt, LockAt, RunningAt, Roles
  <2>3. FirstInit'
      BY <1>17, <1>0 DEF StopWait, FirstInit, Turns, TypeOK, RunningAt, Roles
  <2> QED BY <1>0, <2>1, <2>2, <2>3
<1>18. ASSUME Quiesce PROVE Occupied'
  <2>1. BufferAlive'
      BY <1>18, <1>0 DEF Quiesce, BufferAlive, PktsAt, FirstInit, Turns,
          TypeOK, ReapAt
  <2>2. PktsAt'
      BY <1>18, <1>0 DEF Quiesce, PktsAt, BufferAlive, FirstInit, Turns,
          TypeOK, ReapAt, LockAt, RunningAt, Roles
  <2>3. FirstInit'
      BY <1>18, <1>0 DEF Quiesce, FirstInit, Turns, TypeOK, RunningAt, Roles
  <2> QED BY <1>0, <2>1, <2>2, <2>3
<1>19. ASSUME RingInit PROVE Occupied'
  <2>1. BufferAlive'
      BY <1>19, <1>0 DEF RingInit, BufferAlive, PktsAt, FirstInit, Turns,
          TypeOK, ReapAt
  <2>2. PktsAt'
      BY <1>19, <1>0 DEF RingInit, PktsAt, BufferAlive, FirstInit, Turns,
          TypeOK, ReapAt, LockAt, RunningAt, Roles
  <2>3. FirstInit'
      BY <1>19, <1>0 DEF RingInit, FirstInit, Turns, TypeOK, RunningAt, Roles
  <2> QED BY <1>0, <2>1, <2>2, <2>3
<1>20. ASSUME TurnOn PROVE Occupied'
  <2>1. BufferAlive'
      BY <1>20, <1>0 DEF TurnOn, BufferAlive, PktsAt, FirstInit, Turns,
          TypeOK, ReapAt
  <2>2. PktsAt'
      BY <1>20, <1>0 DEF TurnOn, PktsAt, BufferAlive, FirstInit, Turns,
          TypeOK, ReapAt, LockAt, RunningAt, Roles
  <2>3. FirstInit'
      BY <1>20, <1>0 DEF TurnOn, FirstInit, Turns, TypeOK, RunningAt, Roles
  <2> QED BY <1>0, <2>1, <2>2, <2>3
<1>21. ASSUME InitLock PROVE Occupied'
  <2>1. BufferAlive'
      BY <1>21, <1>0 DEF InitLock, BufferAlive, PktsAt, FirstInit, Turns,
          TypeOK, ReapAt
  <2>2. PktsAt'
      BY <1>21, <1>0 DEF InitLock, PktsAt, BufferAlive, FirstInit, Turns,
          TypeOK, ReapAt, LockAt, RunningAt, Roles
  <2>3. FirstInit'
      BY <1>21, <1>0 DEF InitLock, FirstInit, Turns, TypeOK, RunningAt, Roles
  <2> QED BY <1>0, <2>1, <2>2, <2>3
<1>22. ASSUME InitRun PROVE Occupied'
  <2>1. BufferAlive'
      BY <1>22, <1>0 DEF InitRun, BufferAlive, PktsAt, FirstInit, Turns,
          TypeOK, ReapAt
  <2>2. PktsAt'
      BY <1>22, <1>0 DEF InitRun, PktsAt, BufferAlive, FirstInit, Turns,
          TypeOK, ReapAt, LockAt, RunningAt, Roles
  <2>3. FirstInit'
      BY <1>22, <1>0 DEF InitRun, FirstInit, Turns, TypeOK, RunningAt, Roles
  <2> QED BY <1>0, <2>1, <2>2, <2>3
<1>23. ASSUME NicSend PROVE Occupied'
  <2>1. BufferAlive'
      BY <1>23, <1>0 DEF NicSend, BufferAlive, PktsAt, FirstInit, Turns,
          TypeOK, ReapAt
  <2>2. PktsAt'
      BY <1>23, <1>0 DEF NicSend, PktsAt, BufferAlive, FirstInit, Turns,
          TypeOK, ReapAt, LockAt, RunningAt, Roles
  <2>3. FirstInit'
      BY <1>23, <1>0 DEF NicSend, FirstInit, Turns, TypeOK, RunningAt, Roles
  <2> QED BY <1>0, <2>1, <2>2, <2>3
<1>24. ASSUME NEW t \in Threads, Interrupt(t) PROVE Occupied'
  <2>1. BufferAlive'
      BY <1>24, <1>0 DEF Interrupt, BufferAlive, PktsAt, FirstInit, Turns,
          TypeOK, ReapAt
  <2>2. PktsAt'
      BY <1>24, <1>0 DEF Interrupt, PktsAt, BufferAlive, FirstInit,
          Turns, TypeOK, ReapAt, LockAt, RunningAt, Roles
  <2>3. FirstInit'
      BY <1>24, <1>0 DEF Interrupt, FirstInit, Turns, TypeOK, RunningAt, Roles
  <2> QED BY <1>0, <2>1, <2>2, <2>3
<1>25. ASSUME NEW t \in Threads, ProcessInterrupt(t) PROVE Occupied'
  <2>1. BufferAlive'
      BY <1>25, <1>0 DEF ProcessInterrupt, BufferAlive, PktsAt, FirstInit, Turns,
          TypeOK, ReapAt
  <2>2. PktsAt'
      BY <1>25, <1>0 DEF ProcessInterrupt, PktsAt, BufferAlive, FirstInit,
          Turns, TypeOK, ReapAt, LockAt, RunningAt, Roles
  <2>3. FirstInit'
      BY <1>25, <1>0 DEF ProcessInterrupt, FirstInit, Turns, TypeOK, RunningAt, Roles
  <2> QED BY <1>0, <2>1, <2>2, <2>3
<1>26. ASSUME NicReceive PROVE Occupied'
  <2>1. BufferAlive'
      BY <1>26, <1>0 DEF NicReceive, BufferAlive, PktsAt, FirstInit, Turns,
          TypeOK, ReapAt
  <2>2. PktsAt'
      BY <1>26, <1>0 DEF NicReceive, PktsAt, BufferAlive, FirstInit,
          Turns, TypeOK, ReapAt, LockAt, RunningAt, Roles
  <2>3. FirstInit'
      BY <1>26, <1>0 DEF NicReceive, FirstInit, Turns, TypeOK, RunningAt, Roles
  <2> QED BY <1>0, <2>1, <2>2, <2>3
<1>27. CASE UNCHANGED vars
  BY <1>0, <1>27 DEF vars, BufferAlive, PktsAt, FirstInit
<1> QED BY <1>1, <1>2, <1>3, <1>4, <1>5, <1>6, <1>7, <1>8, <1>9, <1>10,
    <1>11, <1>12, <1>13, <1>14, <1>15, <1>16, <1>17, <1>18, <1>19, <1>20, <1>21,
    <1>22, <1>23, <1>24, <1>25, <1>26,
    <1>27 DEF Next, StartStep, ReapStep, StopStep

(* Without timestamp interrupts, or with the stack thread alone, whatever  *)
(* is stopped and initialised again, tx_descr_inuse is exact, the reserve  *)
(* of descriptors is kept and no mbuf is freed twice.                      *)
THEOREM RingCorrect ==
  ASSUME SafeThreads
  PROVE  Spec => [](TypeOK /\ InUseExact /\ SpareDescriptors /\ FreedOnce)
<1>1. Init => Turns
  BY InitOccupied DEF Occupied
<1>2. Turns /\ [Next]_vars => Turns'
  BY NextTurns
<1>3. Turns => TypeOK /\ InUseExact /\ SpareDescriptors /\ FreedOnce
  <2>1. Turns => FreedOnce
    BY ThreadsAssumption DEF Turns, FreedOnce, LockAt, LockedPC, ReapPC, Roles,
        SafeThreads
  <2> QED BY <2>1 DEF Turns, RoomAt
<1> QED BY <1>1, <1>2, <1>3, PTL DEF Spec

(* Without timestamp interrupts, or with the stack thread alone, and with  *)
(* one initialisation, the NIC never sees a freed mbuf and no mbuf is      *)
(* overwritten in the ring.                                                *)
THEOREM BuffersCorrect ==
  ASSUME SafeThreads, ~CanReinit
  PROVE  Spec => [](BufferAlive /\ FillsFreeSlot)
<1>1. Occupied /\ [Next]_vars => Occupied'
  BY NextOccupied
<1>2. Occupied => BufferAlive /\ FillsFreeSlot
  <2> SUFFICES ASSUME Occupied PROVE FillsFreeSlot
    BY DEF Occupied
  <2>1. ~Between(pidx, cidx, pidx)
    BY RingAssumption DEF Occupied, Turns, TypeOK, Slots, Between
  <2> QED BY <2>1 DEF Occupied, PktsAt, BufferAlive, FillsFreeSlot
<1> QED BY InitOccupied, <1>1, <1>2, PTL DEF Spec
=============================================================================
