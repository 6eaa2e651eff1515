--------------------------- MODULE MmcProofs ------------------------------
(***************************************************************************)
(* Proofs about the SD/MMC driver: about MmcReq for any requests, any      *)
(* number of cards, errors and commands, and about MmcIdent for any kinds  *)
(* of cards and options.                                                   *)
(***************************************************************************)
EXTENDS MmcReq, MmcIdent, TLAPS, SequenceTheorems

(***************************************************************************)
(* Queues of pulses                                                        *)
(***************************************************************************)

(* A pulse is sent.                                                        *)
LEMMA Sent ==
  ASSUME NEW S, NEW q \in Seq(S), NEW e \in S
  PROVE  /\ Append(q, e) \in Seq(S) /\ Len(Append(q, e)) = Len(q) + 1
         /\ \A j \in 1..Len(q) : Append(q, e)[j] = q[j]
         /\ Append(q, e)[Len(q) + 1] = e
         /\ \A x : Has(Append(q, e), x) <=> Has(q, x) \/ x = e
<1>1. /\ Append(q, e) \in Seq(S) /\ Len(Append(q, e)) = Len(q) + 1
      /\ \A j \in 1..Len(q) : Append(q, e)[j] = q[j]
      /\ Append(q, e)[Len(q) + 1] = e
  OBVIOUS
<1>2. Len(q) \in Nat OBVIOUS
<1> DEFINE a == Append(q, e)
<1> HIDE DEF a
<1>3. /\ Len(a) = Len(q) + 1 /\ a[Len(q) + 1] = e
      /\ \A j \in 1..Len(q) : a[j] = q[j]
  BY <1>1 DEF a
<1>4. ASSUME NEW x PROVE Has(a, x) <=> Has(q, x) \/ x = e
  BY <1>2, <1>3 DEF Has
<1> QED BY <1>1, <1>4 DEF a

(* A pulse is received.                                                    *)
LEMMA Received ==
  ASSUME NEW S, NEW q \in Seq(S), q # <<>>
  PROVE  /\ Tail(q) \in Seq(S) /\ Len(Tail(q)) = Len(q) - 1 /\ Len(q) \in Nat \ {0}
         /\ Head(q) = q[1]
         /\ \A j \in 1..(Len(q) - 1) : Tail(q)[j] = q[j + 1]
         /\ \A x : Has(q, x) <=> Head(q) = x \/ Has(Tail(q), x)
<1>1. /\ Tail(q) \in Seq(S) /\ Len(Tail(q)) = Len(q) - 1 /\ Len(q) \in Nat \ {0}
      /\ Head(q) = q[1]
      /\ \A j \in 1..(Len(q) - 1) : Tail(q)[j] = q[j + 1]
  OBVIOUS
<1> DEFINE t == Tail(q)
           h == Head(q)
<1> HIDE DEF t, h
<1>2. /\ Len(t) = Len(q) - 1 /\ Len(q) \in Nat \ {0} /\ h = q[1]
      /\ \A j \in 1..(Len(q) - 1) : t[j] = q[j + 1]
  BY <1>1 DEF t, h
<1>3. ASSUME NEW x PROVE Has(q, x) <=> h = x \/ Has(t, x)
  <2>1. ASSUME Has(q, x) PROVE h = x \/ Has(t, x)
    <3>1. PICK j \in 1..Len(q) : q[j] = x BY <2>1 DEF Has
    <3>2. CASE j = 1 BY <1>2, <3>1, <3>2
    <3>3. CASE j # 1
      <4>1. j - 1 \in 1..(Len(q) - 1) /\ (j - 1) + 1 = j BY <1>2, <3>3
      <4>2. t[j - 1] = x BY <1>2, <3>1, <4>1
      <4> QED BY <1>2, <4>1, <4>2 DEF Has
    <3> QED BY <3>2, <3>3
  <2>2. ASSUME h = x PROVE Has(q, x)
    <3>1. 1 \in 1..Len(q) /\ q[1] = x BY <1>2, <2>2
    <3> QED BY <3>1 DEF Has
  <2>3. ASSUME Has(t, x) PROVE Has(q, x)
    <3>1. PICK j \in 1..Len(t) : t[j] = x BY <2>3 DEF Has
    <3>2. j + 1 \in 1..Len(q) /\ q[j + 1] = x BY <1>2, <3>1
    <3> QED BY <3>2 DEF Has
  <2> QED BY <2>1, <2>2, <2>3
<1> QED BY <1>1, <1>3 DEF t, h

(***************************************************************************)
(* Types                                                                   *)
(***************************************************************************)

(* The initial values have their types; so have the ones after a step, as  *)
(* the stop command is repeated MaxStops times at most.                    *)
LEMMA InitTypes == Init => TypeOK /\ Retries
<1> SUFFICES ASSUME Init PROVE TypeOK /\ Retries OBVIOUS
<1>1. BitsOK BY Zenon DEF Init, BitsOK
<1>2. ValuesOK /\ Retries BY MmcReqAssumption DEF Init, ValuesOK, Retries, Reqs
<1> QED BY <1>1, <1>2 DEF TypeOK

LEMMA NextTypes == ASSUME TypeOK, Retries, [Next]_vars PROVE TypeOK' /\ Retries'
<1> USE MmcReqAssumption
<1>1. BitsOK /\ ValuesOK BY DEF TypeOK
<1>2. ASSUME Timer PROVE TypeOK' /\ Retries'
  <2> USE DEF Timer, Pulse, MediaCheck, CardGone, Powerdown, hw, flags, req, world,
      history
  <2>1. BitsOK' BY <1>1, <1>2, Zenon DEF BitsOK
  <2>2. ValuesOK'
    <3>1. pulses' \in Seq({"INTERRUPT", "TIMER"}) BY <1>1, <1>2, Received DEF ValuesOK
    <3>2. ctl' \in Seq({"INSERTION", "REMOVAL", "READY"})
      <4>1. \/ ctl' = ctl
            \/ \E e \in {"INSERTION", "REMOVAL", "READY"} : ctl' = Append(ctl, e)
        BY <1>2
      <4>2. ctl \in Seq({"INSERTION", "REMOVAL", "READY"}) BY <1>1 DEF ValuesOK
      <4> QED BY <4>1, <4>2, Sent
    <3>3. /\ status' \in [Reqs -> {"new", "INPROG", "CMP", "TIMEOUT", "NOT_RDY"}]
          /\ nexus' \in Reqs \cup {None}
      BY <1>1, <1>2 DEF ValuesOK
    <3>4. done' \in [Reqs -> {"none", "moved", "stopped"}]
      BY <1>1, <1>2 DEF ValuesOK
    <3>5. /\ card' \in 0..MaxCards /\ cards' \in 0..MaxCards /\ errs' \in 0..MaxErrs
          /\ addressed' \in 0..MaxCards /\ cpc' \in {"receive", "issued"}
          /\ boot' \in {"detect", "ident", "issued", "up"}
      BY <1>1, <1>2 DEF ValuesOK
    <3>6. /\ state' \in {"IDLE", "IDENT", "DATA"} /\ ident' \in 0..IdentCmds
          /\ stop' \in {"NONE", "PEND", "ISSUED"} /\ stops_retry' \in 0..(MaxStops + 2)
      BY <1>1, <1>2 DEF ValuesOK
    <3>7. /\ cmd' \in {"none", "ident", "data", "stop"}
          /\ sts' \in {"none", "command", "data", "err", "crc"}
      BY <1>1, <1>2 DEF ValuesOK
    <3> QED BY <3>1, <3>2, <3>3, <3>4, <3>5, <3>6, <3>7 DEF ValuesOK
  <2>3. Retries' BY <1>1, <1>2 DEF Retries, ValuesOK
  <2> QED BY <2>1, <2>2, <2>3 DEF TypeOK
<1>3. ASSUME NEW r \in Reqs, StartCcb(r) PROVE TypeOK' /\ Retries'
  <2> USE DEF StartCcb, ReadWrite, CardGone, Powerdown, Issue, Quiet, Post, flags,
      hw, world, history
  <2>1. BitsOK' BY <1>1, <1>3, Zenon DEF BitsOK
  <2>2. ValuesOK'
    <3>1. pulses' \in Seq({"INTERRUPT", "TIMER"}) BY <1>1, <1>3, Received DEF ValuesOK
    <3>2. ctl' \in Seq({"INSERTION", "REMOVAL", "READY"}) BY <1>1, <1>3 DEF ValuesOK
    <3>3. /\ status' \in [Reqs -> {"new", "INPROG", "CMP", "TIMEOUT", "NOT_RDY"}]
          /\ nexus' \in Reqs \cup {None}
      BY <1>1, <1>3 DEF ValuesOK
    <3>4. done' \in [Reqs -> {"none", "moved", "stopped"}]
      BY <1>1, <1>3 DEF ValuesOK
    <3>5. /\ card' \in 0..MaxCards /\ cards' \in 0..MaxCards /\ errs' \in 0..MaxErrs
          /\ addressed' \in 0..MaxCards /\ cpc' \in {"receive", "issued"}
          /\ boot' \in {"detect", "ident", "issued", "up"}
      BY <1>1, <1>3 DEF ValuesOK
    <3>6. /\ state' \in {"IDLE", "IDENT", "DATA"} /\ ident' \in 0..IdentCmds
          /\ stop' \in {"NONE", "PEND", "ISSUED"} /\ stops_retry' \in 0..(MaxStops + 2)
      BY <1>1, <1>3 DEF ValuesOK
    <3>7. /\ cmd' \in {"none", "ident", "data", "stop"}
          /\ sts' \in {"none", "command", "data", "err", "crc"}
      BY <1>1, <1>3 DEF ValuesOK
    <3> QED BY <3>1, <3>2, <3>3, <3>4, <3>5, <3>6, <3>7 DEF ValuesOK
  <2>3. Retries' BY <1>1, <1>3 DEF Retries, ValuesOK
  <2> QED BY <2>1, <2>2, <2>3 DEF TypeOK
<1>4. ASSUME CtlInsertion PROVE TypeOK' /\ Retries'
  <2> USE DEF CtlInsertion, FirstCommand, Issue, world, hw, req, history
  <2>1. BitsOK' BY <1>1, <1>4, Zenon DEF BitsOK
  <2>2. ValuesOK' BY <1>1, <1>4 DEF ValuesOK
  <2>3. Retries' BY <1>1, <1>4 DEF Retries, ValuesOK
  <2> QED BY <2>1, <2>2, <2>3 DEF TypeOK
<1>5. ASSUME CtlIdent PROVE TypeOK' /\ Retries'
  <2> USE DEF CtlIdent, world, flags, hw, req, history
  <2>1. BitsOK' BY <1>1, <1>5, Zenon DEF BitsOK
  <2>2. ValuesOK' BY <1>1, <1>5 DEF ValuesOK
  <2>3. Retries' BY <1>1, <1>5 DEF Retries, ValuesOK
  <2> QED BY <2>1, <2>2, <2>3 DEF TypeOK
<1>6. ASSUME CtlOther PROVE TypeOK' /\ Retries'
  <2> USE DEF CtlOther, world, flags, hw, req, history
  <2>1. BitsOK' BY <1>1, <1>6, Zenon DEF BitsOK
  <2>2. ValuesOK' BY <1>1, <1>6 DEF ValuesOK
  <2>3. Retries' BY <1>1, <1>6 DEF Retries, ValuesOK
  <2> QED BY <2>1, <2>2, <2>3 DEF TypeOK
<1>7. ASSUME NEW o \in {"ok", "err", "crc"}, Complete(o) PROVE TypeOK' /\ Retries'
  <2> USE DEF Complete, flags, req, history
  <2>1. BitsOK' BY <1>1, <1>7, Zenon DEF BitsOK
  <2>2. ValuesOK' BY <1>1, <1>7 DEF ValuesOK
  <2>3. Retries' BY <1>1, <1>7 DEF Retries, ValuesOK
  <2> QED BY <2>1, <2>2, <2>3 DEF TypeOK
<1>8. ASSUME Tick PROVE TypeOK' /\ Retries'
  <2> USE DEF Tick, world, flags, req, hw, history
  <2>1. BitsOK' BY <1>1, <1>8, Zenon DEF BitsOK
  <2>2. ValuesOK' BY <1>1, <1>8 DEF ValuesOK
  <2>3. Retries' BY <1>1, <1>8 DEF Retries, ValuesOK
  <2> QED BY <2>1, <2>2, <2>3 DEF TypeOK
<1>9. ASSUME Insert PROVE TypeOK' /\ Retries'
  <2> USE DEF Insert, flags, req, hw, history
  <2>1. BitsOK' BY <1>1, <1>9, Zenon DEF BitsOK
  <2>2. ValuesOK' BY <1>1, <1>9 DEF ValuesOK
  <2>3. Retries' BY <1>1, <1>9 DEF Retries, ValuesOK
  <2> QED BY <2>1, <2>2, <2>3 DEF TypeOK
<1>10. ASSUME Remove PROVE TypeOK' /\ Retries'
  <2> USE DEF Remove, flags, req, hw, history
  <2>1. BitsOK' BY <1>1, <1>10, Zenon DEF BitsOK
  <2>2. ValuesOK' BY <1>1, <1>10 DEF ValuesOK
  <2>3. Retries' BY <1>1, <1>10 DEF Retries, ValuesOK
  <2> QED BY <2>1, <2>2, <2>3 DEF TypeOK
<1>11. ASSUME UNCHANGED vars PROVE TypeOK' /\ Retries'
  <2> USE DEF vars, world, flags, req, hw, history
  <2>1. BitsOK' BY <1>1, <1>11, Zenon DEF BitsOK
  <2>2. ValuesOK' BY <1>1, <1>11 DEF ValuesOK
  <2>3. Retries' BY <1>1, <1>11 DEF Retries, ValuesOK
  <2> QED BY <2>1, <2>2, <2>3 DEF TypeOK
<1>12. ASSUME Interrupt PROVE TypeOK' /\ Retries'
  <2> USE DEF Interrupt, Pulse, StartIdent, IdentFailed, IdentNext, EndIdent,
      RunNexus, ReadWrite, DataIrq, StopIrq, NextRetry, AfterStop, RetriesAfterData,
      DataOk, DataError, Issue, Quiet, Post, world, flags, hw, req, history
  <2>1. BitsOK' BY <1>1, <1>12, Zenon DEF BitsOK
  <2>2. ValuesOK'
    <3>1. pulses' \in Seq({"INTERRUPT", "TIMER"}) BY <1>1, <1>12, Received DEF ValuesOK
    <3>2. ctl' \in Seq({"INSERTION", "REMOVAL", "READY"})
      <4>1. \/ ctl' = ctl
            \/ \E e \in {"INSERTION", "REMOVAL", "READY"} : ctl' = Append(ctl, e)
        BY <1>12
      <4>2. ctl \in Seq({"INSERTION", "REMOVAL", "READY"}) BY <1>1 DEF ValuesOK
      <4> QED BY <4>1, <4>2, Sent
    <3>3. /\ status' \in [Reqs -> {"new", "INPROG", "CMP", "TIMEOUT", "NOT_RDY"}]
          /\ nexus' \in Reqs \cup {None}
      BY <1>1, <1>12 DEF ValuesOK
    <3>4. done' \in [Reqs -> {"none", "moved", "stopped"}]
      BY <1>1, <1>12 DEF ValuesOK
    <3>5. /\ card' \in 0..MaxCards /\ cards' \in 0..MaxCards /\ errs' \in 0..MaxErrs
          /\ addressed' \in 0..MaxCards /\ cpc' \in {"receive", "issued"}
          /\ boot' \in {"detect", "ident", "issued", "up"}
      BY <1>1, <1>12 DEF ValuesOK
    <3>6. /\ state' \in {"IDLE", "IDENT", "DATA"} /\ ident' \in 0..IdentCmds
          /\ stop' \in {"NONE", "PEND", "ISSUED"} /\ stops_retry' \in 0..(MaxStops + 2)
      BY <1>1, <1>12 DEF ValuesOK, Retries
    <3>7. /\ cmd' \in {"none", "ident", "data", "stop"}
          /\ sts' \in {"none", "command", "data", "err", "crc"}
      BY <1>1, <1>12 DEF ValuesOK
    <3> QED BY <3>1, <3>2, <3>3, <3>4, <3>5, <3>6, <3>7 DEF ValuesOK
  <2>3. Retries' BY <1>1, <1>12 DEF Retries, ValuesOK
  <2> QED BY <2>1, <2>2, <2>3 DEF TypeOK
<1>13. ASSUME BootDetect PROVE TypeOK' /\ Retries'
  <2> USE DEF BootDetect, world, hw, req, history
  <2>1. BitsOK' BY <1>1, <1>13, Zenon DEF BitsOK
  <2>2. ValuesOK' BY <1>1, <1>13 DEF ValuesOK
  <2>3. Retries' BY <1>1, <1>13 DEF Retries, ValuesOK
  <2> QED BY <2>1, <2>2, <2>3 DEF TypeOK
<1>14. ASSUME BootIdent PROVE TypeOK' /\ Retries'
  <2> USE DEF BootIdent, FirstCommand, Issue, world, flags, hw, req, history
  <2>1. BitsOK' BY <1>1, <1>14, Zenon DEF BitsOK
  <2>2. ValuesOK' BY <1>1, <1>14 DEF ValuesOK
  <2>3. Retries' BY <1>1, <1>14 DEF Retries, ValuesOK
  <2> QED BY <2>1, <2>2, <2>3 DEF TypeOK
<1>15. ASSUME BootState PROVE TypeOK' /\ Retries'
  <2> USE DEF BootState, world, flags, hw, req, history
  <2>1. BitsOK' BY <1>1, <1>15, Zenon DEF BitsOK
  <2>2. ValuesOK' BY <1>1, <1>15 DEF ValuesOK
  <2>3. Retries' BY <1>1, <1>15 DEF Retries, ValuesOK
  <2> QED BY <2>1, <2>2, <2>3 DEF TypeOK
<1> QED
  BY <1>2, <1>3, <1>4, <1>5, <1>6, <1>7, <1>8, <1>9, <1>10, <1>11, <1>12, <1>13,
     <1>14, <1>15 DEF Next, Driver, Control, Boot

(***************************************************************************)
(* The invariant behind ReadyIsInserted                                    *)
(***************************************************************************)

(* At the start no pulse is on its way.                                    *)
LEMMA InitPrompt == Init => PromptInv
<1> SUFFICES ASSUME Init PROVE PromptInv OBVIOUS
<1>1. Settled BY Zenon DEF Init, Settled
<1>2. OneCard BY DEF Init, OneCard, Has
<1> QED BY <1>1, <1>2, InitTypes DEF PromptInv

(* The effect of mmc_process_interrupt on what Settled is about.           *)
LEMMA InterruptEffect ==
  ASSUME BitsOK, Interrupt
  PROVE  /\ ien' => ien
         /\ \/ ctl' = ctl /\ inserted' = inserted /\ (ready' => ready \/ ien)
            \/ ctl' = ctl /\ ien /\ ~inserted
            \/ ctl' = Append(ctl, "READY") /\ ien /\ inserted' = inserted
            \/ /\ ctl' = Append(ctl, "REMOVAL") /\ ien /\ card = 0
               /\ ~ready' /\ ~ien'
<1>1. ien' => ien
  BY DEF BitsOK, Interrupt, StartIdent, IdentFailed, IdentNext, EndIdent, RunNexus,
     ReadWrite, DataIrq, StopIrq, DataOk, DataError, Issue, Quiet
<1>2. \/ ctl' = ctl /\ inserted' = inserted /\ (ready' => ready \/ ien)
      \/ ctl' = ctl /\ ien /\ ~inserted
      \/ ctl' = Append(ctl, "READY") /\ ien /\ inserted' = inserted
      \/ /\ ctl' = Append(ctl, "REMOVAL") /\ ien /\ card = 0
         /\ ~ready' /\ ~ien'
  BY DEF BitsOK, Interrupt, StartIdent, IdentFailed, IdentNext, EndIdent, Quiet, flags
<1> QED BY <1>1, <1>2

(* That a card came too soon is not forgotten.                             *)
LEMMA Unswapped == ASSUME BitsOK, [Next]_vars PROVE swapped => swapped'
<1>1. ASSUME Timer \/ \E r \in Reqs : StartCcb(r) PROVE swapped' = swapped
  BY <1>1 DEF Timer, StartCcb, history
<1>2. ASSUME Interrupt PROVE swapped' = swapped BY <1>2 DEF Interrupt, history
<1>3. ASSUME Control \/ Boot PROVE swapped' = swapped
  BY <1>3 DEF Control, CtlInsertion, CtlIdent, CtlOther, Boot, BootDetect, BootIdent,
     BootState, FirstCommand, history
<1>4. ASSUME Tick \/ Remove \/ UNCHANGED vars \/ (\E o \in {"ok", "err", "crc"} : Complete(o))
      PROVE  swapped' = swapped
  BY <1>4 DEF Tick, Remove, vars, Complete, history
<1>5. ASSUME Insert PROVE swapped => swapped' BY <1>5, Zenon DEF Insert
<1> QED BY <1>1, <1>2, <1>3, <1>4, <1>5 DEF Next, Driver

(* A step keeps the flags in agreement with the pulses for the control     *)
(* thread, when no card is replaced before its removal was handled.        *)
LEMMA NextPrompt == ASSUME PromptInv, [Next]_vars PROVE PromptInv'
<1>0. TypeOK /\ Retries /\ BitsOK /\ ValuesOK BY DEF PromptInv, TypeOK
<1>2. TypeOK' /\ Retries' BY <1>0, NextTypes
<1> SUFFICES ASSUME ~swapped' PROVE Settled' /\ OneCard' BY <1>2 DEF PromptInv
<1>s. ~swapped BY <1>0, Unswapped
<1>1. TypeOK /\ Retries /\ Settled /\ OneCard /\ BitsOK /\ ValuesOK
  BY <1>0, <1>s DEF PromptInv
<1> DEFINE C == {"INSERTION", "REMOVAL", "READY"}
           R == Has(ctl, "REMOVAL")
<1>3. ctl \in Seq(C) BY <1>1 DEF ValuesOK
<1> HIDE DEF C
<1>4. "INSERTION" \in C /\ "REMOVAL" \in C /\ "READY" \in C BY DEF C
<1>5. ASSUME ctl' = ctl PROVE R' <=> R BY <1>5 DEF Has
<1>6. ASSUME NEW e \in C, ctl' = Append(ctl, e) PROVE R' <=> R \/ e = "REMOVAL"
  BY <1>3, <1>6, Sent
<1>7. ASSUME ctl # <<>>, ctl' = Tail(ctl) PROVE R <=> Head(ctl) = "REMOVAL" \/ R'
  BY <1>3, <1>7, Received
<1> HIDE DEF R
<1>8. /\ Settled <=> (ien \/ ready => inserted /\ ~R)
      /\ OneCard <=> (R => card = 0) /\ (boot = "ident" => inserted \/ card = 0)
      /\ Settled' <=> (ien' \/ ready' => inserted' /\ ~R')
      /\ OneCard' <=> (R' => card' = 0) /\ (boot' = "ident" => inserted' \/ card' = 0)
  BY DEF Settled, OneCard, R
<1>9. ASSUME Timer PROVE Settled' /\ OneCard'
  <2>1. /\ boot' = boot /\ card' = card
        /\ \/ /\ ctl' = ctl /\ (ien' => ien) /\ (ready' => ready)
              /\ (inserted => inserted') /\ card # 0
           \/ ctl' = ctl /\ ~inserted /\ (ien' => ien) /\ (ready' => ready) /\ card = 0
           \/ /\ ctl' = Append(ctl, "INSERTION") /\ ~inserted
              /\ (ien' => ien) /\ (ready' => ready) /\ inserted'
           \/ ctl' = Append(ctl, "REMOVAL") /\ ~ien' /\ ~ready' /\ card = 0
    BY <1>9 DEF Timer, MediaCheck, CardGone, Powerdown, hw, world
  <2> QED BY <2>1, <1>1, <1>4, <1>5, <1>6, <1>8
<1>10. ASSUME NEW r \in Reqs, StartCcb(r) PROVE Settled' /\ OneCard'
  <2>1. /\ boot' = boot /\ card' = card
        /\ \/ /\ ctl' = ctl /\ (ien' => ien \/ ready)
              /\ (ready' => ready) /\ (inserted' <=> inserted)
           \/ ctl' = ctl /\ ~inserted /\ ready
           \/ ctl' = Append(ctl, "REMOVAL") /\ ready /\ ~ien' /\ ~ready' /\ card = 0
    BY <1>10 DEF StartCcb, ReadWrite, CardGone, Powerdown, Quiet, hw, flags, world
  <2> QED BY <2>1, <1>1, <1>4, <1>5, <1>6, <1>8
<1>11. ASSUME Interrupt PROVE Settled' /\ OneCard'
  <2>1. boot' = boot /\ card' = card BY <1>11 DEF Interrupt, world
  <2>2. /\ ien' => ien
        /\ \/ ctl' = ctl /\ inserted' = inserted /\ (ready' => ready \/ ien)
           \/ ctl' = ctl /\ ien /\ ~inserted
           \/ ctl' = Append(ctl, "READY") /\ ien /\ inserted' = inserted
           \/ ctl' = Append(ctl, "REMOVAL") /\ ien /\ card = 0 /\ ~ready' /\ ~ien'
    BY <1>1, <1>11, InterruptEffect
  <2> QED BY <2>1, <2>2, <1>1, <1>4, <1>5, <1>6, <1>8
<1>12. ASSUME CtlInsertion PROVE Settled' /\ OneCard'
  <2>1. /\ ctl # <<>> /\ ctl' = Tail(ctl) /\ inserted' /\ card' = card
        /\ card = 0 => ien' = ien /\ ready' = ready
    BY <1>12 DEF CtlInsertion, world, hw, FirstCommand, Issue
  <2> QED BY <2>1, <1>1, <1>7, <1>8
<1>13. ASSUME CtlIdent \/ BootState \/ Tick PROVE Settled' /\ OneCard'
  <2>1. /\ ctl' = ctl /\ UNCHANGED <<ien, inserted, ready, card>>
        /\ boot' = "ident" => boot = "ident"
    BY <1>13 DEF CtlIdent, BootState, Tick, flags, hw, world
  <2> QED BY <2>1, <1>1, <1>5, <1>8
<1>14. ASSUME CtlOther PROVE Settled' /\ OneCard'
  <2>1. /\ ctl # <<>> /\ ctl' = Tail(ctl) /\ UNCHANGED <<ien, card, boot>>
        /\ Head(ctl) = "REMOVAL" \/ UNCHANGED <<inserted, ready>>
        /\ Head(ctl) = "REMOVAL" => ~ready'
    BY <1>14 DEF CtlOther, flags, hw, world
  <2> QED BY <2>1, <1>1, <1>7, <1>8
<1>15. ASSUME BootDetect PROVE Settled' /\ OneCard'
  <2>1. /\ ctl' = ctl /\ UNCHANGED <<ien, ready, card>> /\ (inserted => inserted')
        /\ boot' = "ident" => inserted'
    BY <1>1, <1>15 DEF BootDetect, hw, world, BitsOK
  <2> QED BY <2>1, <1>1, <1>5, <1>8
<1>16. ASSUME BootIdent PROVE Settled' /\ OneCard'
  <2>1. /\ ctl' = ctl /\ UNCHANGED <<inserted, ready, card>> /\ boot = "ident"
        /\ boot' # "ident" /\ (card = 0 => ien' = ien)
    BY <1>16 DEF BootIdent, flags, world, hw
  <2> QED BY <2>1, <1>1, <1>5, <1>8
<1>17. ASSUME NEW o \in {"ok", "err", "crc"}, Complete(o) PROVE Settled' /\ OneCard'
  <2>1. ctl' = ctl /\ UNCHANGED <<ien, inserted, ready, card, boot>>
    BY <1>17 DEF Complete, flags
  <2> QED BY <2>1, <1>1, <1>5, <1>8
<1>18. ASSUME Insert PROVE Settled' /\ OneCard'
  <2>0. Calm BY <1>18, Zenon DEF Insert
  <2>1. /\ ctl' = ctl /\ UNCHANGED <<ien, inserted, ready, boot>>
        /\ ctl = <<>> /\ boot # "ident"
    BY <1>18, <2>0, Zenon DEF Insert, Calm, flags, hw
  <2>2. ~R BY <2>1 DEF R, Has
  <2> QED BY <2>1, <2>2, <1>1, <1>5, <1>8
<1>19. ASSUME Remove \/ UNCHANGED vars PROVE Settled' /\ OneCard'
  <2>1. /\ ctl' = ctl /\ UNCHANGED <<ien, inserted, ready, boot>>
        /\ card' \in {card, 0}
    BY <1>19 DEF Remove, vars, flags, hw, world
  <2> QED BY <2>1, <1>1, <1>5, <1>8
<1>20. Settled' /\ OneCard'
  BY <1>9, <1>10, <1>11, <1>12, <1>13, <1>14, <1>15, <1>16, <1>17, <1>18, <1>19
     DEF Next, Driver, Control, Boot
<1> QED BY <1>20

(***************************************************************************)
(* The invariant of requests                                               *)
(***************************************************************************)

(* At the start no request is in progress.                                 *)
LEMMA InitIInv == Init => IInv
<1> SUFFICES ASSUME Init PROVE IInv OBVIOUS
<1>1. TypeOK /\ Retries BY InitTypes
<1>2. IdleFirst /\ Nexus /\ Moved /\ Transfer
  BY DEF Init, IdleFirst, Beginning, Nexus, Moved, Transfer
<1>3. GoodMeansDone /\ GoodMeansMoved
  BY DEF Init, GoodMeansDone, GoodMeansMoved, Reqs
<1> QED BY <1>1, <1>2, <1>3 DEF IInv

(* A request is answered.                                                  *)
LEMMA Ended ==
  ASSUME ValuesOK, GoodMeansMoved, GoodMeansDone, over => over', NEW r \in Reqs, NEW s,
         status' = [status EXCEPT ![r] = s], done' = done,
         nexus' = None, state' # "DATA",
         cmd' # "data", sts' # "data", sts' # "none" => cmd' = "none",
         s = "CMP" /\ r \in Single \cup Multi => done[r] # "none",
         ~over /\ s = "CMP" /\ r \in Single \cup Multi
            => done[r] = IF r \in Multi THEN "stopped" ELSE "moved"
  PROVE  Nexus' /\ Moved' /\ GoodMeansMoved' /\ GoodMeansDone' /\ Transfer'
<1>1. Nexus' /\ Moved' /\ Transfer' BY DEF Nexus, Moved, Transfer
<1>2. GoodMeansDone' BY DEF GoodMeansDone, ValuesOK, Reqs
<1>3. GoodMeansMoved' BY DEF GoodMeansMoved, ValuesOK, Reqs
<1> QED BY <1>1, <1>2, <1>3

(* A request is begun, or begun again, or waits.                           *)
LEMMA Begun ==
  ASSUME ValuesOK, GoodMeansMoved, GoodMeansDone, over => over', NEW r \in Reqs,
         nexus' = r, status' = [status EXCEPT ![r] = "INPROG"],
         done' \in {done, [done EXCEPT ![r] = "none"]},
         state' = "DATA" => r \in Single \cup Multi
  PROVE  Nexus' /\ GoodMeansMoved' /\ GoodMeansDone'
<1>1. Nexus' BY DEF Nexus, ValuesOK
<1>2. GoodMeansDone' BY DEF GoodMeansDone, ValuesOK, Reqs
<1>3. GoodMeansMoved' BY DEF GoodMeansMoved, ValuesOK, Reqs
<1> QED BY <1>1, <1>2, <1>3

(* mmc_dma_initiate.                                                       *)
LEMMA ReadOrWritten ==
  ASSUME ValuesOK, GoodMeansMoved, GoodMeansDone, over => over', cmd # "data",
         NEW r \in Single \cup Multi, ReadWrite(r)
  PROVE  Nexus' /\ Moved' /\ GoodMeansMoved' /\ GoodMeansDone' /\ Transfer'
<1>1. r \in Reqs /\ r # None BY MmcReqAssumption DEF Reqs
<1>2. CASE Issue("data") /\ state' = "DATA"
           /\ stop' = (IF r \in Multi THEN "PEND" ELSE "NONE")
           /\ done' = [done EXCEPT ![r] = "none"]
           /\ nexus' = r /\ status' = [status EXCEPT ![r] = "INPROG"]
  <2>1. Nexus' /\ GoodMeansMoved' /\ GoodMeansDone' BY <1>1, <1>2, Begun
  <2>2. Transfer' BY <1>2 DEF Transfer, PendingStop, Issue
  <2>3. Moved' BY <1>1, <1>2 DEF Moved, Issue
  <2> QED BY <2>1, <2>2, <2>3
<1>3. CASE Quiet /\ Post(r, "TIMEOUT") /\ state' = "IDLE" /\ UNCHANGED <<stop, done>>
  BY <1>1, <1>3, Ended DEF Post, Quiet
<1> QED BY <1>2, <1>3 DEF ReadWrite

(* mmc_data_irq for the interrupt that the controller's status makes.      *)
LEMMA DataInterrupt ==
  ASSUME ValuesOK, GoodMeansMoved, GoodMeansDone, Nexus, Moved, Transfer, ien,
         over' = over, state = "DATA",
         DataIrq(sts), done' = done, sts \in {"command", "data", "err"}
  PROVE  Nexus' /\ Moved' /\ GoodMeansMoved' /\ GoodMeansDone' /\ Transfer'
<1>1. nexus \in Single \cup Multi /\ nexus \in Reqs /\ nexus # None /\ cmd = "none"
  BY MmcReqAssumption DEF Nexus, Reqs, Moved
<1>2. ASSUME NEW s, Quiet, Post(nexus, s), state' = "IDLE",
             s = "CMP" => done[nexus] # "none",
             ~over /\ s = "CMP"
                => done[nexus] = IF nexus \in Multi THEN "stopped" ELSE "moved"
      PROVE  Nexus' /\ Moved' /\ GoodMeansMoved' /\ GoodMeansDone' /\ Transfer'
  BY <1>1, <1>2, Ended DEF Post, Quiet
<1>3. ASSUME UNCHANGED <<nexus, status, state>>, Transfer', sts' = "none", cmd' # "data",
             stop' = "ISSUED" => check' \/ done[nexus] # "none"
      PROVE  Nexus' /\ Moved' /\ GoodMeansMoved' /\ GoodMeansDone' /\ Transfer'
  BY <1>3 DEF Nexus, Moved, GoodMeansMoved, GoodMeansDone
<1>4. CASE stop = "ISSUED" /\ sts # "data" /\ StopIrq(sts = "command")
  <2>1. check \/ done[nexus] # "none" BY <1>4 DEF Moved
  <2>2. CASE sts = "command" /\ Quiet /\ Post(nexus, AfterStop) /\ state' = "IDLE"
    <3>1. ~over => check \/ (nexus \in Multi /\ done[nexus] = "stopped")
      BY <1>4, <2>2 DEF Transfer, Stopping, PendingStop
    <3>2. ~over /\ AfterStop = "CMP"
            => done[nexus] = IF nexus \in Multi THEN "stopped" ELSE "moved"
      BY <3>1 DEF AfterStop
    <3>3. AfterStop = "CMP" => done[nexus] # "none" BY <2>1 DEF AfterStop
    <3> QED BY <1>2, <2>2, <3>2, <3>3
  <2>3. CASE /\ sts # "command" /\ Issue("stop")
             /\ UNCHANGED <<nexus, status, check, state, stop>>
    <3>1. ~over => Stopping("moved") BY <1>4, <2>3 DEF Transfer, PendingStop
    <3>2. ~over => Stopping("moved")' BY <3>1, <2>3 DEF Stopping
    <3>3. Transfer' BY <3>2, <2>3 DEF Transfer, Issue
    <3> QED BY <1>3, <2>1, <2>3, <3>3 DEF Issue
  <2>4. CASE Quiet /\ Post(nexus, "TIMEOUT") /\ state' = "IDLE"
    BY <1>2, <2>4
  <2> QED BY <1>4, <2>2, <2>3, <2>4 DEF StopIrq
<1>5. CASE stop # "ISSUED" /\ sts = "data" /\ DataOk
  <2>1. ~over => PendingStop /\ done[nexus] = "moved"
    BY <1>5 DEF Transfer, Stopping
  <2>2. done[nexus] # "none" BY <1>5 DEF Moved
  <2>3. CASE /\ stop = "PEND" /\ Issue("stop") /\ stop' = "ISSUED"
             /\ UNCHANGED <<nexus, status, check, state>>
    <3>1. ~over => Stopping("moved")' BY <2>1, <2>3 DEF Stopping, PendingStop
    <3>2. Transfer' BY <3>1, <2>3 DEF Transfer, Issue
    <3> QED BY <1>3, <2>2, <2>3, <3>2 DEF Issue
  <2>4. CASE Quiet /\ Post(nexus, "TIMEOUT") /\ state' = "IDLE"
    BY <1>2, <2>4
  <2>5. CASE stop # "PEND" /\ Quiet /\ Post(nexus, "CMP") /\ state' = "IDLE"
    <3>1. ~over => nexus \notin Multi BY <2>1, <2>5 DEF PendingStop
    <3> QED BY <1>2, <2>1, <2>2, <2>5, <3>1
  <2> QED BY <1>5, <2>3, <2>4, <2>5 DEF DataOk
<1>6. CASE sts = "err" /\ DataError
  <2>1. CASE /\ Issue("stop") /\ stop' = "ISSUED" /\ check' = TRUE
             /\ UNCHANGED <<nexus, status, state>>
    <3>1. Stopping("moved")' BY <2>1 DEF Stopping
    <3>2. Transfer' BY <3>1, <2>1 DEF Transfer, Issue
    <3> QED BY <1>3, <2>1, <3>2 DEF Issue
  <2>2. CASE Quiet /\ Post(nexus, "TIMEOUT") /\ state' = "IDLE"
    BY <1>2, <2>2
  <2> QED BY <1>6, <2>1, <2>2 DEF DataError
<1>7. CASE stop # "ISSUED" /\ Quiet /\ UNCHANGED <<nexus, status, check, state, stop>>
  <2>1. Transfer' BY <1>7 DEF Transfer, Quiet
  <2> QED BY <1>1, <1>3, <1>7, <2>1 DEF Quiet
<1>8. CASE stop = "ISSUED" BY <1>4, <1>8 DEF DataIrq
<1>9. CASE stop # "ISSUED" BY <1>5, <1>6, <1>7, <1>9 DEF DataIrq
<1> QED BY <1>8, <1>9

(* mmc_ident_irq after a failure: a request that waited is answered.       *)
LEMMA IdentificationFailed ==
  ASSUME ValuesOK, GoodMeansMoved, GoodMeansDone, over' = over, cmd # "data", IdentFailed
  PROVE  Nexus' /\ Moved' /\ GoodMeansMoved' /\ GoodMeansDone' /\ Transfer'
<1>1. /\ state' = "IDLE" /\ ~ien' /\ done' = done /\ sts' = "none" /\ cmd' = cmd
  BY DEF IdentFailed, Quiet
<1>2. CASE nexus # None
  <2>1. nexus \in Reqs BY <1>2 DEF ValuesOK
  <2> QED BY <1>1, <1>2, <2>1, Ended DEF IdentFailed, Post
<1>3. CASE nexus = None
  <2>1. UNCHANGED <<nexus, status>> BY <1>3 DEF IdentFailed
  <2> QED BY <1>1, <1>3, <2>1 DEF Nexus, Moved, GoodMeansMoved, GoodMeansDone, Transfer
<1> QED BY <1>2, <1>3

(* mmc_ident_irq at the end: a request that waited is begun or answered.   *)
LEMMA WaitingRun ==
  ASSUME ValuesOK, GoodMeansMoved, GoodMeansDone, over' = over, cmd # "data", RunNexus
  PROVE  Nexus' /\ Moved' /\ GoodMeansMoved' /\ GoodMeansDone' /\ Transfer'
<1>1. CASE nexus \in Single \cup Multi BY <1>1, ReadOrWritten DEF RunNexus
<1>2. CASE nexus = None
  <2>1. /\ state' = "IDLE" /\ ~ien' /\ UNCHANGED <<nexus, status, done, cmd>>
        /\ sts' = "none"
    BY <1>2, MmcReqAssumption DEF RunNexus, Quiet, Reqs
  <2> QED BY <1>2, <2>1 DEF Nexus, Moved, GoodMeansMoved, GoodMeansDone, Transfer
<1>3. CASE nexus # None /\ nexus \notin Single \cup Multi
  <2>1. nexus \in Reqs BY <1>3 DEF ValuesOK
  <2>2. state' = "IDLE" /\ sts' = "none" /\ cmd' = cmd /\ done' = done
    BY <1>3 DEF RunNexus, Quiet
  <2>3. Post(nexus, IF card # 0 THEN "CMP" ELSE "NOT_RDY") BY <1>3 DEF RunNexus
  <2> QED BY <1>3, <2>1, <2>2, <2>3, Ended DEF Post
<1> QED BY <1>1, <1>2, <1>3

(* A step keeps the controller, the card and the request in agreement.     *)
LEMMA NextIInv == ASSUME IInv, [Next]_vars PROVE IInv'
<1>1. /\ TypeOK /\ Retries /\ IdleFirst /\ Nexus /\ Moved /\ Transfer
      /\ GoodMeansMoved /\ GoodMeansDone
  BY DEF IInv
<1>2. TypeOK' /\ Retries' BY <1>1, NextTypes
<1>3. BitsOK /\ ValuesOK BY <1>1 DEF TypeOK
<1> DEFINE J == Nexus /\ Moved /\ GoodMeansMoved /\ GoodMeansDone /\ Transfer
           I == IdleFirst /\ J
<1>4. ASSUME UNCHANGED <<nexus, status, done>>, over => over',
             \/ state' \in {"IDLE", "IDENT"}
             \/ UNCHANGED <<state, stop, check>> /\ (~over' => Transfer'),
             cmd' = "data" => cmd = "data",
             sts' = "none" \/ UNCHANGED <<cmd, sts>>
      PROVE  J'
  <2>1. Nexus' BY <1>1, <1>4 DEF Nexus
  <2>2. Moved' BY <1>1, <1>4 DEF Moved
  <2>3. GoodMeansMoved' /\ GoodMeansDone' BY <1>1, <1>4 DEF GoodMeansMoved, GoodMeansDone
  <2>4. Transfer' BY <1>4 DEF Transfer
  <2> QED BY <2>1, <2>2, <2>3, <2>4
<1>5. ASSUME UNCHANGED <<nexus, status, done, state, stop, check, over>>,
             ~ien' \/ UNCHANGED <<ien, cmd, sts>>, UNCHANGED cmd,
             sts' = "none" \/ UNCHANGED sts
      PROVE  J'
  <2>1. Transfer' BY <1>1, <1>5 DEF Transfer, PendingStop, Stopping
  <2> QED BY <2>1, <1>4, <1>5
<1>6. ASSUME UNCHANGED <<cpc, boot, state, cmd, over>>, ready' => ready,
             sts' = "none" \/ UNCHANGED sts
      PROVE  IdleFirst'
  BY <1>1, <1>3, <1>6 DEF IdleFirst, Beginning, BitsOK
<1>7. ASSUME UNCHANGED <<cpc, boot, over>>, over \/ ~Beginning PROVE IdleFirst'
  BY <1>7 DEF IdleFirst, Beginning
<1>8. ASSUME Timer PROVE I'
  <2>1. UNCHANGED <<cpc, boot, state, nexus, status, check, stop, done, over>>
    BY <1>8 DEF Timer, req, history
  <2>2. /\ ~ien' \/ UNCHANGED <<ien, cmd, sts>>
        /\ UNCHANGED <<cmd, sts>> /\ (ready' => ready)
    BY <1>8 DEF Timer, MediaCheck, CardGone, Powerdown, hw
  <2> QED BY <2>1, <2>2, <1>5, <1>6
<1>9. ASSUME NEW r \in Reqs, StartCcb(r) PROVE I'
  <2>1. nexus = None /\ UNCHANGED <<cpc, boot, over>>
    BY <1>9 DEF StartCcb, history
  <2>2. state # "DATA" BY <2>1, <1>1, MmcReqAssumption DEF Nexus, Reqs
  <2>3. cmd # "data" /\ sts # "data" BY <2>1, <1>1 DEF Moved
  <2>4. CASE /\ state = "IDENT"
             /\ nexus' = r /\ status' = [status EXCEPT ![r] = "INPROG"]
             /\ UNCHANGED <<flags, state, stop, hw, ctl, done>>
    <3>1. Nexus' /\ GoodMeansMoved' /\ GoodMeansDone' BY <2>1, <2>4, <1>1, <1>3, Begun
    <3>2. Transfer' /\ Moved' BY <2>3, <2>4, <1>1 DEF Transfer, Moved, hw
    <3>3. IdleFirst' BY <2>1, <2>4, <1>1, <1>7 DEF IdleFirst
    <3> QED BY <3>1, <3>2, <3>3
  <2>5. CASE state # "IDENT" /\ ready /\ r \notin UnitRdy /\ ReadWrite(r)
    <3>1. r \in Single \cup Multi BY <2>5 DEF Reqs
    <3>2. J' BY <2>1, <2>3, <2>5, <3>1, <1>1, <1>3, ReadOrWritten
    <3>3. IdleFirst' BY <2>1, <2>5, <1>1, <1>7 DEF IdleFirst
    <3> QED BY <3>2, <3>3
  <2>6. CASE /\ state # "IDENT" /\ ~ready /\ Post(r, "NOT_RDY")
             /\ UNCHANGED <<flags, state, stop, hw, ctl, done>>
    <3>1. J' BY <2>1, <2>2, <2>3, <2>6, <1>1, <1>3, Ended DEF Post, hw, Moved
    <3>2. IdleFirst' BY <2>1, <2>6, <1>6 DEF flags, hw
    <3> QED BY <3>1, <3>2
  <2>7. CASE /\ state # "IDENT" /\ ready /\ r \in UnitRdy
             /\ Post(r, IF card # 0 THEN "CMP" ELSE "NOT_RDY")
             /\ IF card # 0 THEN UNCHANGED <<flags, ctl, hw>> ELSE CardGone
             /\ UNCHANGED <<state, stop, done>>
    <3>1. r \notin Single \cup Multi BY <2>7, MmcReqAssumption
    <3>2. UNCHANGED <<cmd, sts>> BY <2>7 DEF CardGone, Powerdown, hw
    <3>3. J' BY <2>1, <2>2, <2>3, <2>7, <3>1, <3>2, <1>1, <1>3, Ended DEF Post, Moved
    <3>4. IdleFirst' BY <2>1, <2>7, <1>1, <1>7 DEF IdleFirst
    <3> QED BY <3>3, <3>4
  <2> QED BY <1>9, <2>4, <2>5, <2>6, <2>7 DEF StartCcb
<1>10. ASSUME Interrupt PROVE I'
  <2>1. UNCHANGED <<cpc, boot, over>> BY <1>10 DEF Interrupt, history
  <2>2. CASE /\ ~ien \/ sts = "none" \/ state = "IDLE"
             /\ Quiet /\ UNCHANGED <<flags, state, req, ctl, done>>
    <3>1. J' BY <2>1, <2>2, <1>5 DEF req, Quiet
    <3>2. IdleFirst' BY <2>1, <2>2, <1>6 DEF flags, Quiet
    <3> QED BY <3>1, <3>2
  <2>3. ASSUME state # "IDLE" \/ sts = "crc" PROVE IdleFirst'
    BY <2>1, <2>3, <1>1, <1>7 DEF IdleFirst
  <2>4. sts # "none" => cmd # "data" BY <1>1 DEF Moved
  <2>5. CASE (state = "IDENT" \/ sts = "crc") /\ sts # "none" /\ IdentFailed
    BY <2>1, <2>3, <2>4, <2>5, <1>1, <1>3, IdentificationFailed
  <2>6. CASE (state = "IDENT" \/ sts = "crc") /\ (StartIdent \/ (state = "IDENT" /\ IdentNext))
    <3>1. state' = "IDENT" /\ UNCHANGED <<nexus, status, done>> /\ cmd' = "ident" /\ sts' = "none"
      BY <2>6 DEF StartIdent, IdentNext, Issue
    <3> QED BY <2>1, <2>3, <2>6, <3>1, <1>4
  <2>7. CASE state = "IDENT" /\ sts # "none" /\ EndIdent
    BY <2>1, <2>3, <2>4, <2>7, <1>1, <1>3, WaitingRun DEF EndIdent
  <2>8. CASE /\ ien /\ sts \in {"command", "data", "err"} /\ state = "DATA"
             /\ DataIrq(sts) /\ done' = done
    BY <2>1, <2>3, <2>8, <1>1, <1>3, DataInterrupt
  <2>9. CASE ien
    <3>1. (IF ien THEN sts ELSE "none") = sts BY <2>9
    <3> QED BY <1>10, <2>2, <2>5, <2>6, <2>7, <2>8, <2>9, <3>1 DEF Interrupt
  <2>10. CASE ~ien
    <3>1. (IF ien THEN sts ELSE "none") = "none" BY <2>10
    <3> QED BY <1>10, <2>2, <2>10, <3>1 DEF Interrupt
  <2> QED BY <2>9, <2>10
<1>11. ASSUME FirstCommand, UNCHANGED <<state, ready, nexus, status, check, stop, done>>,
              \/ cpc' = "issued" /\ boot' = boot
              \/ cpc' = cpc /\ boot' = "issued"
       PROVE  I'
  <2>1. /\ cmd' = "ident" /\ sts' = "none" /\ (over => over')
        /\ ~over' => state = "IDLE" /\ ~ready /\ cpc # "issued" /\ boot # "issued"
    BY <1>3, <1>11 DEF FirstCommand, Issue, BitsOK
  <2>2. IdleFirst' BY <2>1, <1>11 DEF IdleFirst
  <2>3. ~over' => Transfer' BY <2>1, <1>11 DEF Transfer
  <2> QED BY <2>1, <2>2, <2>3, <1>4, <1>11
<1>12. ASSUME CtlInsertion PROVE I'
  <2>1. UNCHANGED <<state, ready, nexus, status, check, stop, done, boot>>
    BY <1>12 DEF CtlInsertion, req
  <2>2. CASE UNCHANGED <<hw, cpc, history>>
    BY <2>1, <2>2, <1>5, <1>6 DEF hw, history
  <2>3. CASE FirstCommand /\ cpc' = "issued" BY <2>1, <2>3, <1>11
  <2> QED BY <1>12, <2>2, <2>3 DEF CtlInsertion
<1>13. ASSUME BootIdent PROVE I'
  <2>1. UNCHANGED <<state, ready, nexus, status, check, stop, done, cpc>>
    BY <1>13 DEF BootIdent, req, flags
  <2>2. CASE boot = "ident" /\ boot' = "up" /\ UNCHANGED <<hw, history>>
    <3>1. IdleFirst' BY <2>1, <2>2, <1>1 DEF IdleFirst, Beginning, hw, history
    <3> QED BY <2>1, <2>2, <3>1, <1>5 DEF hw, history
  <2>3. CASE FirstCommand /\ boot' = "issued" BY <2>1, <2>3, <1>11
  <2> QED BY <1>13, <2>2, <2>3 DEF BootIdent
<1>14. ASSUME CtlIdent \/ BootState PROVE I'
  <2>1. /\ state' = "IDENT"
        /\ UNCHANGED <<ready, nexus, status, done, ien, cmd, sts, stop, check, over>>
        /\ \/ cpc = "issued" /\ cpc' = "receive" /\ boot' = boot
           \/ boot = "issued" /\ boot' = "up" /\ cpc' = cpc
    BY <1>14 DEF CtlIdent, BootState, flags, req, hw, history
  <2>2. IdleFirst' BY <2>1, <1>1 DEF IdleFirst, Beginning
  <2> QED BY <2>1, <2>2, <1>4
<1>15. ASSUME CtlOther PROVE I'
  <2>1. /\ UNCHANGED <<cpc, boot, over, nexus, status, done, ien, cmd, sts, stop, check>>
        /\ (ready' => ready) /\ state' \in {state, "IDLE"}
    BY <1>15 DEF CtlOther, req, hw, history, flags
  <2>2. IdleFirst' BY <2>1, <1>1, <1>3 DEF IdleFirst, Beginning, BitsOK
  <2> QED BY <2>1, <2>2, <1>4, <1>5
<1>16. ASSUME BootDetect PROVE I'
  <2>1. /\ UNCHANGED <<cpc, over, nexus, status, done, ien, cmd, sts, stop, check>>
        /\ UNCHANGED <<ready, state>> /\ boot' # "issued"
    BY <1>16 DEF BootDetect, req, hw, history
  <2>2. IdleFirst' BY <2>1, <1>1 DEF IdleFirst, Beginning
  <2> QED BY <2>1, <2>2, <1>5
<1>17. ASSUME NEW o \in {"ok", "err", "crc"}, Complete(o) PROVE I'
  <2>1. /\ UNCHANGED <<cpc, boot, over, ready, state, nexus, status, ien, stop, check>>
        /\ cmd # "none" /\ cmd' = "none"
        /\ sts' = IF o # "ok" THEN o ELSE IF cmd = "data" THEN "data" ELSE "command"
        /\ o = "crc" => cmd = "data"
    BY <1>17 DEF Complete, flags, req, history
  <2>2. done' = IF o # "ok" \/ nexus = None THEN done
                ELSE CASE cmd = "data" -> [done EXCEPT ![nexus] = "moved"]
                       [] cmd = "stop" /\ done[nexus] = "moved" ->
                            [done EXCEPT ![nexus] = "stopped"]
                       [] OTHER -> done
    BY <1>17 DEF Complete
  <2>3. IdleFirst' BY <2>1, <1>1 DEF IdleFirst, Beginning
  <2>4. Nexus' BY <2>1, <1>1 DEF Nexus
  <2>5. \A q \in Reqs : status[q] = "CMP" => done'[q] = done[q]
    <3>1. \A q \in Reqs : q # nexus => done'[q] = done[q] BY <2>2, <1>3 DEF ValuesOK
    <3>2. nexus # None => status[nexus] = "INPROG" BY <1>1 DEF Nexus
    <3>3. nexus = None => done' = done BY <2>2
    <3> QED BY <3>1, <3>2, <3>3
  <2>6. GoodMeansDone' BY <2>1, <2>5, <1>1 DEF GoodMeansDone, Reqs
  <2>7. GoodMeansMoved' BY <2>1, <2>5, <1>1 DEF GoodMeansMoved, Reqs
  <2>8. nexus # None => nexus \in Reqs BY <1>3 DEF ValuesOK
  <2>9. Moved'
    <3>1. nexus # None /\ done[nexus] # "none" => done'[nexus] # "none"
      BY <2>2, <2>8, <1>3 DEF ValuesOK
    <3>2. cmd = "data" /\ o = "ok" => nexus # None /\ done'[nexus] = "moved"
      BY <2>2, <2>8, <1>1, <1>3 DEF Moved, ValuesOK
    <3>3. state = "DATA" => nexus # None BY <1>1, MmcReqAssumption DEF Nexus, Reqs
    <3> QED BY <2>1, <3>1, <3>2, <3>3, <1>1 DEF Moved
  <2>10. Transfer'
    <3> SUFFICES ASSUME ~over, ien, state = "DATA" PROVE Transfer' BY <2>1 DEF Transfer
    <3>1. nexus \in Reqs /\ nexus # None BY <1>1, MmcReqAssumption DEF Nexus, Reqs
    <3>2. CASE cmd = "data" /\ PendingStop
      <4>1. o = "ok" => done'[nexus] = "moved" BY <2>2, <3>1, <3>2, <1>3 DEF ValuesOK
      <4>2. PendingStop' BY <2>1, <3>2 DEF PendingStop
      <4> QED BY <2>1, <3>2, <4>1, <4>2 DEF Transfer
    <3>3. CASE cmd = "stop" /\ Stopping("moved")
      <4>1. CASE o = "ok"
        <5>1. done[nexus] = "moved" => done'[nexus] = "stopped"
          BY <2>2, <3>1, <3>3, <4>1, <1>3 DEF ValuesOK
        <5>2. Stopping("stopped")' BY <2>1, <3>3, <5>1 DEF Stopping
        <5> QED BY <2>1, <3>3, <4>1, <5>2 DEF Transfer
      <4>2. CASE o = "err"
        <5>1. done' = done BY <2>2, <4>2
        <5>2. Stopping("moved")' BY <2>1, <3>3, <5>1 DEF Stopping
        <5> QED BY <2>1, <4>2, <5>2 DEF Transfer
      <4> QED BY <2>1, <3>3, <4>1, <4>2
    <3> QED BY <2>1, <3>2, <3>3, <1>1 DEF Transfer
  <2> QED BY <2>3, <2>4, <2>6, <2>7, <2>9, <2>10
<1>18. ASSUME Tick \/ Insert \/ Remove \/ UNCHANGED vars PROVE I'
  <2>1. /\ UNCHANGED <<cpc, boot, over, ready, state, nexus, status, done>>
        /\ UNCHANGED <<ien, cmd, sts, stop, check>>
    BY <1>18 DEF Tick, Insert, Remove, vars, flags, hw, req, history
  <2> QED BY <2>1, <1>5, <1>6
<1>19. I'
  BY <1>8, <1>9, <1>10, <1>12, <1>13, <1>14, <1>15, <1>16, <1>17, <1>18
     DEF Next, Driver, Control, Boot
<1> QED BY <1>2, <1>19 DEF IInv

(* Type correctness.                                                       *)
THEOREM TypeCorrect == Spec => []TypeOK
<1>1. Init => TypeOK /\ Retries BY InitTypes
<1>2. TypeOK /\ Retries /\ [Next]_vars => TypeOK' /\ Retries' BY NextTypes
<1> QED BY <1>1, <1>2, PTL DEF Spec

(* As long as no card was replaced before the threads were done with the   *)
(* last one, a card that is ready is one that is inserted, however the     *)
(* removal of the card meets its identification, its transfers and the     *)
(* main, control and driver threads on several CPUs.                       *)
THEOREM ReadyCorrect == Spec => []ReadyIsInserted
<1>1. Init => PromptInv BY InitPrompt
<1>2. PromptInv /\ [Next]_vars => PromptInv' BY NextPrompt
<1>3. PromptInv => ReadyIsInserted BY DEF PromptInv, Settled, ReadyIsInserted
<1> QED BY <1>1, <1>2, <1>3, PTL DEF Spec

(* However the main, control and driver threads interleave and however     *)
(* fast cards are replaced, a read or write that is reported complete was  *)
(* carried out in full by the card, whatever errors, repetitions and       *)
(* identifications came between, as long as no identification was begun    *)
(* over another one or over a request.                                     *)
THEOREM GoodCorrect == Spec => []GoodMeansDone
<1>1. Init => IInv BY InitIInv
<1>2. IInv /\ [Next]_vars => IInv' BY NextIInv
<1>3. IInv => GoodMeansDone BY DEF IInv
<1> QED BY <1>1, <1>2, <1>3, PTL DEF Spec

(* Even when one was, the data of a read or write that is reported         *)
(* complete was moved after the last start of the request.                 *)
THEOREM MovedCorrect == Spec => []GoodMeansMoved
<1>1. Init => IInv BY InitIInv
<1>2. IInv /\ [Next]_vars => IInv' BY NextIInv
<1>3. IInv => GoodMeansMoved BY DEF IInv
<1> QED BY <1>1, <1>2, <1>3, PTL DEF Spec

(***************************************************************************)
(* Identification: MmcIdent, for any kinds of cards, options and bounds    *)
(* that its assumption allows                                              *)
(***************************************************************************)

(* What Send and SendData put on the bus is a command.                     *)
LEMMA CommandSent ==
  ASSUME NEW o \in Ops, NEW a \in Nat, Send(o, a)
  PROVE  sent' \in Cmds
BY DEF Cmds, Send

LEMMA DataCommandSent ==
  ASSUME NEW o \in Ops, NEW a \in Nat, SendData(o, a)
  PROVE  sent' \in Cmds
BY DEF Cmds, SendData

(* The records keep their types when only the command changes.             *)
LEMMA RecordsKept ==
  ASSUME RecordsOK, UNCHANGED <<opt, caphs, slot, resp>>,
         sent' = NoCmd \/ sent' \in Cmds
  PROVE  RecordsOK'
BY DEF RecordsOK

(* What a command that the card answers makes of the card.                 *)
Made(d) ==
  /\ d.kind = slot.kind
  /\ d.rca = CASE sent.op = "GO_IDLE_STATE" -> 0
               [] sent.op = "SET_RELATIVE_ADDR" -> (IF Sd THEN SdRca ELSE sent.arg)
               [] OTHER -> slot.rca
  /\ d.width = CASE sent.op = "GO_IDLE_STATE" -> 1
                 [] sent.op = "SET_BUS_WIDTH" -> 4
                 [] sent.op = "MMC_BUSWIDTH" -> sent.arg
                 [] OTHER -> slot.width
  /\ sent.op \notin {"GO_IDLE_STATE", "SD_SWITCH", "MMC_HS"} => d.hs = slot.hs
  /\ sent.op = "MMC_HS" => d.hs
  /\ sent.op = "SEL_DES_CARD" => d.st = "tran"
  /\ sent.op \notin {"GO_IDLE_STATE", "SD_SEND_OP_COND", "SEND_OP_COND", "ALL_SEND_CID",
                     "SET_RELATIVE_ADDR", "SEL_DES_CARD"} => d.st = slot.st

(* What the card is, if it answers a command of the power-up.              *)
Knows ==
  /\ sent.op = "IF_COND" => slot.kind \in {"sd2", "sdhc"}
  /\ sent.op \in {"APP_CMD", "SD_SEND_OP_COND"} => Sd
  /\ sent.op = "SEND_OP_COND" => Mmc

(* Cards whose address and width are not limited to the driver's values.   *)
AnyCards ==
  [kind : Kinds \cup {"none"}, st : {"off", "idle", "ready", "ident", "stby", "tran"},
   rca : Nat, width : Nat, hs : BOOLEAN, app : BOOLEAN]

(* Any change of a field by a command gives a card again.                  *)
LEMMA AnyCard ==
  ASSUME NEW c \in AnyCards, NEW b \in BOOLEAN, NEW n \in Nat,
         NEW s \in {"off", "idle", "ready", "ident", "stby", "tran"}
  PROVE  /\ [c EXCEPT !.app = b] \in AnyCards /\ [c EXCEPT !.hs = b] \in AnyCards
         /\ [c EXCEPT !.st = s] \in AnyCards /\ [c EXCEPT !.width = n] \in AnyCards
         /\ [c EXCEPT !.app = b, !.width = n] \in AnyCards
         /\ [c EXCEPT !.st = s, !.rca = n] \in AnyCards
<1> USE DEF AnyCards
<1>1. [c EXCEPT !.app = b] \in AnyCards OBVIOUS
<1>2. [c EXCEPT !.hs = b] \in AnyCards OBVIOUS
<1>3. [c EXCEPT !.st = s] \in AnyCards OBVIOUS
<1>4. [c EXCEPT !.width = n] \in AnyCards OBVIOUS
<1>5. [c EXCEPT !.app = b, !.width = n] \in AnyCards OBVIOUS
<1>6. [c EXCEPT !.st = s, !.rca = n] \in AnyCards OBVIOUS
<1> QED BY <1>1, <1>2, <1>3, <1>4, <1>5, <1>6

(* A command that is answered makes of the card what Made says, and it is  *)
(* one the card knows.                                                     *)
LEMMA AnswersMade ==
  ASSUME slot \in Cards, sent \in Cmds, Answers # NoCard
  PROVE  /\ Made(Answers) /\ Knows
         /\ Answers \in AnyCards
<1> USE DEF Answers, SdRca
<1>1. sent.op \in Ops BY DEF Cmds
<1>2. slot \in AnyCards BY DEF Cards, AnyCards
<1>3. sent.arg \in Nat BY DEF Cmds
<1>4. CASE sent.op = "GO_IDLE_STATE"
  <2>1. Made(Answers) /\ Knows BY <1>4 DEF Made, Knows, NoCard
  <2>2. Answers = [NoCard EXCEPT !.kind = slot.kind, !.st = "idle"] BY <1>4
  <2>3. Answers \in AnyCards
    <3>1. slot.kind \in Kinds \cup {"none"} BY DEF Cards
    <3> HIDE DEF Answers
    <3> QED BY <2>2, <3>1 DEF AnyCards, NoCard
  <2> QED BY <2>1, <2>3
<1>5. CASE sent.op = "IF_COND"
  <2>1. Made(Answers) /\ Knows BY <1>5 DEF Made, Knows
  <2>2. Answers = slot BY <1>5
  <2>3. Answers \in AnyCards BY <2>2, <1>2, <1>3, AnyCard
  <2> QED BY <2>1, <2>3
<1>6. CASE sent.op = "APP_CMD"
  <2>1. Made(Answers) /\ Knows BY <1>6 DEF Cards, Made, Knows
  <2>2. Answers = [slot EXCEPT !.app = TRUE] BY <1>6
  <2>3. Answers \in AnyCards BY <2>2, <1>2, <1>3, AnyCard
  <2> QED BY <2>1, <2>3
<1>7. CASE sent.op = "SD_SEND_OP_COND"
  <2>1. Made(Answers) /\ Knows BY <1>7 DEF Cards, Made, Knows
  <2>2. Answers = [slot EXCEPT !.app = FALSE] BY <1>7
  <2>3. Answers \in AnyCards BY <2>2, <1>2, <1>3, AnyCard
  <2> QED BY <2>1, <2>3
<1>8. CASE sent.op = "SEND_OP_COND"
  <2>1. Made(Answers) /\ Knows BY <1>8 DEF Made, Knows
  <2>2. Answers = slot BY <1>8
  <2>3. Answers \in AnyCards BY <2>2, <1>2, <1>3, AnyCard
  <2> QED BY <2>1, <2>3
<1>9. CASE sent.op = "ALL_SEND_CID"
  <2>1. Made(Answers) /\ Knows BY <1>9 DEF Cards, Made, Knows
  <2>2. Answers = [slot EXCEPT !.st = "ident"] BY <1>9
  <2>3. Answers \in AnyCards BY <2>2, <1>2, <1>3, AnyCard
  <2> QED BY <2>1, <2>3
<1>10. CASE sent.op = "SET_RELATIVE_ADDR"
  <2>1. Made(Answers) /\ Knows BY <1>10 DEF Cards, Made, Knows
  <2>2. Answers = [slot EXCEPT !.st = "stby",
                                  !.rca = IF Sd THEN SdRca ELSE sent.arg]
    BY <1>10
  <2>3. Answers \in AnyCards BY <2>2, <1>2, <1>3, AnyCard
  <2> QED BY <2>1, <2>3
<1>11. CASE sent.op = "SEND_CID"
  <2>1. Made(Answers) /\ Knows BY <1>11 DEF Made, Knows
  <2>2. Answers = slot BY <1>11
  <2>3. Answers \in AnyCards BY <2>2, <1>2, <1>3, AnyCard
  <2> QED BY <2>1, <2>3
<1>12. CASE sent.op = "SEND_CSD"
  <2>1. Made(Answers) /\ Knows BY <1>12 DEF Made, Knows
  <2>2. Answers = slot BY <1>12
  <2>3. Answers \in AnyCards BY <2>2, <1>2, <1>3, AnyCard
  <2> QED BY <2>1, <2>3
<1>13. CASE sent.op = "SEL_DES_CARD"
  <2>1. Made(Answers) /\ Knows BY <1>13 DEF Cards, Made, Knows
  <2>2. Answers = [slot EXCEPT !.st = "tran"] BY <1>13
  <2>3. Answers \in AnyCards BY <2>2, <1>2, <1>3, AnyCard
  <2> QED BY <2>1, <2>3
<1>14. CASE sent.op = "SEND_STATUS"
  <2>1. Made(Answers) /\ Knows BY <1>14 DEF Made, Knows
  <2>2. Answers = slot BY <1>14
  <2>3. Answers \in AnyCards BY <2>2, <1>2, <1>3, AnyCard
  <2> QED BY <2>1, <2>3
<1>15. CASE sent.op = "SET_BUS_WIDTH"
  <2>1. Made(Answers) /\ Knows BY <1>15 DEF Cards, Made, Knows
  <2>2. Answers = [slot EXCEPT !.app = FALSE, !.width = 4] BY <1>15
  <2>3. Answers \in AnyCards BY <2>2, <1>2, <1>3, AnyCard
  <2> QED BY <2>1, <2>3
<1>16. CASE sent.op = "SEND_SCR"
  <2>1. Made(Answers) /\ Knows BY <1>16 DEF Cards, Made, Knows
  <2>2. Answers = [slot EXCEPT !.app = FALSE] BY <1>16
  <2>3. Answers \in AnyCards BY <2>2, <1>2, <1>3, AnyCard
  <2> QED BY <2>1, <2>3
<1>17. CASE sent.op = "SD_SWITCH"
  <2>1. Made(Answers) /\ Knows BY <1>17 DEF Made, Knows
  <2>2. Answers = [slot EXCEPT !.hs = (sent.arg = 1)] BY <1>17
  <2>3. Answers \in AnyCards BY <2>2, <1>2, <1>3, AnyCard
  <2> QED BY <2>1, <2>3
<1>18. CASE sent.op = "SEND_EXT_CSD"
  <2>1. Made(Answers) /\ Knows BY <1>18 DEF Made, Knows
  <2>2. Answers = slot BY <1>18
  <2>3. Answers \in AnyCards BY <2>2, <1>2, <1>3, AnyCard
  <2> QED BY <2>1, <2>3
<1>19. CASE sent.op = "MMC_HS"
  <2>1. Made(Answers) /\ Knows BY <1>19 DEF Made, Knows
  <2>2. Answers = [slot EXCEPT !.hs = TRUE] BY <1>19
  <2>3. Answers \in AnyCards BY <2>2, <1>2, <1>3, AnyCard
  <2> QED BY <2>1, <2>3
<1>20. CASE sent.op = "MMC_BUSWIDTH"
  <2>1. Made(Answers) /\ Knows BY <1>20 DEF Cards, Made, Knows
  <2>2. Answers = [slot EXCEPT !.width = sent.arg] BY <1>20
  <2>3. Answers \in AnyCards BY <2>2, <1>2, <1>3, AnyCard
  <2> QED BY <2>1, <2>3
<1>21. CASE sent.op = "SET_BLOCKLEN"
  <2>1. Made(Answers) /\ Knows BY <1>21 DEF Made, Knows
  <2>2. Answers = slot BY <1>21
  <2>3. Answers \in AnyCards BY <2>2, <1>2, <1>3, AnyCard
  <2> QED BY <2>1, <2>3
<1> QED
  BY <1>1, <1>4, <1>5, <1>6, <1>7, <1>8, <1>9, <1>10, <1>11, <1>12, <1>13, <1>14,
     <1>15, <1>16, <1>17, <1>18, <1>19, <1>20, <1>21

(* A command that is not answered is not one for a card of its kind.       *)
LEMMA AnswersNot ==
  ASSUME slot \in Cards, Present, Answers = NoCard
  PROVE  /\ sent.op # "GO_IDLE_STATE"
         /\ sent.op = "IF_COND" => slot.kind \notin {"sd2", "sdhc"}
         /\ sent.op = "APP_CMD" /\ Mine => ~Sd
<1> USE DEF Answers, NoCard, Present, Cards
<1>1. sent.op # "GO_IDLE_STATE" OBVIOUS
<1>2. ASSUME sent.op = "IF_COND" PROVE slot.kind \notin {"sd2", "sdhc"} BY <1>2
<1>3. ASSUME sent.op = "APP_CMD", Mine PROVE ~Sd BY <1>3
<1> QED BY <1>1, <1>2, <1>3

(* A stage that fails keeps the invariant, whichever it is.                *)
LEMMA FailIdent ==
  ASSUME IdInv, NEW i, i # "START", Stage(i), Fail
  PROVE  IdInv'
<1> USE DEF Stage, Fail, ext, host, SameSpeed, SameLines
<1>1. IdValuesOK' BY DEF IdInv, IdTypeOK, IdValuesOK
<1>2. RecordsOK' BY RecordsKept DEF IdInv, IdTypeOK
<1>3. OwnCommand' BY DEF OwnCommand
<1>4. Flags' BY DEF IdInv, Flags
<1>5. Version' BY DEF IdInv, Version, Present, Mmc
<1>6. Address' BY DEF IdInv, Address, Present
<1>7. Lines' BY DEF IdInv, Lines, Present
<1> QED BY <1>1, <1>2, <1>3, <1>4, <1>5, <1>6, <1>7 DEF IdInv, IdTypeOK

(* The inductive step: the stages that go on, the card and the control     *)
(* thread, and the stages that fail.                                       *)
LEMMA NextIdent == ASSUME IdInv, [IdNext]_idVars PROVE IdInv'
<1> USE DEF ext, host, Stages, NoCmd, NoCard, NoResp, SdRca, SameSpeed, SameLines
<1>1. /\ IdValuesOK /\ RecordsOK /\ OwnCommand /\ Flags
      /\ Version /\ Address /\ Lines
      /\ opt.bw \in {0, 1, 4, 8} /\ slot.rca \in {0, 2, SdRca}
  BY MmcAssumption DEF IdInv, IdTypeOK, RecordsOK, Cards
<1>2. slot.kind \in AllKinds \cup {"none"}
  BY MmcAssumption DEF IdInv, IdTypeOK, RecordsOK, Cards
<1>3. rca \in Nat /\ opt.bw \in Nat /\ slot.rca \in Nat BY <1>1 DEF IdValuesOK
<1>4. ASSUME IdentStart PROVE IdInv'
  <2> USE DEF IdentStart, Send, OldFlagsGone
  <2>1. IdValuesOK' BY <1>1, <1>4, MmcAssumption DEF IdValuesOK
  <2>2. RecordsOK'
    <3>1. UNCHANGED <<opt, caphs, slot, resp>> BY <1>4
    <3>2. sent' = NoCmd \/ sent' \in Cmds
      <4> HIDE DEF NoCmd, Send, SendData
      <4> QED BY <1>3, <1>4, CommandSent, DataCommandSent DEF Ops
    <3> QED BY <1>1, <3>1, <3>2, RecordsKept
  <2>3. OwnCommand' BY <1>1, <1>4 DEF OwnCommand, Awaited, Awaits
  <2>4. Flags' BY <1>1, <1>4 DEF Flags
  <2>5. Version'
    BY <1>1, <1>4 DEF Version, Addressing, Selecting, Selected
  <2>6. Address'
    BY <1>2, <1>1, <1>4 DEF Address, Powerup, Selecting, Selected
  <2>7. Lines' BY <1>1, <1>4 DEF Lines, Powerup, Addressing, Selecting
  <2> QED BY <2>1, <2>2, <2>3, <2>4, <2>5, <2>6, <2>7 DEF IdInv, IdTypeOK
<1>5. ASSUME IdentGoIdle, ~Fail PROVE IdInv'
  <2> USE DEF IdentGoIdle, Stage, Ok, Go, Send
  <2>1. IdValuesOK'
    <3>1. eflags' = eflags BY <1>5
    <3>2. eflags' \subseteq {"HS", "HC", "TRIM"} BY <1>1, <3>1 DEF IdValuesOK
    <3> QED BY <1>1, <1>5, <3>2, MmcAssumption DEF IdValuesOK
  <2>2. RecordsOK'
    <3>1. UNCHANGED <<opt, caphs, slot, resp>> BY <1>5
    <3>2. sent' = NoCmd \/ sent' \in Cmds
      <4> HIDE DEF NoCmd, Send, SendData
      <4> QED BY <1>3, <1>5, CommandSent, DataCommandSent DEF Ops
    <3> QED BY <1>1, <3>1, <3>2, RecordsKept
  <2>3. OwnCommand' BY <1>1, <1>5 DEF OwnCommand, Awaited, Awaits
  <2>4. Flags' BY <1>1, <1>5 DEF Flags
  <2>5. Version'
    BY <1>1, <1>5 DEF Version, Powerup, Addressing, Selecting, Selected
  <2>6. Address'
    BY <1>2, <1>1, <1>5 DEF Address, Powerup, Selecting, Selected,
       Present
  <2>7. Lines' BY <1>1, <1>5 DEF Lines, Present
  <2> QED BY <2>1, <2>2, <2>3, <2>4, <2>5, <2>6, <2>7 DEF IdInv, IdTypeOK
<1>6. ASSUME IdentCardVersion, ~Fail PROVE IdInv'
  <2> USE DEF IdentCardVersion, Stage, Ok, Go, Send
  <2>1. IdValuesOK'
    <3>1. eflags' = eflags BY <1>6
    <3>2. eflags' \subseteq {"HS", "HC", "TRIM"} BY <1>1, <3>1 DEF IdValuesOK
    <3> QED BY <1>1, <1>6, <3>2, MmcAssumption DEF IdValuesOK
  <2>2. RecordsOK'
    <3>1. UNCHANGED <<opt, caphs, slot, resp>> BY <1>6
    <3>2. sent' = NoCmd \/ sent' \in Cmds
      <4> HIDE DEF NoCmd, Send, SendData
      <4> QED BY <1>3, <1>6, CommandSent, DataCommandSent DEF Ops
    <3> QED BY <1>1, <3>1, <3>2, RecordsKept
  <2>3. OwnCommand' BY <1>1, <1>6 DEF OwnCommand, Awaited, Awaits
  <2>4. Flags' BY <1>1, <1>6 DEF Flags, Powerup
  <2>5. Version'
    BY <1>1, <1>6 DEF Version, Powerup, Addressing, Selecting,
       Selected, Present
  <2>6. Address'
    BY <1>2, <1>1, <1>6 DEF Address, Powerup, Selecting, Selected,
       Present
  <2>7. Lines' BY <1>1, <1>6 DEF Lines, Powerup, Present
  <2> QED BY <2>1, <2>2, <2>3, <2>4, <2>5, <2>6, <2>7 DEF IdInv, IdTypeOK
<1>7. ASSUME IdentSdPowerup, ~Fail PROVE IdInv'
  <2> USE DEF IdentSdPowerup, Stage, Ok, Go, Send, TooLong,
              NextPoll, PoweredFlags
  <2>1. IdValuesOK'
    <3>1. eflags' \in {eflags, eflags \cup {"HC"}} BY <1>7
    <3>2. eflags' \subseteq {"HS", "HC", "TRIM"} BY <1>1, <3>1 DEF IdValuesOK
    <3> QED BY <1>1, <1>7, <3>2, MmcAssumption DEF IdValuesOK
  <2>2. RecordsOK'
    <3>1. UNCHANGED <<opt, caphs, slot, resp>> BY <1>7
    <3>2. sent' = NoCmd \/ sent' \in Cmds
      <4> HIDE DEF NoCmd, Send, SendData
      <4> QED BY <1>3, <1>7, CommandSent, DataCommandSent DEF Ops
    <3> QED BY <1>1, <3>1, <3>2, RecordsKept
  <2>3. OwnCommand'
    BY <1>1, <1>7 DEF OwnCommand, IdValuesOK, Awaited, Awaits
  <2>4. Flags' BY <1>1, <1>7 DEF Flags, Powerup
  <2>5. Version'
    BY <1>1, <1>7 DEF Version, IdValuesOK, RecordsOK, Flags, Powerup,
       Addressing, Selecting, Selected, Present, Sd, Mmc
  <2>6. Address'
    BY <1>2, <1>1, <1>7 DEF Address, Powerup, Addressing, Selecting,
       Selected, Present
  <2>7. Lines' BY <1>1, <1>7 DEF Lines, Powerup, Present
  <2> QED BY <2>1, <2>2, <2>3, <2>4, <2>5, <2>6, <2>7 DEF IdInv, IdTypeOK
<1>8. ASSUME IdentMmcPowerup, ~Fail PROVE IdInv'
  <2> USE DEF IdentMmcPowerup, Stage, Ok, Go, Send, TooLong,
              NextPoll, PoweredFlags
  <2>1. IdValuesOK'
    <3>1. eflags' \in {eflags, eflags \cup {"HC"}} BY <1>8
    <3>2. eflags' \subseteq {"HS", "HC", "TRIM"} BY <1>1, <3>1 DEF IdValuesOK
    <3> QED BY <1>1, <1>8, <3>2, MmcAssumption DEF IdValuesOK
  <2>2. RecordsOK'
    <3>1. UNCHANGED <<opt, caphs, slot, resp>> BY <1>8
    <3>2. sent' = NoCmd \/ sent' \in Cmds
      <4> HIDE DEF NoCmd, Send, SendData
      <4> QED BY <1>3, <1>8, CommandSent, DataCommandSent DEF Ops
    <3> QED BY <1>1, <3>1, <3>2, RecordsKept
  <2>3. OwnCommand' BY <1>1, <1>8 DEF OwnCommand, Awaited, Awaits
  <2>4. Flags' BY <1>1, <1>8 DEF Flags, Powerup
  <2>5. Version'
    BY <1>1, <1>8 DEF Version, RecordsOK, Flags, Selected, Present,
       Mmc
  <2>6. Address'
    BY <1>2, <1>1, <1>8 DEF Address, Powerup, Addressing, Selecting,
       Selected, Present
  <2>7. Lines' BY <1>1, <1>8 DEF Lines, Powerup, Present
  <2> QED BY <2>1, <2>2, <2>3, <2>4, <2>5, <2>6, <2>7 DEF IdInv, IdTypeOK
<1>9. ASSUME IdentAllSendCid, ~Fail PROVE IdInv'
  <2> USE DEF IdentAllSendCid, Stage, Ok, Go, Send
  <2>1. IdValuesOK'
    <3>1. eflags' = eflags BY <1>9
    <3>2. eflags' \subseteq {"HS", "HC", "TRIM"} BY <1>1, <3>1 DEF IdValuesOK
    <3> QED BY <1>1, <1>9, <3>2, MmcAssumption DEF IdValuesOK
  <2>2. RecordsOK'
    <3>1. UNCHANGED <<opt, caphs, slot, resp>> BY <1>9
    <3>2. sent' = NoCmd \/ sent' \in Cmds
      <4> HIDE DEF NoCmd, Send, SendData
      <4> QED BY <1>3, <1>9, CommandSent, DataCommandSent DEF Ops
    <3> QED BY <1>1, <3>1, <3>2, RecordsKept
  <2>3. OwnCommand' BY <1>1, <1>9 DEF OwnCommand, Awaited, Awaits
  <2>4. Flags' BY <1>1, <1>9 DEF Flags, Powerup
  <2>5. Version' BY <1>1, <1>9 DEF Version, Addressing, Present
  <2>6. Address'
    BY <1>2, <1>1, <1>9 DEF Address, Powerup, Addressing, Selecting,
       Selected
  <2>7. Lines' BY <1>1, <1>9 DEF Lines, Addressing, Present
  <2> QED BY <2>1, <2>2, <2>3, <2>4, <2>5, <2>6, <2>7 DEF IdInv, IdTypeOK
<1>10. ASSUME IdentSetAddress, ~Fail PROVE IdInv'
  <2> USE DEF IdentSetAddress, Stage, Ok, Go, Send, NewRca
  <2>1. IdValuesOK'
    <3>1. eflags' = eflags BY <1>10
    <3>2. eflags' \subseteq {"HS", "HC", "TRIM"} BY <1>1, <3>1 DEF IdValuesOK
    <3> QED BY <1>1, <1>10, <3>2, MmcAssumption DEF IdValuesOK
  <2>2. RecordsOK'
    <3>1. UNCHANGED <<opt, caphs, slot, resp>> BY <1>10
    <3>2. sent' = NoCmd \/ sent' \in Cmds
      <4> HIDE DEF NoCmd, Send, SendData
      <4> QED BY <1>3, <1>10, CommandSent, DataCommandSent DEF Ops
    <3> QED BY <1>1, <3>1, <3>2, RecordsKept
  <2>3. OwnCommand' BY <1>1, <1>10 DEF OwnCommand, Awaited, Awaits
  <2>4. Flags' BY <1>1, <1>10 DEF Flags, Powerup
  <2>5. Version' BY <1>1, <1>10 DEF Version, Addressing, Present
  <2>6. Address'
    BY <1>2, <1>1, <1>10 DEF Address, Version, Powerup, Selecting,
       Selected, Present, Mmc, AllKinds
  <2>7. Lines' BY <1>1, <1>10 DEF Lines, Addressing, Present
  <2> QED BY <2>1, <2>2, <2>3, <2>4, <2>5, <2>6, <2>7 DEF IdInv, IdTypeOK
<1>11. ASSUME IdentSendCid, ~Fail PROVE IdInv'
  <2> USE DEF IdentSendCid, Follow, Stage, Ok, Go, Send
  <2>1. IdValuesOK'
    <3>1. eflags' = eflags BY <1>11
    <3>2. eflags' \subseteq {"HS", "HC", "TRIM"} BY <1>1, <3>1 DEF IdValuesOK
    <3> QED BY <1>1, <1>11, <3>2, MmcAssumption DEF IdValuesOK
  <2>2. RecordsOK'
    <3>1. UNCHANGED <<opt, caphs, slot, resp>> BY <1>11
    <3>2. sent' = NoCmd \/ sent' \in Cmds
      <4> HIDE DEF NoCmd, Send, SendData
      <4> QED BY <1>3, <1>11, CommandSent, DataCommandSent DEF Ops
    <3> QED BY <1>1, <3>1, <3>2, RecordsKept
  <2>3. OwnCommand' BY <1>1, <1>11 DEF OwnCommand, Awaited, Awaits
  <2>4. Flags' BY <1>1, <1>11 DEF Flags, Powerup
  <2>5. Version' BY <1>1, <1>11 DEF Version, Selecting, Present
  <2>6. Address'
    BY <1>2, <1>1, <1>11 DEF Address, Powerup, Selecting, Selected,
       Present
  <2>7. Lines' BY <1>1, <1>11 DEF Lines, Selecting, Present
  <2> QED BY <2>1, <2>2, <2>3, <2>4, <2>5, <2>6, <2>7 DEF IdInv, IdTypeOK
<1>12. ASSUME IdentSendCsd, ~Fail PROVE IdInv'
  <2> USE DEF IdentSendCsd, Follow, Stage, Ok, Go, Send
  <2>1. IdValuesOK'
    <3>1. eflags' = eflags BY <1>12
    <3>2. eflags' \subseteq {"HS", "HC", "TRIM"} BY <1>1, <3>1 DEF IdValuesOK
    <3> QED BY <1>1, <1>12, <3>2, MmcAssumption DEF IdValuesOK
  <2>2. RecordsOK'
    <3>1. UNCHANGED <<opt, caphs, slot, resp>> BY <1>12
    <3>2. sent' = NoCmd \/ sent' \in Cmds
      <4> HIDE DEF NoCmd, Send, SendData
      <4> QED BY <1>3, <1>12, CommandSent, DataCommandSent DEF Ops
    <3> QED BY <1>1, <3>1, <3>2, RecordsKept
  <2>3. OwnCommand' BY <1>1, <1>12 DEF OwnCommand, Awaited, Awaits
  <2>4. Flags' BY <1>1, <1>12 DEF Flags, Powerup
  <2>5. Version' BY <1>1, <1>12 DEF Version, Selecting, Present
  <2>6. Address'
    BY <1>2, <1>1, <1>12 DEF Address, Powerup, Selecting, Selected,
       Present
  <2>7. Lines' BY <1>1, <1>12 DEF Lines, Selecting, Present
  <2> QED BY <2>1, <2>2, <2>3, <2>4, <2>5, <2>6, <2>7 DEF IdInv, IdTypeOK
<1>13. ASSUME IdentSelDesCard, ~Fail PROVE IdInv'
  <2> USE DEF IdentSelDesCard, Follow, Stage, Ok, Go, Send
  <2>1. IdValuesOK'
    <3>1. eflags' = eflags BY <1>13
    <3>2. eflags' \subseteq {"HS", "HC", "TRIM"} BY <1>1, <3>1 DEF IdValuesOK
    <3> QED BY <1>1, <1>13, <3>2, MmcAssumption DEF IdValuesOK
  <2>2. RecordsOK'
    <3>1. UNCHANGED <<opt, caphs, slot, resp>> BY <1>13
    <3>2. sent' = NoCmd \/ sent' \in Cmds
      <4> HIDE DEF NoCmd, Send, SendData
      <4> QED BY <1>3, <1>13, CommandSent, DataCommandSent DEF Ops
    <3> QED BY <1>1, <3>1, <3>2, RecordsKept
  <2>3. OwnCommand' BY <1>1, <1>13 DEF OwnCommand, Awaited, Awaits
  <2>4. Flags' BY <1>1, <1>13 DEF Flags, Powerup
  <2>5. Version' BY <1>1, <1>13 DEF Version, Selecting, Present
  <2>6. Address'
    BY <1>2, <1>1, <1>13 DEF Address, Powerup, Selecting, Present
  <2>7. Lines' BY <1>1, <1>13 DEF Lines, Selecting, Present
  <2> QED BY <2>1, <2>2, <2>3, <2>4, <2>5, <2>6, <2>7 DEF IdInv, IdTypeOK
<1>14. ASSUME IdentStatusDone, ~Fail PROVE IdInv'
  <2> USE DEF IdentStatusDone, Stage, Ok, Go, Send, SendData,
              MmcClock, Finish, FinalBlksz
  <2>1. IdValuesOK'
    <3>1. eflags' = eflags BY <1>14
    <3>2. eflags' \subseteq {"HS", "HC", "TRIM"} BY <1>1, <3>1 DEF IdValuesOK
    <3> QED BY <1>1, <1>14, <3>2, MmcAssumption DEF IdValuesOK
  <2>2. RecordsOK'
    <3>1. UNCHANGED <<opt, caphs, slot, resp>> BY <1>14
    <3>2. sent' = NoCmd \/ sent' \in Cmds
      <4> HIDE DEF NoCmd, Send, SendData
      <4> QED BY <1>3, <1>14, CommandSent, DataCommandSent DEF Ops
    <3> QED BY <1>1, <3>1, <3>2, RecordsKept
  <2>3. OwnCommand' BY <1>1, <1>14 DEF OwnCommand, Awaited, Awaits
  <2>4. Flags' BY <1>1, <1>14 DEF Flags, Powerup
  <2>5. Version' BY <1>1, <1>14 DEF Version, Powerup, Selected, Present
  <2>6. Address'
    BY <1>2, <1>1, <1>14 DEF Address, Powerup, Addressing, Selecting,
       Selected, Present
  <2>7. Lines' BY <1>1, <1>14 DEF Lines, Present
  <2> QED BY <2>1, <2>2, <2>3, <2>4, <2>5, <2>6, <2>7 DEF IdInv, IdTypeOK
<1>15. ASSUME IdentSetbwApp, ~Fail PROVE IdInv'
  <2> USE DEF IdentSetbwApp, Follow, Stage, Ok, Go, Send
  <2>1. IdValuesOK'
    <3>1. eflags' = eflags BY <1>15
    <3>2. eflags' \subseteq {"HS", "HC", "TRIM"} BY <1>1, <3>1 DEF IdValuesOK
    <3> QED BY <1>1, <1>15, <3>2, MmcAssumption DEF IdValuesOK
  <2>2. RecordsOK'
    <3>1. UNCHANGED <<opt, caphs, slot, resp>> BY <1>15
    <3>2. sent' = NoCmd \/ sent' \in Cmds
      <4> HIDE DEF NoCmd, Send, SendData
      <4> QED BY <1>3, <1>15, CommandSent, DataCommandSent DEF Ops
    <3> QED BY <1>1, <3>1, <3>2, RecordsKept
  <2>3. OwnCommand' BY <1>1, <1>15 DEF OwnCommand, Awaited, Awaits
  <2>4. Flags' BY <1>1, <1>15 DEF Flags, Powerup
  <2>5. Version' BY <1>1, <1>15 DEF Version, Powerup, Selected, Present
  <2>6. Address'
    BY <1>2, <1>1, <1>15 DEF Address, Powerup, Addressing, Selecting,
       Selected, Present
  <2>7. Lines' BY <1>1, <1>15 DEF Lines, Powerup, Addressing, Selecting
  <2> QED BY <2>1, <2>2, <2>3, <2>4, <2>5, <2>6, <2>7 DEF IdInv, IdTypeOK
<1>16. ASSUME IdentSetbw, ~Fail PROVE IdInv'
  <2> USE DEF IdentSetbw, Stage, Ok, Go, Send, Finish, FinalBlksz
  <2>1. IdValuesOK'
    <3>1. eflags' = eflags BY <1>16
    <3>2. eflags' \subseteq {"HS", "HC", "TRIM"} BY <1>1, <3>1 DEF IdValuesOK
    <3> QED BY <1>1, <1>16, <3>2, MmcAssumption DEF IdValuesOK
  <2>2. RecordsOK'
    <3>1. UNCHANGED <<opt, caphs, slot, resp>> BY <1>16
    <3>2. sent' = NoCmd \/ sent' \in Cmds
      <4> HIDE DEF NoCmd, Send, SendData
      <4> QED BY <1>3, <1>16, CommandSent, DataCommandSent DEF Ops
    <3> QED BY <1>1, <3>1, <3>2, RecordsKept
  <2>3. OwnCommand' BY <1>1, <1>16 DEF OwnCommand, Awaited, Awaits
  <2>4. Flags' BY <1>1, <1>16 DEF Flags, Powerup
  <2>5. Version' BY <1>1, <1>16 DEF Version, Powerup, Selected, Present
  <2>6. Address'
    BY <1>2, <1>1, <1>16 DEF Address, Powerup, Addressing, Selecting,
       Selected, Present
  <2>7. Lines'
    BY <1>1, <1>16 DEF Lines, Powerup, Addressing, Selecting, Present
  <2> QED BY <2>1, <2>2, <2>3, <2>4, <2>5, <2>6, <2>7 DEF IdInv, IdTypeOK
<1>17. ASSUME IdentSendScr, ~Fail PROVE IdInv'
  <2> USE DEF IdentSendScr, Stage, Ok, Go, SendData
  <2>1. IdValuesOK'
    <3>1. eflags' = eflags BY <1>17
    <3>2. eflags' \subseteq {"HS", "HC", "TRIM"} BY <1>1, <3>1 DEF IdValuesOK
    <3> QED BY <1>1, <1>17, <3>2, MmcAssumption DEF IdValuesOK
  <2>2. RecordsOK'
    <3>1. UNCHANGED <<opt, caphs, slot, resp>> BY <1>17
    <3>2. sent' = NoCmd \/ sent' \in Cmds
      <4> HIDE DEF NoCmd, Send, SendData
      <4> QED BY <1>3, <1>17, CommandSent, DataCommandSent DEF Ops
    <3> QED BY <1>1, <3>1, <3>2, RecordsKept
  <2>3. OwnCommand' BY <1>1, <1>17 DEF OwnCommand, Awaited, Awaits
  <2>4. Flags' BY <1>1, <1>17 DEF Flags, Powerup
  <2>5. Version' BY <1>1, <1>17 DEF Version, Powerup, Selected, Present
  <2>6. Address'
    BY <1>2, <1>1, <1>17 DEF Address, Powerup, Addressing, Selecting,
       Selected, Present
  <2>7. Lines' BY <1>1, <1>17 DEF Lines, Powerup, Addressing, Selecting
  <2> QED BY <2>1, <2>2, <2>3, <2>4, <2>5, <2>6, <2>7 DEF IdInv, IdTypeOK
<1>18. ASSUME IdentParseScr, ~Fail PROVE IdInv'
  <2> USE DEF IdentParseScr, Stage, Ok, Go, Send, SendData,
              Finish, FinalBlksz
  <2>1. IdValuesOK'
    <3>1. eflags' = eflags BY <1>18
    <3>2. eflags' \subseteq {"HS", "HC", "TRIM"} BY <1>1, <3>1 DEF IdValuesOK
    <3> QED BY <1>1, <1>18, <3>2, MmcAssumption DEF IdValuesOK
  <2>2. RecordsOK'
    <3>1. UNCHANGED <<opt, caphs, slot, resp>> BY <1>18
    <3>2. sent' = NoCmd \/ sent' \in Cmds
      <4> HIDE DEF NoCmd, Send, SendData
      <4> QED BY <1>3, <1>18, CommandSent, DataCommandSent DEF Ops
    <3> QED BY <1>1, <3>1, <3>2, RecordsKept
  <2>3. OwnCommand' BY <1>1, <1>18 DEF OwnCommand, Awaited, Awaits
  <2>4. Flags' BY <1>1, <1>18 DEF Flags, Powerup
  <2>5. Version' BY <1>1, <1>18 DEF Version, Powerup, Selected, Present
  <2>6. Address'
    BY <1>2, <1>1, <1>18 DEF Address, Powerup, Addressing, Selecting,
       Selected, Present
  <2>7. Lines'
    BY <1>1, <1>18 DEF Lines, Powerup, Addressing, Selecting, Present
  <2> QED BY <2>1, <2>2, <2>3, <2>4, <2>5, <2>6, <2>7 DEF IdInv, IdTypeOK
<1>19. ASSUME IdentCheckMode, ~Fail PROVE IdInv'
  <2> USE DEF IdentCheckMode, Stage, Ok, Go, Send, SendData,
              Finish, FinalBlksz
  <2>1. IdValuesOK'
    <3>1. eflags' = eflags BY <1>19
    <3>2. eflags' \subseteq {"HS", "HC", "TRIM"} BY <1>1, <3>1 DEF IdValuesOK
    <3> QED BY <1>1, <1>19, <3>2, MmcAssumption DEF IdValuesOK
  <2>2. RecordsOK'
    <3>1. UNCHANGED <<opt, caphs, slot, resp>> BY <1>19
    <3>2. sent' = NoCmd \/ sent' \in Cmds
      <4> HIDE DEF NoCmd, Send, SendData
      <4> QED BY <1>3, <1>19, CommandSent, DataCommandSent DEF Ops
    <3> QED BY <1>1, <3>1, <3>2, RecordsKept
  <2>3. OwnCommand' BY <1>1, <1>19 DEF OwnCommand, Awaited, Awaits
  <2>4. Flags' BY <1>1, <1>19 DEF Flags, Powerup
  <2>5. Version' BY <1>1, <1>19 DEF Version, Powerup, Selected, Present
  <2>6. Address'
    BY <1>2, <1>1, <1>19 DEF Address, Powerup, Addressing, Selecting,
       Selected, Present
  <2>7. Lines'
    BY <1>1, <1>19 DEF Lines, Powerup, Addressing, Selecting, Present
  <2> QED BY <2>1, <2>2, <2>3, <2>4, <2>5, <2>6, <2>7 DEF IdInv, IdTypeOK
<1>20. ASSUME IdentSwitchMode, ~Fail PROVE IdInv'
  <2> USE DEF IdentSwitchMode, Stage, Ok, Go, Send, Finish,
              FinalBlksz
  <2>1. IdValuesOK'
    <3>1. eflags' \in {eflags, eflags \cup {"HS"}} BY <1>20
    <3>2. eflags' \subseteq {"HS", "HC", "TRIM"} BY <1>1, <3>1 DEF IdValuesOK
    <3> QED BY <1>1, <1>20, <3>2, MmcAssumption DEF IdValuesOK
  <2>2. RecordsOK'
    <3>1. UNCHANGED <<opt, caphs, slot, resp>> BY <1>20
    <3>2. sent' = NoCmd \/ sent' \in Cmds
      <4> HIDE DEF NoCmd, Send, SendData
      <4> QED BY <1>3, <1>20, CommandSent, DataCommandSent DEF Ops
    <3> QED BY <1>1, <3>1, <3>2, RecordsKept
  <2>3. OwnCommand' BY <1>1, <1>20 DEF OwnCommand, Awaited, Awaits
  <2>4. Flags' BY <1>1, <1>20 DEF Flags, Powerup
  <2>5. Version' BY <1>1, <1>20 DEF Version, Powerup, Selected, Present
  <2>6. Address'
    BY <1>2, <1>1, <1>20 DEF Address, Powerup, Addressing, Selecting,
       Selected, Present
  <2>7. Lines'
    BY <1>1, <1>20 DEF Lines, Powerup, Addressing, Selecting, Present
  <2> QED BY <2>1, <2>2, <2>3, <2>4, <2>5, <2>6, <2>7 DEF IdInv, IdTypeOK
<1>21. ASSUME IdentReadExtCsd, ~Fail PROVE IdInv'
  <2> USE DEF IdentReadExtCsd, Stage, Ok, Go, Send, ConfigBuswidth
  <2>1. IdValuesOK'
    <3>1. eflags' \in {eflags, eflags \cup {"TRIM"}} BY <1>21
    <3>2. eflags' \subseteq {"HS", "HC", "TRIM"} BY <1>1, <3>1 DEF IdValuesOK
    <3> QED BY <1>1, <1>21, <3>2, MmcAssumption DEF IdValuesOK
  <2>2. RecordsOK'
    <3>1. UNCHANGED <<opt, caphs, slot, resp>> BY <1>21
    <3>2. sent' = NoCmd \/ sent' \in Cmds
      <4> HIDE DEF NoCmd, Send, SendData
      <4> QED BY <1>3, <1>21, CommandSent, DataCommandSent DEF Ops
    <3> QED BY <1>1, <3>1, <3>2, RecordsKept
  <2>3. OwnCommand' BY <1>1, <1>21 DEF OwnCommand, Awaited, Awaits
  <2>4. Flags' BY <1>1, <1>21 DEF Flags, Powerup
  <2>5. Version' BY <1>1, <1>21 DEF Version, Powerup, Selected, Present
  <2>6. Address'
    BY <1>2, <1>1, <1>21 DEF Address, Powerup, Addressing, Selecting,
       Selected, Present
  <2>7. Lines' BY <1>1, <1>21 DEF Lines, Powerup, Addressing, Selecting
  <2> QED BY <2>1, <2>2, <2>3, <2>4, <2>5, <2>6, <2>7 DEF IdInv, IdTypeOK
<1>22. ASSUME IdentSwitchModeHs, ~Fail PROVE IdInv'
  <2> USE DEF IdentSwitchModeHs, Stage, Ok, Go, Send, ConfigBuswidth
  <2>1. IdValuesOK'
    <3>1. eflags' \in {eflags, eflags \cup {"HS"}} BY <1>22
    <3>2. eflags' \subseteq {"HS", "HC", "TRIM"} BY <1>1, <3>1 DEF IdValuesOK
    <3> QED BY <1>1, <1>22, <3>2, MmcAssumption DEF IdValuesOK
  <2>2. RecordsOK'
    <3>1. UNCHANGED <<opt, caphs, slot, resp>> BY <1>22
    <3>2. sent' = NoCmd \/ sent' \in Cmds
      <4> HIDE DEF NoCmd, Send, SendData
      <4> QED BY <1>3, <1>22, CommandSent, DataCommandSent DEF Ops
    <3> QED BY <1>1, <3>1, <3>2, RecordsKept
  <2>3. OwnCommand' BY <1>1, <1>22 DEF OwnCommand, Awaited, Awaits
  <2>4. Flags' BY <1>1, <1>22 DEF Flags, Powerup
  <2>5. Version' BY <1>1, <1>22 DEF Version, Powerup, Selected, Present
  <2>6. Address'
    BY <1>2, <1>1, <1>22 DEF Address, Powerup, Addressing, Selecting,
       Selected, Present
  <2>7. Lines' BY <1>1, <1>22 DEF Lines, Powerup, Addressing, Selecting
  <2> QED BY <2>1, <2>2, <2>3, <2>4, <2>5, <2>6, <2>7 DEF IdInv, IdTypeOK
<1>23. ASSUME IdentSwitchBuswidth, ~Fail PROVE IdInv'
  <2> USE DEF IdentSwitchBuswidth, Stage, Ok, Go, Send, Finish,
              FinalBlksz
  <2>1. IdValuesOK'
    <3>1. eflags' = eflags BY <1>23
    <3>2. eflags' \subseteq {"HS", "HC", "TRIM"} BY <1>1, <3>1 DEF IdValuesOK
    <3> QED BY <1>1, <1>23, <3>2, MmcAssumption DEF IdValuesOK
  <2>2. RecordsOK'
    <3>1. UNCHANGED <<opt, caphs, slot, resp>> BY <1>23
    <3>2. sent' = NoCmd \/ sent' \in Cmds
      <4> HIDE DEF NoCmd, Send, SendData
      <4> QED BY <1>3, <1>23, CommandSent, DataCommandSent DEF Ops
    <3> QED BY <1>1, <3>1, <3>2, RecordsKept
  <2>3. OwnCommand' BY <1>1, <1>23 DEF OwnCommand, Awaited, Awaits
  <2>4. Flags' BY <1>1, <1>23 DEF Flags, Powerup
  <2>5. Version' BY <1>1, <1>23 DEF Version, Powerup, Selected, Present
  <2>6. Address'
    BY <1>2, <1>1, <1>23 DEF Address, Powerup, Addressing, Selecting,
       Selected, Present
  <2>7. Lines'
    BY <1>1, <1>23 DEF Lines, Powerup, Addressing, Selecting, Present
  <2> QED BY <2>1, <2>2, <2>3, <2>4, <2>5, <2>6, <2>7 DEF IdInv, IdTypeOK
<1>24. ASSUME IdentFinal PROVE IdInv'
  <2> USE DEF IdentFinal, Stage, Ok
  <2>1. IdValuesOK' BY <1>1, <1>24, MmcAssumption DEF IdValuesOK
  <2>2. RecordsOK'
    <3>1. UNCHANGED <<opt, caphs, slot, resp>> BY <1>24
    <3>2. sent' = NoCmd \/ sent' \in Cmds
      <4> HIDE DEF NoCmd, Send, SendData
      <4> QED BY <1>3, <1>24, CommandSent, DataCommandSent
    <3> QED BY <1>1, <3>1, <3>2, RecordsKept
  <2>3. OwnCommand' BY <1>1, <1>24 DEF OwnCommand
  <2>4. Flags' BY <1>1, <1>24 DEF Flags, Powerup
  <2>5. Version' BY <1>1, <1>24 DEF Version, Powerup, Selected, Present
  <2>6. Address'
    BY <1>2, <1>1, <1>24 DEF Address, Powerup, Addressing, Selecting,
       Selected, Present
  <2>7. Lines'
    BY <1>1, <1>24 DEF Lines, Powerup, Addressing, Selecting, Present
  <2> QED BY <2>1, <2>2, <2>3, <2>4, <2>5, <2>6, <2>7 DEF IdInv, IdTypeOK
<1>25. ASSUME CardOut PROVE IdInv'
  <2> USE DEF CardOut
  <2>1. IdValuesOK' BY <1>1, <1>25, MmcAssumption DEF IdValuesOK
  <2>2. RecordsOK'
    <3>1. NoCard \in Cards BY DEF Cards
    <3> HIDE DEF NoCard
    <3> QED BY <1>1, <1>25, <3>1 DEF RecordsOK
  <2>3. OwnCommand' BY <1>1, <1>25 DEF OwnCommand, Awaited, Awaits
  <2>4. Flags' BY <1>1, <1>25 DEF Flags, Present
  <2>5. Version' BY <1>1, <1>25 DEF Version, Present
  <2>6. Address' BY <1>2, <1>1, <1>25 DEF Address, Present
  <2>7. Lines' BY <1>1, <1>25 DEF Lines, Present
  <2> QED BY <2>1, <2>2, <2>3, <2>4, <2>5, <2>6, <2>7 DEF IdInv, IdTypeOK
<1>26. ASSUME DataCrcError PROVE IdInv'
  <2> USE DEF DataCrcError, Identified
  <2>1. IdValuesOK' BY <1>1, <1>26, MmcAssumption DEF IdValuesOK
  <2>2. RecordsOK'
    <3>1. UNCHANGED <<opt, caphs, slot, resp>> BY <1>26
    <3>2. sent' = NoCmd \/ sent' \in Cmds
      <4> HIDE DEF NoCmd, Send, SendData
      <4> QED BY <1>1, <1>26, CommandSent, DataCommandSent DEF OwnCommand
    <3> QED BY <1>1, <3>1, <3>2, RecordsKept
  <2>3. OwnCommand' BY <1>1, <1>26 DEF OwnCommand
  <2>4. Flags' BY <1>1, <1>26 DEF Flags, Powerup, Present
  <2>5. Version'
    BY <1>1, <1>26 DEF Version, Addressing, Selecting, Selected
  <2>6. Address'
    BY <1>2, <1>1, <1>26 DEF Address, Powerup, Selecting, Selected
  <2>7. Lines' BY <1>1, <1>26 DEF Lines, Powerup, Addressing, Selecting
  <2> QED BY <2>1, <2>2, <2>3, <2>4, <2>5, <2>6, <2>7 DEF IdInv, IdTypeOK
<1>27. ASSUME UNCHANGED idVars PROVE IdInv'
  <2> USE DEF idVars
  <2>1. IdValuesOK' BY <1>1, <1>27, MmcAssumption DEF IdValuesOK
  <2>2. RecordsOK'
    <3>1. UNCHANGED <<opt, caphs, slot, resp>> BY <1>27
    <3>2. sent' = NoCmd \/ sent' \in Cmds
      <4> HIDE DEF NoCmd, Send, SendData
      <4> QED BY <1>1, <1>27, CommandSent, DataCommandSent DEF RecordsOK
    <3> QED BY <1>1, <3>1, <3>2, RecordsKept
  <2>3. OwnCommand' BY <1>1, <1>27 DEF OwnCommand, Awaited, Awaits
  <2>4. Flags' BY <1>1, <1>27 DEF Flags, Present
  <2>5. Version' BY <1>1, <1>27 DEF Version, Present, Sd, Mmc
  <2>6. Address' BY <1>2, <1>1, <1>27 DEF Address, Present, Mmc
  <2>7. Lines' BY <1>1, <1>27 DEF Lines, Present
  <2> QED BY <2>1, <2>2, <2>3, <2>4, <2>5, <2>6, <2>7 DEF IdInv, IdTypeOK
<1>28. ASSUME NEW k \in Kinds, CardIn(k) PROVE IdInv'
  <2> USE DEF CardIn
  <2>1. IdValuesOK' BY <1>1, <1>28, MmcAssumption DEF IdValuesOK
  <2>2. RecordsOK'
    <3>1. [NoCard EXCEPT !.kind = k] \in Cards BY DEF Cards
    <3> HIDE DEF NoCard
    <3> QED BY <1>1, <1>28, <3>1 DEF RecordsOK
  <2>3. OwnCommand' BY <1>1, <1>28 DEF OwnCommand
  <2>4. Flags' BY <1>1, <1>28 DEF OwnCommand, Flags, Powerup
  <2>5. Version' BY <1>28 DEF Version, Addressing, Selecting, Selected
  <2>6. Address' BY <1>28 DEF Address, Selecting, Selected
  <2>7. Lines' BY <1>28 DEF Lines
  <2> QED BY <2>1, <2>2, <2>3, <2>4, <2>5, <2>6, <2>7 DEF IdInv, IdTypeOK
<1>29. ASSUME NEW o \in {"ok", "to", "err"}, CmdDone(o) PROVE IdInv'
  <2>1. /\ sent # NoCmd /\ intr = "none" /\ intr' = o /\ sent' = NoCmd
        /\ result = "none" /\ Awaited
        /\ UNCHANGED <<opt, caphs, stage, istage, version, rca, eflags, width, blksz, count>>
        /\ UNCHANGED <<result, rounds, refused>>
    BY <1>1, <1>29 DEF CmdDone, OwnCommand
  <2>2. slot \in Cards /\ sent \in Cmds BY <1>1, <2>1 DEF RecordsOK
  <2>3. /\ resp' \in [up : BOOLEAN, hc : BOOLEAN]
        /\ resp'.hc = (resp'.up /\ slot.kind \in {"sdhc", "emmc"})
        /\ resp'.up => o = "ok" /\ sent.op \in {"SD_SEND_OP_COND", "SEND_OP_COND"}
    BY <1>29 DEF CmdDone
  <2>4. /\ o = "ok" /\ Present => Answers # NoCard
        /\ o = "ok" /\ Present
                 => slot' = IF resp'.up THEN [Answers EXCEPT !.st = "ready"]
                                      ELSE Answers
        /\ o = "ok" /\ Present /\ sent.op # "GO_IDLE_STATE" /\ sent.data
                 => width = slot.width
        /\ o # "ok" \/ ~Present => slot' = slot
    <3> HIDE DEF NoCmd, NoCard
    <3>1. Present /\ sent.op = "GO_IDLE_STATE" => Answers # NoCard
      BY <2>2, AnswersNot
    <3> QED BY <1>29, <3>1 DEF CmdDone, Present
  <2>5. /\ o = "ok" /\ Present => Made(slot') /\ Knows /\ slot' \in Cards
        /\ o # "ok" \/ ~Present => slot' = slot
    <3> SUFFICES ASSUME o = "ok", Present
                 PROVE  Made(slot') /\ Knows /\ slot' \in Cards
      BY <2>4
    <3> DEFINE a == Answers
    <3>1. /\ Made(a) /\ Knows /\ slot' = IF resp'.up THEN [a EXCEPT !.st = "ready"] ELSE a
          /\ a \in AnyCards
      BY <2>2, <2>4, AnswersMade
    <3> HIDE DEF a, NoCard
    <3>2. Made(slot') BY <2>3, <3>1 DEF Made
    <3>3. /\ sent.op = "SET_RELATIVE_ADDR" => sent.arg = rca
          /\ sent.op = "MMC_BUSWIDTH" => sent.arg = width
      <4>1. stage # "NONE" BY <1>1, <2>1 DEF OwnCommand
      <4> QED BY <1>1, <2>1, <4>1 DEF Awaited, Awaits, IdValuesOK
    <3>4. a.rca \in {0, 2, SdRca} /\ a.width \in {1, 4, 8}
      BY <1>1, <2>2, <3>1, <3>3 DEF Made, IdValuesOK, Cards
    <3>5. a \in Cards BY <3>1, <3>4 DEF Cards, AnyCards
    <3>6. [a EXCEPT !.st = "ready"] \in Cards BY <3>5 DEF Cards
    <3> QED BY <3>1, <3>2, <3>5, <3>6
  <2>6. /\ slot'.kind = slot.kind /\ slot' \in Cards
        /\ sent.op # "GO_IDLE_STATE" /\ sent.op # "SET_RELATIVE_ADDR"
                 => slot'.rca = slot.rca
        /\ sent.op \notin {"GO_IDLE_STATE", "SET_BUS_WIDTH", "MMC_BUSWIDTH"}
                 => slot'.width = slot.width
        /\ sent.op \notin {"GO_IDLE_STATE", "SD_SWITCH", "MMC_HS"} => slot'.hs = slot.hs
        /\ sent.op \notin {"GO_IDLE_STATE", "SD_SEND_OP_COND", "SEND_OP_COND", "ALL_SEND_CID",
                     "SET_RELATIVE_ADDR", "SEL_DES_CARD"} => slot'.st = slot.st
    BY <2>2, <2>5 DEF Made
  <2>7. /\ o = "to" /\ Present /\ sent.op = "IF_COND"
           => slot.kind \notin {"sd2", "sdhc"}
        /\ o = "to" /\ Present /\ sent.op = "APP_CMD" /\ Mine => ~Sd
    BY <1>29, <2>2, AnswersNot DEF CmdDone, Present
  <2>8. IdValuesOK' BY <1>1, <2>1 DEF IdValuesOK
  <2>9. RecordsOK' BY <1>1, <2>1, <2>3, <2>6 DEF RecordsOK
  <2>10. OwnCommand' BY <1>1, <2>1 DEF OwnCommand
  <2> HIDE DEF NoCmd, NoCard
  <2>11. Flags' BY <1>1, <2>1, <2>3, <2>6 DEF Flags
  <2>12. stage # "NONE" /\ stage \in Stages
    BY <1>1, <2>1 DEF OwnCommand, IdValuesOK
  <2>13. Version'
    <3>1. stage = "CARD_VERSION" /\ o = "ok" => slot.kind \in {"none", "sd2", "sdhc"}
      BY <2>1, <2>5 DEF Awaited, Awaits, Knows, Present
    <3>2. stage = "CARD_VERSION" /\ o = "to" => slot.kind \notin {"sd2", "sdhc"}
      BY <2>1, <2>7 DEF Awaited, Awaits, Present
    <3>3. stage = "SD_POWERUP" /\ Present /\ o = "ok" => Sd
      BY <2>1, <2>5 DEF Awaited, Knows
    <3>4. stage = "SD_POWERUP" /\ Present /\ o = "to" /\ istage = 1 => Mmc
      BY <1>1, <1>2, <2>1, <2>7 DEF Awaited, Mine, Sd, Mmc, Present,
         Address, Powerup, AllKinds
    <3>5. stage \in Addressing \cup Selecting \cup Selected /\ Present /\ "HS" \in eflags
             => slot'.hs \/ "MMC_HS" \in refused
      <4>1. SUFFICES ASSUME stage \in {"SWITCH_MODE_BUSWIDTH", "FINAL"}, Present,
                            "HS" \in eflags
                     PROVE  slot'.hs \/ "MMC_HS" \in refused
        BY <1>1, <2>12 DEF Flags, Addressing, Selecting, Selected
      <4>2. slot.hs \/ "MMC_HS" \in refused BY <1>1, <4>1 DEF Version, Selected, Powerup
      <4>3. sent.op \in {"MMC_BUSWIDTH", "SET_BLOCKLEN"}
        BY <2>1, <4>1 DEF Awaited, Awaits
      <4> QED BY <4>2, <4>3, <2>6
    <3>6. stage = "SWITCH_MODE_HS" /\ Present /\ o = "ok" => slot'.hs
      BY <2>1, <2>5 DEF Awaited, Awaits, Made
    <3> QED
      BY <1>1, <2>1, <2>6, <3>1, <3>2, <3>3, <3>4, <3>5, <3>6 DEF Version,
         Present, Sd, Mmc
  <2>14. Address'
    <3>1. Present /\ (stage \in Powerup \/ (stage = "GO_IDLE" /\ o = "ok"))
             => slot'.rca = 0
      BY <1>1, <2>1, <2>5 DEF Address, Awaited, Awaits, Powerup, Made
    <3>2. stage = "SET_ADDRESS" /\ Present /\ o = "ok" /\ Mmc => slot'.rca = rca
      BY <2>1, <2>5 DEF Awaited, Awaits, Made, Sd, Mmc
    <3>3. stage \in Selecting \cup Selected
             => sent.op \notin {"GO_IDLE_STATE", "SET_RELATIVE_ADDR"}
      BY <2>1, <2>12 DEF Awaited, Awaits, Selecting, Selected, Powerup,
         Addressing
    <3>4. stage = "SEL_DES_CARD" /\ Present /\ o = "ok" => slot'.st = "tran"
      BY <2>1, <2>5 DEF Awaited, Awaits, Made
    <3>5. stage \in Selected
             => sent.op \notin {"GO_IDLE_STATE", "SD_SEND_OP_COND", "SEND_OP_COND", "ALL_SEND_CID",
                     "SET_RELATIVE_ADDR", "SEL_DES_CARD"}
      BY <2>1, <2>12 DEF Awaited, Awaits, Selecting, Selected, Powerup,
         Addressing
    <3> QED
      BY <1>1, <2>1, <2>6, <3>1, <3>2, <3>3, <3>4, <3>5 DEF Address, Present,
         Mmc
  <2>15. Lines'
    <3> DEFINE Early == Powerup \cup Addressing \cup Selecting \cup {"CHECK_STS"}
    <3>1. Present /\ stage = "GO_IDLE" /\ o = "ok" => slot'.width = 1
      BY <2>1, <2>5 DEF Awaited, Awaits, Made
    <3>2. Present /\ stage \in Early => slot'.width = 1
      <4>1. stage \in Early => sent.op \notin {"SET_BUS_WIDTH", "MMC_BUSWIDTH"}
        BY <2>1 DEF Awaited, Awaits, Powerup, Addressing, Selecting
      <4>2. Present /\ stage \in Early => slot.width = 1
        BY <1>1 DEF Lines
      <4>3. Present /\ sent.op \notin {"SET_BUS_WIDTH", "MMC_BUSWIDTH"}
               => slot'.width \in {1, slot.width}
        BY <2>5 DEF Made
      <4> QED BY <4>1, <4>2, <4>3
    <3>3. Present /\ stage \in {"SET_BW", "PARSE_SCR", "SWITCH_MODE_BUSWIDTH"} /\ o = "ok"
             => slot'.width = width \/ "MMC_BUSWIDTH" \in refused
      BY <1>1, <2>1, <2>4, <2>5 DEF Awaited, Awaits, Made, Lines
    <3>4. stage \in {"CHECK_MODE", "SWITCH_MODE", "FINAL"}
             => sent.op \in {"SD_SWITCH", "SET_BLOCKLEN"}
      BY <2>1 DEF Awaited, Awaits
    <3> QED BY <1>1, <2>1, <2>6, <3>1, <3>2, <3>3, <3>4 DEF Lines, Present
  <2> QED BY <2>8, <2>9, <2>10, <2>11, <2>13, <2>14, <2>15 DEF IdInv, IdTypeOK
<1>31. ASSUME Refuse PROVE IdInv'
  <2>1. /\ sent.op \in Switches /\ intr = "none" /\ intr' = "ok" /\ sent' = NoCmd /\ resp' = NoResp
        /\ refused' = refused \cup {sent.op}
        /\ sent.op = "SD_SWITCH" => width = slot.width
        /\ UNCHANGED <<opt, caphs, slot, stage, istage, version, rca, eflags, width, blksz>>
        /\ UNCHANGED <<count, result, rounds>>
    BY <1>31 DEF Refuse
  <2>2. sent # NoCmd BY <2>1 DEF Switches
  <2>3. Awaited /\ result = "none" BY <1>1, <2>2 DEF OwnCommand
  <2>4. stage \in {"CHECK_MODE", "SWITCH_MODE", "SWITCH_MODE_HS", "SWITCH_MODE_BUSWIDTH"}
    <3>1. stage \in Stages /\ stage # "NONE" BY <1>1, <2>3 DEF IdValuesOK, OwnCommand
    <3> QED BY <2>1, <2>3, <3>1 DEF Awaited, Awaits, Switches
  <2>5. /\ stage = "SWITCH_MODE_HS" => "MMC_HS" \in refused'
        /\ stage = "SWITCH_MODE_BUSWIDTH" => "MMC_BUSWIDTH" \in refused'
    BY <2>1, <2>3 DEF Awaited, Awaits
  <2>6. refused' \subseteq Switches BY <1>1, <2>1 DEF IdValuesOK
  <2>7. IdValuesOK' BY <1>1, <2>1, <2>6 DEF IdValuesOK
  <2>8. RecordsOK' BY <1>1, <2>1 DEF RecordsOK
  <2>9. OwnCommand' BY <1>1, <2>1, <2>3 DEF OwnCommand
  <2> HIDE DEF NoCmd, NoCard
  <2>10. Flags' BY <1>1, <2>1, <2>4 DEF Flags, Present
  <2>11. Version' BY <1>1, <2>1, <2>4, <2>5 DEF Version, Present, Sd, Mmc
  <2>12. Address' BY <1>1, <2>1, <2>4 DEF Address, Present, Mmc
  <2>13. Lines'
    BY <1>1, <2>1, <2>3, <2>4, <2>5 DEF Lines, Present, Powerup, Addressing, Selecting
  <2> QED BY <2>7, <2>8, <2>9, <2>10, <2>11, <2>12, <2>13 DEF IdInv, IdTypeOK
<1>30. ASSUME Ident, ~IdentStart, Fail PROVE IdInv'
  <2>1. PICK i : i # "START" /\ Stage(i)
    BY <1>30 DEF Ident, IdentGoIdle, IdentCardVersion, IdentSdPowerup,
       IdentMmcPowerup, IdentAllSendCid, IdentSetAddress, IdentSendCid,
       IdentSendCsd, IdentSelDesCard, IdentStatusDone, IdentSetbwApp,
       IdentSetbw, IdentSendScr, IdentParseScr, IdentCheckMode,
       IdentSwitchMode, IdentReadExtCsd, IdentSwitchModeHs,
       IdentSwitchBuswidth, IdentFinal, Follow
  <2> QED BY <1>30, <2>1, FailIdent
<1> QED
  BY <1>4, <1>5, <1>6, <1>7, <1>8, <1>9, <1>10, <1>11, <1>12, <1>13, <1>14, <1>15,
     <1>16, <1>17, <1>18, <1>19, <1>20, <1>21, <1>22, <1>23, <1>24, <1>25, <1>26,
     <1>27, <1>28, <1>29, <1>30, <1>31 DEF IdNext, Ident

(* The initial states.                                                     *)
LEMMA InitIdent == IdInit => IdInv
<1> SUFFICES ASSUME IdInit PROVE IdInv OBVIOUS
<1> USE DEF IdInit, Stages, NoResp, SdRca
<1>1. IdValuesOK BY MmcAssumption DEF IdValuesOK
<1>2. NoCard \in Cards BY DEF NoCard, Cards
<1>3. RecordsOK BY <1>2, MmcAssumption DEF RecordsOK
<1>4. slot.kind = "none" BY DEF NoCard
<1>5. OwnCommand BY DEF OwnCommand
<1>6. Flags BY <1>4 DEF Flags
<1>7. Version BY <1>4 DEF Version, Present
<1>8. Address BY <1>4 DEF Address, Present
<1>9. Lines BY <1>4 DEF Lines, Present
<1> QED BY <1>1, <1>3, <1>5, <1>6, <1>7, <1>8, <1>9 DEF IdInv, IdTypeOK

(* The invariant holds.                                                    *)
LEMMA IdentInvariant == IdSpec => []IdInv
BY InitIdent, NextIdent, PTL DEF IdSpec

(* Type correctness of the identification.                                 *)
THEOREM IdentTypeCorrect == IdSpec => []IdTypeOK
<1>1. IdInv => IdTypeOK BY DEF IdInv
<1> QED BY <1>1, IdentInvariant, PTL

(* An identified card is a selected one.                                   *)
LEMMA IdentifiedSelected ==
  ASSUME IdInv, Identified
  PROVE  stage \in Selected /\ Present /\ result = "ok"
BY DEF IdInv, OwnCommand, Identified, Selected, Stages, Powerup,
   Addressing, Selecting, Present

(* Whatever cards were identified, failed or were pulled out before it,    *)
(* a card that mmc_card_ident has identified is known for its kind, its    *)
(* addressing and, unless it has refused the switch, its speed.            *)
THEOREM KnownCorrect == IdSpec => []KnownForWhatItIs
<1>1. IdInv => KnownForWhatItIs
  BY IdentifiedSelected DEF IdInv, Version, KnownForWhatItIs, SameSpeed
<1> QED BY <1>1, IdentInvariant, PTL

(* ... and it is selected under the address in ext->rca, with blocks of    *)
(* 512 bytes, and uses the data lines that the controller uses unless it   *)
(* has refused to change them.                                             *)
THEOREM AgreeCorrect == IdSpec => []HostAndCardAgree
<1>1. IdInv => HostAndCardAgree
  BY IdentifiedSelected DEF IdInv, Address, Lines, HostAndCardAgree
<1> QED BY <1>1, IdentInvariant, PTL
=============================================================================
