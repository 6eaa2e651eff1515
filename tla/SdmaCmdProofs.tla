--------------------------- MODULE SdmaCmdProofs ---------------------------
(***************************************************************************)
(* Proofs about SdmaCmd for any threads, processes and numbers of calls.   *)
(***************************************************************************)
EXTENDS SdmaCmd, TLAPS

(* The initial state gives no thread a turn.                               *)
LEMMA InitTurns == Init => Turns
<1> SUFFICES ASSUME Init PROVE Turns OBVIOUS
<1>1. NoJob \in Job BY DEF NoJob, Job
<1>2. TypeOK BY <1>1 DEF Init, TypeOK, PCs
<1>3. HolderAt BY NoneAssumption DEF Init, HolderAt
<1>4. MaskAt /\ EventAt /\ DescriptorOwned
  BY DEF Init, MaskAt, EventAt, DescriptorOwned
<1> QED BY <1>2, <1>3, <1>4 DEF Turns

(* Every step keeps the turns, timeouts included.                          *)
LEMMA NextTurns == ASSUME Turns, [Next]_vars PROVE Turns'
<1> USE HomeAssumption, NoneAssumption DEF Turns
<1>u. CASE UNCHANGED vars
  BY <1>u DEF vars, TypeOK, HolderAt, MaskAt, EventAt, DescriptorOwned
<1>t. ASSUME NEW t \in Threads, Call(t) \/ ThreadStep(t) \/ TimeOut(t) PROVE Turns'
  <2>1. CASE Call(t)
    <3>1. TypeOK'
      BY <2>1 DEF Call, Goto, hardware, handler, irqTable, caller, TypeOK, PCs, Job,
          NoJob
    <3>2. HolderAt'
      BY <2>1 DEF Call, Goto, hardware, handler, irqTable, caller, HolderAt, TypeOK
    <3>3. MaskAt'
      BY <2>1 DEF Call, Goto, hardware, handler, irqTable, caller, MaskAt, HolderAt,
          TypeOK
    <3>4. EventAt'
      BY <2>1 DEF Call, Goto, hardware, handler, irqTable, caller, EventAt, HolderAt,
          TypeOK
    <3>5. DescriptorOwned'
      BY <2>1 DEF Call, Goto, hardware, handler, irqTable, caller, DescriptorOwned,
          HolderAt, TypeOK
    <3> QED BY <3>1, <3>2, <3>3, <3>4, <3>5
  <2>2. CASE Lock(t)
    <3>1. TypeOK'
      BY <2>2 DEF Lock, Goto, hardware, handler, irqTable, caller, TypeOK, PCs, Job,
          NoJob
    <3>2. HolderAt'
      BY <2>2 DEF Lock, Goto, hardware, handler, irqTable, caller, HolderAt, TypeOK
    <3>3. MaskAt'
      BY <2>2 DEF Lock, Goto, hardware, handler, irqTable, caller, MaskAt, HolderAt,
          TypeOK
    <3>4. EventAt'
      BY <2>2 DEF Lock, Goto, hardware, handler, irqTable, caller, EventAt, HolderAt,
          TypeOK
    <3>5. DescriptorOwned'
      BY <2>2 DEF Lock, Goto, hardware, handler, irqTable, caller, DescriptorOwned,
          HolderAt, TypeOK
    <3> QED BY <3>1, <3>2, <3>3, <3>4, <3>5
  <2>3. CASE EventAddMask(t)
    <3>1. TypeOK'
      BY <2>3 DEF EventAddMask, Goto, hardware, handler, irqTable, caller, TypeOK,
          PCs, Job, NoJob
    <3>2. HolderAt'
      BY <2>3 DEF EventAddMask, Goto, hardware, handler, irqTable, caller, HolderAt,
          TypeOK
    <3>3. MaskAt'
      BY <2>3 DEF EventAddMask, Goto, hardware, handler, irqTable, caller, MaskAt,
          HolderAt, TypeOK
    <3>4. EventAt'
      BY <2>3 DEF EventAddMask, Goto, hardware, handler, irqTable, caller, EventAt,
          HolderAt, TypeOK
    <3>5. DescriptorOwned'
      BY <2>3 DEF EventAddMask, Goto, hardware, handler, irqTable, caller,
          DescriptorOwned, HolderAt, TypeOK
    <3> QED BY <3>1, <3>2, <3>3, <3>4, <3>5
  <2>4. CASE EventAddEvent(t)
    <3>1. TypeOK'
      BY <2>4 DEF EventAddEvent, Goto, hardware, handler, irqTable, caller, TypeOK,
          PCs, Job, NoJob
    <3>2. HolderAt'
      BY <2>4 DEF EventAddEvent, Goto, hardware, handler, irqTable, caller, HolderAt,
          TypeOK
    <3>3. MaskAt'
      BY <2>4 DEF EventAddEvent, Goto, hardware, handler, irqTable, caller, MaskAt,
          HolderAt, TypeOK
    <3>4. EventAt'
      BY <2>4 DEF EventAddEvent, Goto, hardware, handler, irqTable, caller, EventAt,
          HolderAt, TypeOK
    <3>5. DescriptorOwned'
      BY <2>4 DEF EventAddEvent, Goto, hardware, handler, irqTable, caller,
          DescriptorOwned, HolderAt, TypeOK
    <3> QED BY <3>1, <3>2, <3>3, <3>4, <3>5
  <2>5. CASE SetDescriptor(t)
    <3>1. TypeOK'
      BY <2>5 DEF SetDescriptor, Goto, hardware, handler, irqTable, caller, TypeOK,
          PCs, Job, NoJob
    <3>2. HolderAt'
      BY <2>5 DEF SetDescriptor, Goto, hardware, handler, irqTable, caller, HolderAt,
          TypeOK
    <3>3. MaskAt'
      BY <2>5 DEF SetDescriptor, Goto, hardware, handler, irqTable, caller, MaskAt,
          HolderAt, TypeOK
    <3>4. EventAt'
      BY <2>5 DEF SetDescriptor, Goto, hardware, handler, irqTable, caller, EventAt,
          HolderAt, TypeOK
    <3>5. DescriptorOwned'
      BY <2>5 DEF SetDescriptor, Goto, hardware, handler, irqTable, caller,
          DescriptorOwned, HolderAt, TypeOK
    <3> QED BY <3>1, <3>2, <3>3, <3>4, <3>5
  <2>6. CASE Start(t)
    <3>1. TypeOK'
      BY <2>6 DEF Start, Goto, hardware, handler, irqTable, caller, TypeOK, PCs, Job,
          NoJob
    <3>2. HolderAt'
      BY <2>6 DEF Start, Goto, hardware, handler, irqTable, caller, HolderAt, TypeOK
    <3>3. MaskAt'
      BY <2>6 DEF Start, Goto, hardware, handler, irqTable, caller, MaskAt, HolderAt,
          TypeOK
    <3>4. EventAt'
      BY <2>6 DEF Start, Goto, hardware, handler, irqTable, caller, EventAt,
          HolderAt, TypeOK
    <3>5. DescriptorOwned'
      BY <2>6 DEF Start, Goto, hardware, handler, irqTable, caller, DescriptorOwned,
          HolderAt, TypeOK
    <3> QED BY <3>1, <3>2, <3>3, <3>4, <3>5
  <2>7. CASE ReceivePulse(t)
    <3>1. TypeOK'
      BY <2>7 DEF ReceivePulse, Goto, hardware, handler, irqTable, caller, TypeOK,
          PCs, Job, NoJob
    <3>2. HolderAt'
      BY <2>7 DEF ReceivePulse, Goto, hardware, handler, irqTable, caller, HolderAt,
          TypeOK
    <3>3. MaskAt'
      BY <2>7 DEF ReceivePulse, Goto, hardware, handler, irqTable, caller, MaskAt,
          HolderAt, TypeOK
    <3>4. EventAt'
      BY <2>7 DEF ReceivePulse, Goto, hardware, handler, irqTable, caller, EventAt,
          HolderAt, TypeOK
    <3>5. DescriptorOwned'
      BY <2>7 DEF ReceivePulse, Goto, hardware, handler, irqTable, caller,
          DescriptorOwned, HolderAt, TypeOK
    <3> QED BY <3>1, <3>2, <3>3, <3>4, <3>5
  <2>8. CASE TimeOut(t)
    <3>1. TypeOK'
      BY <2>8 DEF TimeOut, Goto, hardware, handler, irqTable, caller, TypeOK, PCs,
          Job, NoJob
    <3>2. HolderAt'
      BY <2>8 DEF TimeOut, Goto, hardware, handler, irqTable, caller, HolderAt, TypeOK
    <3>3. MaskAt'
      BY <2>8 DEF TimeOut, Goto, hardware, handler, irqTable, caller, MaskAt,
          HolderAt, TypeOK
    <3>4. EventAt'
      BY <2>8 DEF TimeOut, Goto, hardware, handler, irqTable, caller, EventAt,
          HolderAt, TypeOK
    <3>5. DescriptorOwned'
      BY <2>8 DEF TimeOut, Goto, hardware, handler, irqTable, caller,
          DescriptorOwned, HolderAt, TypeOK
    <3> QED BY <3>1, <3>2, <3>3, <3>4, <3>5
  <2>9. CASE EventRemoveMask(t)
    <3>1. TypeOK'
      BY <2>9 DEF EventRemoveMask, Goto, hardware, handler, irqTable, caller, TypeOK,
          PCs, Job, NoJob
    <3>2. HolderAt'
      BY <2>9 DEF EventRemoveMask, Goto, hardware, handler, irqTable, caller,
          HolderAt, TypeOK
    <3>3. MaskAt'
      BY <2>9 DEF EventRemoveMask, Goto, hardware, handler, irqTable, caller, MaskAt,
          HolderAt, TypeOK
    <3>4. EventAt'
      BY <2>9 DEF EventRemoveMask, Goto, hardware, handler, irqTable, caller,
          EventAt, HolderAt, TypeOK
    <3>5. DescriptorOwned'
      BY <2>9 DEF EventRemoveMask, Goto, hardware, handler, irqTable, caller,
          DescriptorOwned, HolderAt, TypeOK
    <3> QED BY <3>1, <3>2, <3>3, <3>4, <3>5
  <2>10. CASE EventRemoveEvent(t)
    <3>1. TypeOK'
      BY <2>10 DEF EventRemoveEvent, Goto, hardware, handler, irqTable, caller,
          TypeOK, PCs, Job, NoJob
    <3>2. HolderAt'
      BY <2>10 DEF EventRemoveEvent, Goto, hardware, handler, irqTable, caller,
          HolderAt, TypeOK
    <3>3. MaskAt'
      BY <2>10 DEF EventRemoveEvent, Goto, hardware, handler, irqTable, caller,
          MaskAt, HolderAt, TypeOK
    <3>4. EventAt'
      BY <2>10 DEF EventRemoveEvent, Goto, hardware, handler, irqTable, caller,
          EventAt, HolderAt, TypeOK
    <3>5. DescriptorOwned'
      BY <2>10 DEF EventRemoveEvent, Goto, hardware, handler, irqTable, caller,
          DescriptorOwned, HolderAt, TypeOK
    <3> QED BY <3>1, <3>2, <3>3, <3>4, <3>5
  <2>11. CASE Unlock(t)
    <3>1. TypeOK'
      BY <2>11 DEF Unlock, Goto, hardware, handler, irqTable, caller, TypeOK, PCs,
          Job, NoJob
    <3>2. HolderAt'
      BY <2>11 DEF Unlock, Goto, hardware, handler, irqTable, caller, HolderAt, TypeOK
    <3>3. MaskAt'
      BY <2>11 DEF Unlock, Goto, hardware, handler, irqTable, caller, MaskAt,
          HolderAt, TypeOK
    <3>4. EventAt'
      BY <2>11 DEF Unlock, Goto, hardware, handler, irqTable, caller, EventAt,
          HolderAt, TypeOK
    <3>5. DescriptorOwned'
      BY <2>11 DEF Unlock, Goto, hardware, handler, irqTable, caller,
          DescriptorOwned, HolderAt, TypeOK
    <3> QED BY <3>1, <3>2, <3>3, <3>4, <3>5
  <2> QED BY <1>t, <2>1, <2>2, <2>3, <2>4, <2>5, <2>6, <2>7, <2>8, <2>9,
      <2>10, <2>11 DEF ThreadStep
<1>p. ASSUME NEW P \in Procs, Isr(P) PROVE Turns'
  <2>0. CASE IsrRead(P)
    <3>1. TypeOK'
      BY <2>0 DEF IsrRead, Goto, hardware, handler, irqTable, caller, TypeOK, PCs,
          Job, NoJob
    <3>2. HolderAt'
      BY <2>0 DEF IsrRead, Goto, hardware, handler, irqTable, caller, HolderAt, TypeOK
    <3>3. MaskAt'
      BY <2>0 DEF IsrRead, Goto, hardware, handler, irqTable, caller, MaskAt,
          HolderAt, TypeOK
    <3>4. EventAt'
      BY <2>0 DEF IsrRead, Goto, hardware, handler, irqTable, caller, EventAt,
          HolderAt, TypeOK
    <3>5. DescriptorOwned'
      BY <2>0 DEF IsrRead, Goto, hardware, handler, irqTable, caller,
          DescriptorOwned, HolderAt, TypeOK
    <3> QED BY <3>1, <3>2, <3>3, <3>4, <3>5
  <2>1. CASE IsrTake(P)
    <3>1. TypeOK'
      BY <2>1 DEF IsrTake, Goto, hardware, handler, irqTable, caller, TypeOK, PCs,
          Job, NoJob
    <3>2. HolderAt'
      BY <2>1 DEF IsrTake, Goto, hardware, handler, irqTable, caller, HolderAt, TypeOK
    <3>3. MaskAt'
      BY <2>1 DEF IsrTake, Goto, hardware, handler, irqTable, caller, MaskAt,
          HolderAt, TypeOK
    <3>4. EventAt'
      BY <2>1 DEF IsrTake, Goto, hardware, handler, irqTable, caller, EventAt,
          HolderAt, TypeOK
    <3>5. DescriptorOwned'
      BY <2>1 DEF IsrTake, Goto, hardware, handler, irqTable, caller,
          DescriptorOwned, HolderAt, TypeOK
    <3> QED BY <3>1, <3>2, <3>3, <3>4, <3>5
  <2>2. CASE IsrReturn(P)
    <3>1. TypeOK'
      BY <2>2 DEF IsrReturn, Goto, hardware, handler, irqTable, caller, TypeOK, PCs,
          Job, NoJob
    <3>2. HolderAt'
      BY <2>2 DEF IsrReturn, Goto, hardware, handler, irqTable, caller, HolderAt, TypeOK
    <3>3. MaskAt'
      BY <2>2 DEF IsrReturn, Goto, hardware, handler, irqTable, caller, MaskAt,
          HolderAt, TypeOK
    <3>4. EventAt'
      BY <2>2 DEF IsrReturn, Goto, hardware, handler, irqTable, caller, EventAt,
          HolderAt, TypeOK
    <3>5. DescriptorOwned'
      BY <2>2 DEF IsrReturn, Goto, hardware, handler, irqTable, caller,
          DescriptorOwned, HolderAt, TypeOK
    <3> QED BY <3>1, <3>2, <3>3, <3>4, <3>5
  <2> QED BY <1>p, <2>0, <2>1, <2>2 DEF Isr
<1>e. ASSUME Engine PROVE Turns'
  <2>1. CASE EngineFetch
    <3>1. TypeOK'
      BY <2>1 DEF EngineFetch, Goto, hardware, handler, irqTable, caller, TypeOK,
          PCs, Job, NoJob
    <3>2. HolderAt'
      BY <2>1 DEF EngineFetch, Goto, hardware, handler, irqTable, caller, HolderAt,
          TypeOK
    <3>3. MaskAt'
      BY <2>1 DEF EngineFetch, Goto, hardware, handler, irqTable, caller, MaskAt,
          HolderAt, TypeOK
    <3>4. EventAt'
      BY <2>1 DEF EngineFetch, Goto, hardware, handler, irqTable, caller, EventAt,
          HolderAt, TypeOK
    <3>5. DescriptorOwned'
      BY <2>1 DEF EngineFetch, Goto, hardware, handler, irqTable, caller,
          DescriptorOwned, HolderAt, TypeOK
    <3> QED BY <3>1, <3>2, <3>3, <3>4, <3>5
  <2>2. CASE EngineDone
    <3>1. TypeOK'
      BY <2>2 DEF EngineDone, Goto, hardware, handler, irqTable, caller, TypeOK, PCs,
          Job, NoJob
    <3>2. HolderAt'
      BY <2>2 DEF EngineDone, Goto, hardware, handler, irqTable, caller, HolderAt, TypeOK
    <3>3. MaskAt'
      BY <2>2 DEF EngineDone, Goto, hardware, handler, irqTable, caller, MaskAt,
          HolderAt, TypeOK
    <3>4. EventAt'
      BY <2>2 DEF EngineDone, Goto, hardware, handler, irqTable, caller, EventAt,
          HolderAt, TypeOK
    <3>5. DescriptorOwned'
      BY <2>2 DEF EngineDone, Goto, hardware, handler, irqTable, caller,
          DescriptorOwned, HolderAt, TypeOK
    <3> QED BY <3>1, <3>2, <3>3, <3>4, <3>5
  <2> QED BY <1>e, <2>1, <2>2 DEF Engine
<1> QED BY <1>u, <1>t, <1>p, <1>e DEF Next

(* Only the process of the holder listens to channel 0.                    *)
THEOREM ListenersCorrect == Spec => []OnlyHolderListens
<1>1. Turns /\ [Next]_vars => Turns' BY NextTurns
<1>2. Turns => OnlyHolderListens
  BY HomeAssumption, NoneAssumption
      DEF Turns, TypeOK, HolderAt, MaskAt, EventAt, OnlyHolderListens
<1> QED BY InitTurns, <1>1, <1>2, PTL DEF Spec

(* The command descriptor is never overwritten under a waiting thread.     *)
THEOREM DescriptorCorrect == Spec => [](TypeOK /\ DescriptorOwned)
<1>1. Turns /\ [Next]_vars => Turns' BY NextTurns
<1>2. Turns => TypeOK /\ DescriptorOwned BY DEF Turns
<1> QED BY InitTurns, <1>1, <1>2, PTL DEF Spec

(* Initially nothing is under way.                                         *)
LEMMA InitInTime == Init => InTime
<1> SUFFICES ASSUME Init PROVE InTime OBVIOUS
<1>1. Turns BY InitTurns
<1>2. Quiet BY DEF Init, Quiet, NoSignal
<1>3. LoadedOnSuccess BY DEF Init, LoadedOnSuccess
<1> QED BY <1>1, <1>2, <1>3 DEF Init, InTime

(* When no wait times out, every step keeps a started command in exactly   *)
(* one place.                                                              *)
LEMMA NextInTime == ASSUME ~expired', InTime, [Next]_vars PROVE InTime'
<1> USE HomeAssumption, NoneAssumption
<1>0. Turns /\ Turns'
  BY NextTurns DEF InTime
<1> USE DEF InTime, InFlight, Quiet, NoSignal, LoadedOnSuccess
<1>u. CASE UNCHANGED vars
  BY <1>0, <1>u DEF vars
<1>t. ASSUME NEW t \in Threads, Call(t) \/ ThreadStep(t) \/ TimeOut(t) PROVE InTime'
  <2>1. CASE Call(t)
    <3>1. \A u \in Threads : pc'[u] = "wait" => InFlight(u)'
      BY <1>0, <2>1 DEF Call, Goto, hardware, handler, irqTable, caller, Turns,
          TypeOK, HolderAt, DescriptorOwned, MaskAt, EventAt
    <3>2. (\A u \in Threads : pc'[u] # "wait") => Quiet'
      BY <1>0, <2>1 DEF Call, Goto, hardware, handler, irqTable, caller, Turns,
          TypeOK, HolderAt, MaskAt
    <3>3. \A u \in Threads : pc'[u] = "start" => bd'.done
      BY <1>0, <2>1 DEF Call, Goto, hardware, handler, irqTable, caller, Turns,
          TypeOK, HolderAt
    <3>4. \A u \in Threads : pc'[u] \in {"lock", "mask", "event", "bd", "start", "wait"}
                             => ret'[u] = "none"
      BY <1>0, <2>1 DEF Call, Goto, hardware, handler, irqTable, caller, Turns, TypeOK
    <3>5. LoadedOnSuccess'
      BY <1>0, <2>1 DEF Call, Goto, hardware, handler, irqTable, caller, Turns,
          TypeOK, HolderAt, NoJob
    <3> QED BY <1>0, <3>1, <3>2, <3>3, <3>4, <3>5
  <2>2. CASE Lock(t)
    <3>1. \A u \in Threads : pc'[u] = "wait" => InFlight(u)'
      BY <1>0, <2>2 DEF Lock, Goto, hardware, handler, irqTable, caller, Turns,
          TypeOK, HolderAt, DescriptorOwned, MaskAt, EventAt
    <3>2. (\A u \in Threads : pc'[u] # "wait") => Quiet'
      BY <1>0, <2>2 DEF Lock, Goto, hardware, handler, irqTable, caller, Turns,
          TypeOK, HolderAt, MaskAt
    <3>3. \A u \in Threads : pc'[u] = "start" => bd'.done
      BY <1>0, <2>2 DEF Lock, Goto, hardware, handler, irqTable, caller, Turns,
          TypeOK, HolderAt
    <3>4. \A u \in Threads : pc'[u] \in {"lock", "mask", "event", "bd", "start", "wait"}
                             => ret'[u] = "none"
      BY <1>0, <2>2 DEF Lock, Goto, hardware, handler, irqTable, caller, Turns, TypeOK
    <3>5. LoadedOnSuccess'
      BY <1>0, <2>2 DEF Lock, Goto, hardware, handler, irqTable, caller, Turns,
          TypeOK, HolderAt, NoJob
    <3> QED BY <1>0, <3>1, <3>2, <3>3, <3>4, <3>5
  <2>3. CASE EventAddMask(t)
    <3>1. \A u \in Threads : pc'[u] = "wait" => InFlight(u)'
      BY <1>0, <2>3 DEF EventAddMask, Goto, hardware, handler, irqTable, caller,
          Turns, TypeOK, HolderAt, DescriptorOwned, MaskAt, EventAt
    <3>2. (\A u \in Threads : pc'[u] # "wait") => Quiet'
      BY <1>0, <2>3 DEF EventAddMask, Goto, hardware, handler, irqTable, caller,
          Turns, TypeOK, HolderAt, MaskAt
    <3>3. \A u \in Threads : pc'[u] = "start" => bd'.done
      BY <1>0, <2>3 DEF EventAddMask, Goto, hardware, handler, irqTable, caller,
          Turns, TypeOK, HolderAt
    <3>4. \A u \in Threads : pc'[u] \in {"lock", "mask", "event", "bd", "start", "wait"}
                             => ret'[u] = "none"
      BY <1>0, <2>3 DEF EventAddMask, Goto, hardware, handler, irqTable, caller,
          Turns, TypeOK
    <3>5. LoadedOnSuccess'
      BY <1>0, <2>3 DEF EventAddMask, Goto, hardware, handler, irqTable, caller,
          Turns, TypeOK, HolderAt, NoJob
    <3> QED BY <1>0, <3>1, <3>2, <3>3, <3>4, <3>5
  <2>4. CASE EventAddEvent(t)
    <3>1. \A u \in Threads : pc'[u] = "wait" => InFlight(u)'
      BY <1>0, <2>4 DEF EventAddEvent, Goto, hardware, handler, irqTable, caller,
          Turns, TypeOK, HolderAt, DescriptorOwned, MaskAt, EventAt
    <3>2. (\A u \in Threads : pc'[u] # "wait") => Quiet'
      BY <1>0, <2>4 DEF EventAddEvent, Goto, hardware, handler, irqTable, caller,
          Turns, TypeOK, HolderAt, MaskAt
    <3>3. \A u \in Threads : pc'[u] = "start" => bd'.done
      BY <1>0, <2>4 DEF EventAddEvent, Goto, hardware, handler, irqTable, caller,
          Turns, TypeOK, HolderAt
    <3>4. \A u \in Threads : pc'[u] \in {"lock", "mask", "event", "bd", "start", "wait"}
                             => ret'[u] = "none"
      BY <1>0, <2>4 DEF EventAddEvent, Goto, hardware, handler, irqTable, caller,
          Turns, TypeOK
    <3>5. LoadedOnSuccess'
      BY <1>0, <2>4 DEF EventAddEvent, Goto, hardware, handler, irqTable, caller,
          Turns, TypeOK, HolderAt, NoJob
    <3> QED BY <1>0, <3>1, <3>2, <3>3, <3>4, <3>5
  <2>5. CASE SetDescriptor(t)
    <3>1. \A u \in Threads : pc'[u] = "wait" => InFlight(u)'
      BY <1>0, <2>5 DEF SetDescriptor, Goto, hardware, handler, irqTable, caller,
          Turns, TypeOK, HolderAt, DescriptorOwned, MaskAt, EventAt
    <3>2. (\A u \in Threads : pc'[u] # "wait") => Quiet'
      BY <1>0, <2>5 DEF SetDescriptor, Goto, hardware, handler, irqTable, caller,
          Turns, TypeOK, HolderAt, MaskAt
    <3>3. \A u \in Threads : pc'[u] = "start" => bd'.done
      BY <1>0, <2>5 DEF SetDescriptor, Goto, hardware, handler, irqTable, caller,
          Turns, TypeOK, HolderAt
    <3>4. \A u \in Threads : pc'[u] \in {"lock", "mask", "event", "bd", "start", "wait"}
                             => ret'[u] = "none"
      BY <1>0, <2>5 DEF SetDescriptor, Goto, hardware, handler, irqTable, caller,
          Turns, TypeOK
    <3>5. LoadedOnSuccess'
      BY <1>0, <2>5 DEF SetDescriptor, Goto, hardware, handler, irqTable, caller,
          Turns, TypeOK, HolderAt, NoJob
    <3> QED BY <1>0, <3>1, <3>2, <3>3, <3>4, <3>5
  <2>6. CASE Start(t)
    <3>1. \A u \in Threads : pc'[u] = "wait" => InFlight(u)'
      BY <1>0, <2>6 DEF Start, Goto, hardware, handler, irqTable, caller, Turns,
          TypeOK, HolderAt, DescriptorOwned, MaskAt, EventAt
    <3>2. (\A u \in Threads : pc'[u] # "wait") => Quiet'
      BY <1>0, <2>6 DEF Start, Goto, hardware, handler, irqTable, caller, Turns,
          TypeOK, HolderAt, MaskAt
    <3>3. \A u \in Threads : pc'[u] = "start" => bd'.done
      BY <1>0, <2>6 DEF Start, Goto, hardware, handler, irqTable, caller, Turns,
          TypeOK, HolderAt
    <3>4. \A u \in Threads : pc'[u] \in {"lock", "mask", "event", "bd", "start", "wait"}
                             => ret'[u] = "none"
      BY <1>0, <2>6 DEF Start, Goto, hardware, handler, irqTable, caller, Turns, TypeOK
    <3>5. LoadedOnSuccess'
      BY <1>0, <2>6 DEF Start, Goto, hardware, handler, irqTable, caller, Turns,
          TypeOK, HolderAt, NoJob
    <3> QED BY <1>0, <3>1, <3>2, <3>3, <3>4, <3>5
  <2>7. CASE ReceivePulse(t)
    <3>1. \A u \in Threads : pc'[u] = "wait" => InFlight(u)'
      BY <1>0, <2>7 DEF ReceivePulse, Goto, hardware, handler, irqTable, caller,
          Turns, TypeOK, HolderAt, DescriptorOwned, MaskAt, EventAt
    <3>2. (\A u \in Threads : pc'[u] # "wait") => Quiet'
      BY <1>0, <2>7 DEF ReceivePulse, Goto, hardware, handler, irqTable, caller,
          Turns, TypeOK, HolderAt, MaskAt
    <3>3. \A u \in Threads : pc'[u] = "start" => bd'.done
      BY <1>0, <2>7 DEF ReceivePulse, Goto, hardware, handler, irqTable, caller,
          Turns, TypeOK, HolderAt
    <3>4. \A u \in Threads : pc'[u] \in {"lock", "mask", "event", "bd", "start", "wait"}
                             => ret'[u] = "none"
      BY <1>0, <2>7 DEF ReceivePulse, Goto, hardware, handler, irqTable, caller,
          Turns, TypeOK
    <3>5. LoadedOnSuccess'
      BY <1>0, <2>7 DEF ReceivePulse, Goto, hardware, handler, irqTable, caller,
          Turns, TypeOK, HolderAt, NoJob
    <3> QED BY <1>0, <3>1, <3>2, <3>3, <3>4, <3>5
  <2>8. CASE TimeOut(t)
    BY <2>8 DEF TimeOut
  <2>9. CASE EventRemoveMask(t)
    <3>1. \A u \in Threads : pc'[u] = "wait" => InFlight(u)'
      BY <1>0, <2>9 DEF EventRemoveMask, Goto, hardware, handler, irqTable, caller,
          Turns, TypeOK, HolderAt, DescriptorOwned, MaskAt, EventAt
    <3>2. (\A u \in Threads : pc'[u] # "wait") => Quiet'
      BY <1>0, <2>9 DEF EventRemoveMask, Goto, hardware, handler, irqTable, caller,
          Turns, TypeOK, HolderAt, MaskAt
    <3>3. \A u \in Threads : pc'[u] = "start" => bd'.done
      BY <1>0, <2>9 DEF EventRemoveMask, Goto, hardware, handler, irqTable, caller,
          Turns, TypeOK, HolderAt
    <3>4. \A u \in Threads : pc'[u] \in {"lock", "mask", "event", "bd", "start", "wait"}
                             => ret'[u] = "none"
      BY <1>0, <2>9 DEF EventRemoveMask, Goto, hardware, handler, irqTable, caller,
          Turns, TypeOK
    <3>5. LoadedOnSuccess'
      BY <1>0, <2>9 DEF EventRemoveMask, Goto, hardware, handler, irqTable, caller,
          Turns, TypeOK, HolderAt, NoJob
    <3> QED BY <1>0, <3>1, <3>2, <3>3, <3>4, <3>5
  <2>10. CASE EventRemoveEvent(t)
    <3>1. \A u \in Threads : pc'[u] = "wait" => InFlight(u)'
      BY <1>0, <2>10 DEF EventRemoveEvent, Goto, hardware, handler, irqTable, caller,
          Turns, TypeOK, HolderAt, DescriptorOwned, MaskAt, EventAt
    <3>2. (\A u \in Threads : pc'[u] # "wait") => Quiet'
      BY <1>0, <2>10 DEF EventRemoveEvent, Goto, hardware, handler, irqTable, caller,
          Turns, TypeOK, HolderAt, MaskAt
    <3>3. \A u \in Threads : pc'[u] = "start" => bd'.done
      BY <1>0, <2>10 DEF EventRemoveEvent, Goto, hardware, handler, irqTable, caller,
          Turns, TypeOK, HolderAt
    <3>4. \A u \in Threads : pc'[u] \in {"lock", "mask", "event", "bd", "start", "wait"}
                             => ret'[u] = "none"
      BY <1>0, <2>10 DEF EventRemoveEvent, Goto, hardware, handler, irqTable, caller,
          Turns, TypeOK
    <3>5. LoadedOnSuccess'
      BY <1>0, <2>10 DEF EventRemoveEvent, Goto, hardware, handler, irqTable, caller,
          Turns, TypeOK, HolderAt, NoJob
    <3> QED BY <1>0, <3>1, <3>2, <3>3, <3>4, <3>5
  <2>11. CASE Unlock(t)
    <3>1. \A u \in Threads : pc'[u] = "wait" => InFlight(u)'
      BY <1>0, <2>11 DEF Unlock, Goto, hardware, handler, irqTable, caller, Turns,
          TypeOK, HolderAt, DescriptorOwned, MaskAt, EventAt
    <3>2. (\A u \in Threads : pc'[u] # "wait") => Quiet'
      BY <1>0, <2>11 DEF Unlock, Goto, hardware, handler, irqTable, caller, Turns,
          TypeOK, HolderAt, MaskAt
    <3>3. \A u \in Threads : pc'[u] = "start" => bd'.done
      BY <1>0, <2>11 DEF Unlock, Goto, hardware, handler, irqTable, caller, Turns,
          TypeOK, HolderAt
    <3>4. \A u \in Threads : pc'[u] \in {"lock", "mask", "event", "bd", "start", "wait"}
                             => ret'[u] = "none"
      BY <1>0, <2>11 DEF Unlock, Goto, hardware, handler, irqTable, caller, Turns, TypeOK
    <3>5. LoadedOnSuccess'
      BY <1>0, <2>11 DEF Unlock, Goto, hardware, handler, irqTable, caller, Turns,
          TypeOK, HolderAt, NoJob
    <3> QED BY <1>0, <3>1, <3>2, <3>3, <3>4, <3>5
  <2> QED BY <1>t, <2>1, <2>2, <2>3, <2>4, <2>5, <2>6, <2>7, <2>8, <2>9,
      <2>10, <2>11 DEF ThreadStep
<1>p. ASSUME NEW P \in Procs, Isr(P) PROVE InTime'
  <2>0. CASE IsrRead(P)
    <3>1. \A u \in Threads : pc'[u] = "wait" => InFlight(u)'
      BY <1>0, <2>0 DEF IsrRead, Goto, hardware, handler, irqTable, caller, Turns,
          TypeOK, HolderAt, DescriptorOwned, MaskAt, EventAt
    <3>2. (\A u \in Threads : pc'[u] # "wait") => Quiet'
      BY <1>0, <2>0 DEF IsrRead, Goto, hardware, handler, irqTable, caller, Turns,
          TypeOK, HolderAt, MaskAt
    <3>3. \A u \in Threads : pc'[u] = "start" => bd'.done
      BY <1>0, <2>0 DEF IsrRead, Goto, hardware, handler, irqTable, caller, Turns,
          TypeOK, HolderAt
    <3>4. \A u \in Threads : pc'[u] \in {"lock", "mask", "event", "bd", "start", "wait"}
                             => ret'[u] = "none"
      BY <1>0, <2>0 DEF IsrRead, Goto, hardware, handler, irqTable, caller, Turns, TypeOK
    <3>5. LoadedOnSuccess'
      BY <1>0, <2>0 DEF IsrRead, Goto, hardware, handler, irqTable, caller, Turns,
          TypeOK, HolderAt, NoJob
    <3> QED BY <1>0, <3>1, <3>2, <3>3, <3>4, <3>5
  <2>1. CASE IsrTake(P)
    <3>1. \A u \in Threads : pc'[u] = "wait" => InFlight(u)'
      BY <1>0, <2>1 DEF IsrTake, Goto, hardware, handler, irqTable, caller, Turns,
          TypeOK, HolderAt, DescriptorOwned, MaskAt, EventAt
    <3>2. (\A u \in Threads : pc'[u] # "wait") => Quiet'
      BY <1>0, <2>1 DEF IsrTake, Goto, hardware, handler, irqTable, caller, Turns,
          TypeOK, HolderAt, MaskAt
    <3>3. \A u \in Threads : pc'[u] = "start" => bd'.done
      BY <1>0, <2>1 DEF IsrTake, Goto, hardware, handler, irqTable, caller, Turns,
          TypeOK, HolderAt
    <3>4. \A u \in Threads : pc'[u] \in {"lock", "mask", "event", "bd", "start", "wait"}
                             => ret'[u] = "none"
      BY <1>0, <2>1 DEF IsrTake, Goto, hardware, handler, irqTable, caller, Turns, TypeOK
    <3>5. LoadedOnSuccess'
      BY <1>0, <2>1 DEF IsrTake, Goto, hardware, handler, irqTable, caller, Turns,
          TypeOK, HolderAt, NoJob
    <3> QED BY <1>0, <3>1, <3>2, <3>3, <3>4, <3>5
  <2>2. CASE IsrReturn(P)
    <3>1. \A u \in Threads : pc'[u] = "wait" => InFlight(u)'
      BY <1>0, <2>2 DEF IsrReturn, Goto, hardware, handler, irqTable, caller, Turns,
          TypeOK, HolderAt, DescriptorOwned, MaskAt, EventAt
    <3>2. (\A u \in Threads : pc'[u] # "wait") => Quiet'
      BY <1>0, <2>2 DEF IsrReturn, Goto, hardware, handler, irqTable, caller, Turns,
          TypeOK, HolderAt, MaskAt
    <3>3. \A u \in Threads : pc'[u] = "start" => bd'.done
      BY <1>0, <2>2 DEF IsrReturn, Goto, hardware, handler, irqTable, caller, Turns,
          TypeOK, HolderAt
    <3>4. \A u \in Threads : pc'[u] \in {"lock", "mask", "event", "bd", "start", "wait"}
                             => ret'[u] = "none"
      BY <1>0, <2>2 DEF IsrReturn, Goto, hardware, handler, irqTable, caller, Turns,
          TypeOK
    <3>5. LoadedOnSuccess'
      BY <1>0, <2>2 DEF IsrReturn, Goto, hardware, handler, irqTable, caller, Turns,
          TypeOK, HolderAt, NoJob
    <3> QED BY <1>0, <3>1, <3>2, <3>3, <3>4, <3>5
  <2> QED BY <1>p, <2>0, <2>1, <2>2 DEF Isr
<1>e. ASSUME Engine PROVE InTime'
  <2>1. CASE EngineFetch
    <3>1. \A u \in Threads : pc'[u] = "wait" => InFlight(u)'
      BY <1>0, <2>1 DEF EngineFetch, Goto, hardware, handler, irqTable, caller,
          Turns, TypeOK, HolderAt, DescriptorOwned, MaskAt, EventAt
    <3>2. (\A u \in Threads : pc'[u] # "wait") => Quiet'
      BY <1>0, <2>1 DEF EngineFetch, Goto, hardware, handler, irqTable, caller,
          Turns, TypeOK, HolderAt, MaskAt
    <3>3. \A u \in Threads : pc'[u] = "start" => bd'.done
      BY <1>0, <2>1 DEF EngineFetch, Goto, hardware, handler, irqTable, caller,
          Turns, TypeOK, HolderAt
    <3>4. \A u \in Threads : pc'[u] \in {"lock", "mask", "event", "bd", "start", "wait"}
                             => ret'[u] = "none"
      BY <1>0, <2>1 DEF EngineFetch, Goto, hardware, handler, irqTable, caller,
          Turns, TypeOK
    <3>5. LoadedOnSuccess'
      BY <1>0, <2>1 DEF EngineFetch, Goto, hardware, handler, irqTable, caller,
          Turns, TypeOK, HolderAt, NoJob
    <3> QED BY <1>0, <3>1, <3>2, <3>3, <3>4, <3>5
  <2>2. CASE EngineDone
    <3>1. \A u \in Threads : pc'[u] = "wait" => InFlight(u)'
      BY <1>0, <2>2 DEF EngineDone, Goto, hardware, handler, irqTable, caller, Turns,
          TypeOK, HolderAt, DescriptorOwned, MaskAt, EventAt
    <3>2. (\A u \in Threads : pc'[u] # "wait") => Quiet'
      BY <1>0, <2>2 DEF EngineDone, Goto, hardware, handler, irqTable, caller, Turns,
          TypeOK, HolderAt, MaskAt
    <3>3. \A u \in Threads : pc'[u] = "start" => bd'.done
      BY <1>0, <2>2 DEF EngineDone, Goto, hardware, handler, irqTable, caller, Turns,
          TypeOK, HolderAt
    <3>4. \A u \in Threads : pc'[u] \in {"lock", "mask", "event", "bd", "start", "wait"}
                             => ret'[u] = "none"
      BY <1>0, <2>2 DEF EngineDone, Goto, hardware, handler, irqTable, caller, Turns,
          TypeOK
    <3>5. LoadedOnSuccess'
      BY <1>0, <2>2 DEF EngineDone, Goto, hardware, handler, irqTable, caller, Turns,
          TypeOK, HolderAt, NoJob
    <3> QED BY <1>0, <3>1, <3>2, <3>3, <3>4, <3>5
  <2> QED BY <1>e, <2>1, <2>2 DEF Engine
<1> QED BY <1>u, <1>t, <1>p, <1>e DEF Next

(* As long as no wait has timed out, a call that returns 0 has had its own *)
(* context loaded.                                                         *)
THEOREM LoadCorrect == Spec => []LoadedInTime
<1>1. Turns /\ [Next]_vars => Turns' BY NextTurns
<1>2. Turns /\ (~expired => InTime) /\ [Next]_vars => (~expired' => InTime')
  <2>1. Turns /\ [Next]_vars /\ expired => expired'
    BY DEF Next, vars, Call, ThreadStep, TimeOut, Lock, EventAddMask,
        EventAddEvent, SetDescriptor, Start, ReceivePulse, EventRemoveMask,
        EventRemoveEvent, Unlock, Isr, IsrRead, IsrTake, IsrReturn, Engine, EngineFetch,
        EngineDone
  <2> QED BY <2>1, NextInTime
<1>3. Init => Turns /\ (~expired => InTime) BY InitTurns, InitInTime
<1>4. (~expired => InTime) => LoadedInTime BY DEF InTime, LoadedInTime
<1> QED BY <1>1, <1>2, <1>3, <1>4, PTL DEF Spec
=============================================================================
