------------------------ MODULE SdmaChannelProofs -------------------------
(***************************************************************************)
(* Proofs about the channels of the SDMA library: SdmaRegs, for any        *)
(* clients and channels, and SdmaXfer, for any number of fragments and     *)
(* setups.                                                                 *)
(***************************************************************************)
EXTENDS SdmaRegs, SdmaXfer, TLAPS

(* No driver holds a channel initially.                                    *)
LEMMA InitIInv == Init => IInv
<1> SUFFICES ASSUME Init PROVE IInv OBVIOUS
<1> USE NoneAssumption, EventsAssumption DEF Init
<1>1. TypeOK BY DEF TypeOK, PCs, Ops
<1>2. OpAt /\ RegMutexAt /\ HostSnapshot BY DEF OpAt, RegMutexAt, Locked, HostSnapshot
<1>3. ChannelsExclusive BY DEF ChannelsExclusive
<1>4. \A c \in Clients : HostBit(c) BY DEF HostBit
<1> QED BY <1>1, <1>2, <1>3, <1>4 DEF IInv

(* Every step of a driver preserves the invariant for all drivers, unless  *)
(* it gives back the channel of another.                                   *)
LEMMA NextIInv == ASSUME IInv, ~misread', [Next]_vars PROVE IInv'
<1> USE NoneAssumption, EventsAssumption DEF IInv, Procs
<1>u. CASE UNCHANGED vars
  BY <1>u DEF vars, TypeOK, OpAt, RegMutexAt, Locked, HostSnapshot,
      ChannelsExclusive, HostBit
<1>n. ASSUME NEW c \in Clients,
             AttachReserve(c) \/ XferCall(c) \/ Release(c) \/ Step(c)
      PROVE  IInv'
  <2>1. CASE AttachReserve(c)
    <3>1. TypeOK'
      BY <2>1 DEF AttachReserve, Goto, registers, config, freed, TypeOK, PCs, Ops, OpAt
    <3>2. OpAt'
      BY <2>1 DEF AttachReserve, Goto, registers, config, freed, OpAt, TypeOK
    <3>3. RegMutexAt'
      BY <2>1 DEF AttachReserve, Goto, registers, config, freed, RegMutexAt,
          Locked, OpAt, TypeOK
    <3>4. HostSnapshot'
      BY <2>1 DEF AttachReserve, Goto, registers, config, freed, HostSnapshot,
          RegMutexAt, Locked, TypeOK
    <3>5. ChannelsExclusive'
      BY <2>1 DEF AttachReserve, Goto, registers, config, freed, ChannelsExclusive,
          TypeOK
    <3>6. \A d \in Clients : HostBit(d)'
      BY <2>1 DEF AttachReserve, Goto, registers, config, freed, HostBit,
          HostSnapshot, OpAt, ChannelsExclusive, TypeOK
    <3>7. \A ch \in hostovr' : \E d \in Clients : chan'[d] = ch
      BY <2>1 DEF AttachReserve, Goto, registers, config, freed, HostSnapshot,
          HostBit, OpAt, TypeOK
    <3> QED BY <3>1, <3>2, <3>3, <3>4, <3>5, <3>6, <3>7
  <2>2. CASE XferCall(c)
    <3>1. TypeOK'
      BY <2>2 DEF XferCall, Goto, registers, config, freed, TypeOK, PCs, Ops, OpAt
    <3>2. OpAt'
      BY <2>2 DEF XferCall, Goto, registers, config, freed, OpAt, TypeOK
    <3>3. RegMutexAt'
      BY <2>2 DEF XferCall, Goto, registers, config, freed, RegMutexAt, Locked,
          OpAt, TypeOK
    <3>4. HostSnapshot'
      BY <2>2 DEF XferCall, Goto, registers, config, freed, HostSnapshot,
          RegMutexAt, Locked, TypeOK
    <3>5. ChannelsExclusive'
      BY <2>2 DEF XferCall, Goto, registers, config, freed, ChannelsExclusive, TypeOK
    <3>6. \A d \in Clients : HostBit(d)'
      BY <2>2 DEF XferCall, Goto, registers, config, freed, HostBit, HostSnapshot,
          OpAt, ChannelsExclusive, TypeOK
    <3>7. \A ch \in hostovr' : \E d \in Clients : chan'[d] = ch
      BY <2>2 DEF XferCall, Goto, registers, config, freed, HostSnapshot, HostBit,
          OpAt, TypeOK
    <3> QED BY <3>1, <3>2, <3>3, <3>4, <3>5, <3>6, <3>7
  <2>3. CASE Release(c)
    <3>1. TypeOK'
      BY <2>3 DEF Release, Goto, registers, config, freed, TypeOK, PCs, Ops, OpAt
    <3>2. OpAt'
      BY <2>3 DEF Release, Goto, registers, config, freed, OpAt, TypeOK
    <3>3. RegMutexAt'
      BY <2>3 DEF Release, Goto, registers, config, freed, RegMutexAt, Locked,
          OpAt, TypeOK
    <3>4. HostSnapshot'
      BY <2>3 DEF Release, Goto, registers, config, freed, HostSnapshot,
          RegMutexAt, Locked, TypeOK
    <3>5. ChannelsExclusive'
      BY <2>3 DEF Release, Goto, registers, config, freed, ChannelsExclusive, TypeOK
    <3>6. \A d \in Clients : HostBit(d)'
      BY <2>3 DEF Release, Goto, registers, config, freed, HostBit, HostSnapshot,
          OpAt, ChannelsExclusive, TypeOK
    <3>7. \A ch \in hostovr' : \E d \in Clients : chan'[d] = ch
      BY <2>3 DEF Release, Goto, registers, config, freed, HostSnapshot, HostBit,
          OpAt, TypeOK
    <3> QED BY <3>1, <3>2, <3>3, <3>4, <3>5, <3>6, <3>7
  <2>4. CASE AttachNoMemory(c)
    <3>1. TypeOK'
      BY <2>4 DEF AttachNoMemory, Goto, registers, config, freed, TypeOK, PCs, Ops,
          OpAt
    <3>2. OpAt'
      BY <2>4 DEF AttachNoMemory, Goto, registers, config, freed, OpAt, TypeOK
    <3>3. RegMutexAt'
      BY <2>4 DEF AttachNoMemory, Goto, registers, config, freed, RegMutexAt,
          Locked, OpAt, TypeOK
    <3>4. HostSnapshot'
      BY <2>4 DEF AttachNoMemory, Goto, registers, config, freed, HostSnapshot,
          RegMutexAt, Locked, TypeOK
    <3>5. ChannelsExclusive'
      BY <2>4 DEF AttachNoMemory, Goto, registers, config, freed,
          ChannelsExclusive, TypeOK
    <3>6. \A d \in Clients : HostBit(d)'
      BY <2>4 DEF AttachNoMemory, Goto, registers, config, freed, HostBit,
          HostSnapshot, OpAt, ChannelsExclusive, TypeOK
    <3>7. \A ch \in hostovr' : \E d \in Clients : chan'[d] = ch
      BY <2>4 DEF AttachNoMemory, Goto, registers, config, freed, HostSnapshot,
          HostBit, OpAt, TypeOK
    <3> QED BY <3>1, <3>2, <3>3, <3>4, <3>5, <3>6, <3>7
  <2>5. CASE AttachFail(c)
    <3>1. TypeOK'
      BY <2>5 DEF AttachFail, Goto, registers, config, freed, TypeOK, PCs,
          Ops, OpAt
    <3>2. OpAt'
      BY <2>5 DEF AttachFail, Goto, registers, config, freed, OpAt, TypeOK
    <3>3. RegMutexAt'
      BY <2>5 DEF AttachFail, Goto, registers, config, freed, RegMutexAt,
          Locked, OpAt, TypeOK
    <3>4. HostSnapshot'
      BY <2>5 DEF AttachFail, Goto, registers, config, freed, HostSnapshot,
          RegMutexAt, Locked, TypeOK
    <3>5. ChannelsExclusive'
      BY <2>5 DEF AttachFail, Goto, registers, config, freed,
          ChannelsExclusive, TypeOK
    <3>6. \A d \in Clients : HostBit(d)'
      BY <2>5 DEF AttachFail, Goto, registers, config, freed, HostBit,
          HostSnapshot, OpAt, ChannelsExclusive, TypeOK
    <3>7. \A ch \in hostovr' : \E d \in Clients : chan'[d] = ch
      BY <2>5 DEF AttachFail, Goto, registers, config, freed, HostSnapshot,
          HostBit, OpAt, TypeOK
    <3> QED BY <3>1, <3>2, <3>3, <3>4, <3>5, <3>6, <3>7
  <2>6. CASE AttachConfig(c)
    <3>1. TypeOK'
      <4>2. driven' \in [Clients -> BOOLEAN]
        <5>1. driven' = driven \/ driven' = [driven EXCEPT ![c] = TRUE]
          BY <2>6 DEF AttachConfig
        <5> QED BY <5>1, Zenon DEF TypeOK
      <4>3. event' \in [Clients -> Events]
        BY <2>6 DEF AttachConfig, TypeOK
      <4>4. pc' \in [Clients -> PCs] /\ op' \in [Clients -> Ops]
        BY <2>6 DEF AttachConfig, Goto, TypeOK, PCs, Ops
      <4> QED BY <2>6, <4>2, <4>3, <4>4 DEF AttachConfig, registers, freed, TypeOK
    <3>2. OpAt'
      BY <2>6 DEF AttachConfig, Goto, registers, config, freed, OpAt, TypeOK
    <3>3. RegMutexAt'
      BY <2>6 DEF AttachConfig, Goto, registers, config, freed,
          RegMutexAt, Locked, OpAt, TypeOK
    <3>4. HostSnapshot'
      BY <2>6 DEF AttachConfig, Goto, registers, config, freed,
          HostSnapshot, RegMutexAt, Locked, TypeOK
    <3>5. ChannelsExclusive'
      BY <2>6 DEF AttachConfig, Goto, registers, config, freed,
          ChannelsExclusive, TypeOK
    <3>6. \A d \in Clients : HostBit(d)'
      BY <2>6 DEF AttachConfig, Goto, registers, config, freed, HostBit,
          HostSnapshot, OpAt, ChannelsExclusive, TypeOK
    <3>7. \A ch \in hostovr' : \E d \in Clients : chan'[d] = ch
      BY <2>6 DEF AttachConfig, Goto, registers, config, freed,
          HostSnapshot, HostBit, OpAt, TypeOK
    <3> QED BY <3>1, <3>2, <3>3, <3>4, <3>5, <3>6, <3>7
  <2>7. CASE EvtovrRead(c)
    <3>1. TypeOK'
      BY <2>7 DEF EvtovrRead, Goto, registers, config, freed, TypeOK, PCs, Ops, OpAt
    <3>2. OpAt'
      BY <2>7 DEF EvtovrRead, Goto, registers, config, freed, OpAt, TypeOK
    <3>3. RegMutexAt'
      BY <2>7 DEF EvtovrRead, Goto, registers, config, freed, RegMutexAt, Locked,
          OpAt, TypeOK
    <3>4. HostSnapshot'
      BY <2>7 DEF EvtovrRead, Goto, registers, config, freed, HostSnapshot,
          RegMutexAt, Locked, TypeOK
    <3>5. ChannelsExclusive'
      BY <2>7 DEF EvtovrRead, Goto, registers, config, freed, ChannelsExclusive, TypeOK
    <3>6. \A d \in Clients : HostBit(d)'
      BY <2>7 DEF EvtovrRead, Goto, registers, config, freed, HostBit,
          HostSnapshot, OpAt, ChannelsExclusive, TypeOK
    <3>7. \A ch \in hostovr' : \E d \in Clients : chan'[d] = ch
      BY <2>7 DEF EvtovrRead, Goto, registers, config, freed, HostSnapshot,
          HostBit, OpAt, TypeOK
    <3> QED BY <3>1, <3>2, <3>3, <3>4, <3>5, <3>6, <3>7
  <2>8. CASE EvtovrWrite(c)
    <3>1. TypeOK'
      BY <2>8 DEF EvtovrWrite, Goto, registers, config, freed, TypeOK, PCs, Ops, OpAt
    <3>2. OpAt'
      BY <2>8 DEF EvtovrWrite, Goto, registers, config, freed, OpAt, TypeOK
    <3>3. RegMutexAt'
      BY <2>8 DEF EvtovrWrite, Goto, registers, config, freed, RegMutexAt, Locked,
          OpAt, TypeOK
    <3>4. HostSnapshot'
      BY <2>8 DEF EvtovrWrite, Goto, registers, config, freed, HostSnapshot,
          RegMutexAt, Locked, TypeOK
    <3>5. ChannelsExclusive'
      BY <2>8 DEF EvtovrWrite, Goto, registers, config, freed, ChannelsExclusive,
          TypeOK
    <3>6. \A d \in Clients : HostBit(d)'
      BY <2>8 DEF EvtovrWrite, Goto, registers, config, freed, HostBit,
          HostSnapshot, OpAt, ChannelsExclusive, TypeOK
    <3>7. \A ch \in hostovr' : \E d \in Clients : chan'[d] = ch
      BY <2>8 DEF EvtovrWrite, Goto, registers, config, freed, HostSnapshot,
          HostBit, OpAt, TypeOK
    <3> QED BY <3>1, <3>2, <3>3, <3>4, <3>5, <3>6, <3>7
  <2>9. CASE ChnenblRead(c)
    <3>1. TypeOK'
      BY <2>9 DEF ChnenblRead, Goto, registers, config, freed, TypeOK, PCs, Ops, OpAt
    <3>2. OpAt'
      BY <2>9 DEF ChnenblRead, Goto, registers, config, freed, OpAt, TypeOK
    <3>3. RegMutexAt'
      BY <2>9 DEF ChnenblRead, Goto, registers, config, freed, RegMutexAt, Locked,
          OpAt, TypeOK
    <3>4. HostSnapshot'
      BY <2>9 DEF ChnenblRead, Goto, registers, config, freed, HostSnapshot,
          RegMutexAt, Locked, TypeOK
    <3>5. ChannelsExclusive'
      BY <2>9 DEF ChnenblRead, Goto, registers, config, freed, ChannelsExclusive,
          TypeOK
    <3>6. \A d \in Clients : HostBit(d)'
      BY <2>9 DEF ChnenblRead, Goto, registers, config, freed, HostBit,
          HostSnapshot, OpAt, ChannelsExclusive, TypeOK
    <3>7. \A ch \in hostovr' : \E d \in Clients : chan'[d] = ch
      BY <2>9 DEF ChnenblRead, Goto, registers, config, freed, HostSnapshot,
          HostBit, OpAt, TypeOK
    <3> QED BY <3>1, <3>2, <3>3, <3>4, <3>5, <3>6, <3>7
  <2>10. CASE ChnenblWrite(c)
    <3>1. TypeOK'
      BY <2>10 DEF ChnenblWrite, Goto, registers, config, freed, TypeOK, PCs, Ops, OpAt
    <3>2. OpAt'
      BY <2>10 DEF ChnenblWrite, Goto, registers, config, freed, OpAt, TypeOK
    <3>3. RegMutexAt'
      BY <2>10 DEF ChnenblWrite, Goto, registers, config, freed, RegMutexAt,
          Locked, OpAt, TypeOK
    <3>4. HostSnapshot'
      BY <2>10 DEF ChnenblWrite, Goto, registers, config, freed, HostSnapshot,
          RegMutexAt, Locked, TypeOK
    <3>5. ChannelsExclusive'
      BY <2>10 DEF ChnenblWrite, Goto, registers, config, freed, ChannelsExclusive,
          TypeOK
    <3>6. \A d \in Clients : HostBit(d)'
      BY <2>10 DEF ChnenblWrite, Goto, registers, config, freed, HostBit,
          HostSnapshot, OpAt, ChannelsExclusive, TypeOK
    <3>7. \A ch \in hostovr' : \E d \in Clients : chan'[d] = ch
      BY <2>10 DEF ChnenblWrite, Goto, registers, config, freed, HostSnapshot,
          HostBit, OpAt, TypeOK
    <3> QED BY <3>1, <3>2, <3>3, <3>4, <3>5, <3>6, <3>7
  <2>11. CASE HostovrRead(c)
    <3>1. TypeOK'
      BY <2>11 DEF HostovrRead, Goto, registers, config, freed, TypeOK, PCs, Ops, OpAt
    <3>2. OpAt'
      BY <2>11 DEF HostovrRead, Goto, registers, config, freed, OpAt, TypeOK
    <3>3. RegMutexAt'
      BY <2>11 DEF HostovrRead, Goto, registers, config, freed, RegMutexAt, Locked,
          OpAt, TypeOK
    <3>4. HostSnapshot'
      BY <2>11 DEF HostovrRead, Goto, registers, config, freed, HostSnapshot,
          RegMutexAt, Locked, TypeOK
    <3>5. ChannelsExclusive'
      BY <2>11 DEF HostovrRead, Goto, registers, config, freed, ChannelsExclusive,
          TypeOK
    <3>6. \A d \in Clients : HostBit(d)'
      BY <2>11 DEF HostovrRead, Goto, registers, config, freed, HostBit,
          HostSnapshot, OpAt, ChannelsExclusive, TypeOK
    <3>7. \A ch \in hostovr' : \E d \in Clients : chan'[d] = ch
      BY <2>11 DEF HostovrRead, Goto, registers, config, freed, HostSnapshot,
          HostBit, OpAt, TypeOK
    <3> QED BY <3>1, <3>2, <3>3, <3>4, <3>5, <3>6, <3>7
  <2>12. CASE HostovrWrite(c)
    <3>1. TypeOK'
      BY <2>12 DEF HostovrWrite, Goto, registers, config, freed, TypeOK, PCs, Ops, OpAt
    <3>2. OpAt'
      BY <2>12 DEF HostovrWrite, Goto, registers, config, freed, OpAt, TypeOK
    <3>3. RegMutexAt'
      BY <2>12 DEF HostovrWrite, Goto, registers, config, freed, RegMutexAt,
          Locked, OpAt, TypeOK
    <3>4. HostSnapshot'
      BY <2>12 DEF HostovrWrite, Goto, registers, config, freed, HostSnapshot,
          RegMutexAt, Locked, TypeOK
    <3>5. ChannelsExclusive'
      BY <2>12 DEF HostovrWrite, Goto, registers, config, freed, ChannelsExclusive,
          TypeOK
    <3>6. \A d \in Clients : HostBit(d)'
      BY <2>12 DEF HostovrWrite, Goto, registers, config, freed, HostBit,
          HostSnapshot, OpAt, ChannelsExclusive, TypeOK
    <3>7. \A ch \in hostovr' : \E d \in Clients : chan'[d] = ch
      BY <2>12 DEF HostovrWrite, Goto, registers, config, freed, HostSnapshot,
          HostBit, OpAt, TypeOK
    <3> QED BY <3>1, <3>2, <3>3, <3>4, <3>5, <3>6, <3>7
  <2>13. CASE Lock(c)
    <3>1. TypeOK'
      BY <2>13 DEF Lock, Goto, registers, config, freed, TypeOK, PCs, Ops, OpAt
    <3>2. OpAt'
      BY <2>13 DEF Lock, Goto, registers, config, freed, OpAt, TypeOK
    <3>3. RegMutexAt'
      BY <2>13 DEF Lock, Goto, registers, config, freed, RegMutexAt, Locked, OpAt,
          TypeOK
    <3>4. HostSnapshot'
      BY <2>13 DEF Lock, Goto, registers, config, freed, HostSnapshot, RegMutexAt,
          Locked, TypeOK
    <3>5. ChannelsExclusive'
      BY <2>13 DEF Lock, Goto, registers, config, freed, ChannelsExclusive, TypeOK
    <3>6. \A d \in Clients : HostBit(d)'
      BY <2>13 DEF Lock, Goto, registers, config, freed, HostBit, HostSnapshot,
          OpAt, ChannelsExclusive, TypeOK
    <3>7. \A ch \in hostovr' : \E d \in Clients : chan'[d] = ch
      BY <2>13 DEF Lock, Goto, registers, config, freed, HostSnapshot, HostBit,
          OpAt, TypeOK
    <3> QED BY <3>1, <3>2, <3>3, <3>4, <3>5, <3>6, <3>7
  <2>14. CASE Unlock(c)
    <3>1. TypeOK'
      BY <2>14 DEF Unlock, Goto, registers, config, freed, TypeOK, PCs, Ops, OpAt
    <3>2. OpAt'
      BY <2>14 DEF Unlock, Goto, registers, config, freed, OpAt, TypeOK
    <3>3. RegMutexAt'
      BY <2>14 DEF Unlock, Goto, registers, config, freed, RegMutexAt, Locked,
          OpAt, TypeOK
    <3>4. HostSnapshot'
      BY <2>14 DEF Unlock, Goto, registers, config, freed, HostSnapshot,
          RegMutexAt, Locked, TypeOK
    <3>5. ChannelsExclusive'
      BY <2>14 DEF Unlock, Goto, registers, config, freed, ChannelsExclusive, TypeOK
    <3>6. \A d \in Clients : HostBit(d)'
      <4>1. \A d \in Clients \ {c} :
              /\ pc'[d] = pc[d] /\ op'[d] = op[d] /\ started'[d] = started[d]
              /\ chan'[d] = chan[d] /\ hostovr' = hostovr
        BY <2>14 DEF Unlock, Goto, registers, config, freed, TypeOK
      <4>2. \A d \in Clients \ {c} : HostBit(d)'
        BY <4>1 DEF HostBit
      <4>3. CASE op[c] = "start"
        <5>1. started'[c] = TRUE /\ pc'[c] = "attached" /\ op'[c] = "none"
          BY <2>14, <4>3 DEF Unlock, Goto, TypeOK
        <5>2. chan'[c] \in hostovr'
          BY <2>14, <4>3 DEF Unlock, registers, config, freed, HostBit
        <5> QED BY <4>2, <5>1, <5>2 DEF HostBit
      <4>4. CASE op[c] # "start"
        <5>1. started'[c] = FALSE /\ pc'[c] \in {"attached", "destroy"}
          BY <2>14, <4>4 DEF Unlock, Goto, TypeOK
        <5>2. chan'[c] \notin hostovr'
          BY <2>14, <4>4 DEF Unlock, registers, config, freed, HostBit
        <5> QED BY <4>2, <5>1, <5>2 DEF HostBit
      <4> QED BY <4>3, <4>4
    <3>7. \A ch \in hostovr' : \E d \in Clients : chan'[d] = ch
      BY <2>14 DEF Unlock, Goto, registers, config, freed, HostSnapshot, HostBit,
          OpAt, TypeOK
    <3> QED BY <3>1, <3>2, <3>3, <3>4, <3>5, <3>6, <3>7
  <2>15. CASE Destroy(c)
    <3>1. TypeOK'
      BY <2>15 DEF Destroy, Goto, registers, config, freed, TypeOK, PCs,
          Ops, OpAt
    <3>2. OpAt'
      BY <2>15 DEF Destroy, Goto, registers, config, freed, OpAt, TypeOK
    <3>3. RegMutexAt'
      BY <2>15 DEF Destroy, Goto, registers, config, freed, RegMutexAt,
          Locked, OpAt, TypeOK
    <3>4. HostSnapshot'
      BY <2>15 DEF Destroy, Goto, registers, config, freed, HostSnapshot,
          RegMutexAt, Locked, TypeOK
    <3>5. ChannelsExclusive'
      BY <2>15 DEF Destroy, Goto, registers, config, freed,
          ChannelsExclusive, TypeOK
    <3>6. \A d \in Clients : HostBit(d)'
      BY <2>15 DEF Destroy, Goto, registers, config, freed, HostBit,
          HostSnapshot, OpAt, ChannelsExclusive, TypeOK
    <3>7. \A ch \in hostovr' : \E d \in Clients : chan'[d] = ch
      BY <2>15 DEF Destroy, Goto, registers, config, freed, HostSnapshot,
          HostBit, OpAt, TypeOK
    <3> QED BY <3>1, <3>2, <3>3, <3>4, <3>5, <3>6, <3>7
  <2>16. CASE AttachCreate(c)
    <3>1. TypeOK'
      BY <2>16 DEF AttachCreate, Goto, registers, config, freed, TypeOK, PCs,
          Ops, OpAt
    <3>2. OpAt'
      BY <2>16 DEF AttachCreate, Goto, registers, config, freed, OpAt, TypeOK
    <3>3. RegMutexAt'
      BY <2>16 DEF AttachCreate, Goto, registers, config, freed, RegMutexAt,
          Locked, OpAt, TypeOK
    <3>4. HostSnapshot'
      BY <2>16 DEF AttachCreate, Goto, registers, config, freed, HostSnapshot,
          RegMutexAt, Locked, TypeOK
    <3>5. ChannelsExclusive'
      BY <2>16 DEF AttachCreate, Goto, registers, config, freed,
          ChannelsExclusive, TypeOK
    <3>6. \A d \in Clients : HostBit(d)'
      BY <2>16 DEF AttachCreate, Goto, registers, config, freed, HostBit,
          HostSnapshot, OpAt, ChannelsExclusive, TypeOK
    <3>7. \A ch \in hostovr' : \E d \in Clients : chan'[d] = ch
      BY <2>16 DEF AttachCreate, Goto, registers, config, freed, HostSnapshot,
          HostBit, OpAt, TypeOK
    <3> QED BY <3>1, <3>2, <3>3, <3>4, <3>5, <3>6, <3>7
  <2>17. CASE Detach(c)
    <3>0. /\ rsrcdb' \in [Channels -> Procs \cup {None}]
          /\ rsrcdb' = rsrcdb \/ rsrcdb' = [rsrcdb EXCEPT ![chan[c]] = None]
      <4>1. PICK num \in {None, chan[c]} \cup stale[c] :
              IF num # None /\ rsrcdb[num] = Home[c]
                THEN /\ rsrcdb' = [rsrcdb EXCEPT ![num] = None]
                     /\ misread' = (misread \/ num # chan[c])
                ELSE UNCHANGED <<rsrcdb, misread>>
        BY <2>17 DEF Detach
      <4>2. CASE num # None /\ rsrcdb[num] = Home[c]
        <5>1. num = chan[c] BY <4>1, <4>2
        <5> QED BY <4>1, <4>2, <5>1 DEF TypeOK
      <4>3. CASE ~(num # None /\ rsrcdb[num] = Home[c])
        BY <4>1, <4>3 DEF TypeOK
      <4> QED BY <4>2, <4>3
    <3>1. TypeOK'
      <4>1. pc' \in [Clients -> PCs] /\ op' \in [Clients -> Ops]
        BY <2>17 DEF Detach, Goto, TypeOK, PCs, Ops
      <4>2. chan' \in [Clients -> Channels \cup {None}] /\ event' \in [Clients -> Events]
        BY <2>17 DEF Detach, TypeOK
      <4>3. driven' \in [Clients -> BOOLEAN]
        BY <2>17, Zenon DEF Detach, TypeOK
      <4>4. stale' \in [Clients -> SUBSET Channels]
        BY <2>17 DEF Detach, TypeOK
      <4> QED BY <2>17, <3>0, <4>1, <4>2, <4>3, <4>4 DEF Detach, registers, TypeOK
    <3>2. OpAt'
      BY <2>17 DEF Detach, Goto, registers, config, freed, OpAt, TypeOK
    <3>3. RegMutexAt'
      BY <2>17 DEF Detach, Goto, registers, config, freed, RegMutexAt,
          Locked, OpAt, TypeOK
    <3>4. HostSnapshot'
      BY <2>17 DEF Detach, Goto, registers, config, freed, HostSnapshot,
          RegMutexAt, Locked, TypeOK
    <3>5. ChannelsExclusive'
      <4>1. chan' = [chan EXCEPT ![c] = None] BY <2>17 DEF Detach
      <4> QED BY <3>0, <4>1 DEF ChannelsExclusive, TypeOK
    <3>6. \A d \in Clients : HostBit(d)'
      BY <2>17 DEF Detach, Goto, registers, config, freed, HostBit,
          HostSnapshot, OpAt, ChannelsExclusive, TypeOK
    <3>7. \A ch \in hostovr' : \E d \in Clients : chan'[d] = ch
      BY <2>17 DEF Detach, Goto, registers, config, freed, HostSnapshot,
          HostBit, OpAt, TypeOK
    <3> QED BY <3>1, <3>2, <3>3, <3>4, <3>5, <3>6, <3>7
  <2> QED BY <1>n, <2>1, <2>2, <2>3, <2>4, <2>5, <2>6, <2>7, <2>8, <2>9,
      <2>10, <2>11, <2>12, <2>13, <2>14, <2>15, <2>16, <2>17 DEF Step
<1> QED BY <1>u, <1>n DEF Next

(* A channel that was given back by another driver stays on record.        *)
LEMMA MisreadStays == ASSUME misread, [Next]_vars PROVE misread'
  BY DEF Next, vars, freed, Step, AttachReserve, XferCall, Release,
      AttachNoMemory, AttachCreate, AttachFail, AttachConfig, EvtovrRead,
      EvtovrWrite, ChnenblRead, ChnenblWrite, HostovrRead, HostovrWrite, Lock,
      Unlock, Destroy, Detach

(* The invariant holds until then.                                         *)
LEMMA RegsInvariant == Spec => [](~misread => IInv)
<1>1. (~misread => IInv) /\ [Next]_vars => (~misread => IInv)'
  BY NextIInv, MisreadStays
<1> QED BY InitIInv, <1>1, PTL DEF Spec

(* No HOSTOVR update is lost, for any number of drivers, processes and     *)
(* channels.                                                               *)
THEOREM HostovrCorrect == Spec => []HostovrExact
<1>1. (~misread => IInv) => HostovrExact BY DEF IInv, HostBit, HostovrExact
<1> QED BY RegsInvariant, <1>1, PTL

(* Channels are not shared, for any drivers in any processes, as long as   *)
(* no driver has given back the channel of another.                        *)
THEOREM ExclusiveCorrect == Spec => []ExclusiveUnlessMisread
<1>1. (~misread => IInv) => ExclusiveUnlessMisread
  BY DEF IInv, ExclusiveUnlessMisread
<1> QED BY RegsInvariant, <1>1, PTL

(* With one driver per process that never happens: memory freed by a       *)
(* driver is not reused by another, and the resource manager refuses       *)
(* channels of other processes.                                            *)
THEOREM SeparateCorrect ==
    ASSUME \A c, d \in Clients : Home[c] = Home[d] => c = d
    PROVE  Spec => []ChannelsExclusive
<1> DEFINE NoReuse == ~misread /\ stale = [c \in Clients |-> {}]
<1>1. Init => NoReuse BY DEF Init
<1>2. NoReuse /\ [Next]_vars => NoReuse'
  <2> SUFFICES ASSUME NoReuse, [Next]_vars PROVE NoReuse' OBVIOUS
  <2>1. CASE UNCHANGED vars BY <2>1 DEF vars
  <2>2. ASSUME NEW c \in Clients, AttachCreate(c) PROVE NoReuse'
    <3>1. \A d \in Clients : ~(pc[d] = "detach" /\ Home[d] = Home[c])
      BY <2>2 DEF AttachCreate
    <3>2. stale' = [d \in Clients |-> stale[d]]
      BY <2>2, <3>1 DEF AttachCreate
    <3> QED BY <2>2, <3>2 DEF AttachCreate
  <2>3. ASSUME NEW c \in Clients, Detach(c) PROVE NoReuse'
    BY <2>3, NoneAssumption DEF Detach
  <2>4. ASSUME NEW c \in Clients, UNCHANGED freed PROVE NoReuse'
    BY <2>4 DEF freed
  <2> QED
    BY <2>1, <2>2, <2>3, <2>4 DEF Next, Step, AttachReserve, XferCall,
      Release, AttachNoMemory, AttachFail, AttachConfig, EvtovrRead,
      EvtovrWrite, ChnenblRead, ChnenblWrite, HostovrRead, HostovrWrite, Lock,
      Unlock, Destroy, freed
<1>3. ExclusiveUnlessMisread /\ NoReuse => ChannelsExclusive
  BY DEF ExclusiveUnlessMisread
<1>4. Spec => []NoReuse BY <1>1, <1>2, PTL DEF Spec
<1> QED BY <1>3, <1>4, ExclusiveCorrect, PTL

(***************************************************************************)
(* Transfers on a channel: SdmaXfer, for any number of fragments and       *)
(* setups, and every use of the library, with aborts and restarts          *)
(***************************************************************************)

(* A descriptor of a channel just attached.                                *)
LEMMA NoDescriptor ==
  /\ NoCommand \in Command /\ NoWork \in Descriptor
  /\ [x \in Index |-> NoWork] \in [Index -> Descriptor]
<1>1. NoCommand \in Command BY BoundsAssumption DEF NoCommand, Command
<1>2. NoWork \in Descriptor BY <1>1, BoundsAssumption DEF NoWork, Descriptor
<1> QED BY <1>1, <1>2

(* Initially the channel is closed.                                        *)
LEMMA XferInitially == XferInit => XferInv
<1> SUFFICES ASSUME XferInit PROVE XferInv OBVIOUS
<1> USE BoundsAssumption, OptionsAssumption DEF XferInit
<1>0. bd \in [Index -> Descriptor] /\ eng \in Descriptor /\ isrTmp \in Command
  BY NoDescriptor
<1>1. XferTypeOK
  <2>1. i \in Index /\ current \in Index /\ dpc \in XferPCs BY DEF Index, XferPCs
  <2>2. i \in Index /\ n \in 0..MaxFrags /\ gen \in 0..MaxSetups
        /\ n_frags \in 0..MaxFrags /\ k \in 0..MaxFrags /\ pulses \in 0..MaxPulses
        /\ moved \in 0..MaxFrags
    BY <2>1
  <2>3. alive \in BOOLEAN /\ ovr \in BOOLEAN /\ busy \in BOOLEAN /\ intr \in BOOLEAN
        /\ aborted \in BOOLEAN /\ overlap \in BOOLEAN
    OBVIOUS
  <2> QED BY <1>0, <2>1, <2>2, <2>3 DEF XferTypeOK
<1>2. DriverInv BY DEF DriverInv, On, Filling, Loaded, Token
<1>3. FillInv BY DEF FillInv, On, Filling, Loaded
<1>4. EngineInv BY DEF EngineInv, NoTornDescriptor, On
<1>5. IsrInv BY DEF IsrInv, Token, On, Loaded
<1> QED BY <1>1, <1>2, <1>3, <1>4, <1>5 DEF XferInv

(* What a write into a descriptor does.                                    *)
LEMMA WordWritten ==
  ASSUME NEW b \in [Index -> Descriptor], NEW x \in Index, NEW w \in Command, NEW c,
         c = [b EXCEPT ![x].word = w]
  PROVE  /\ c \in [Index -> Descriptor]
         /\ \A y \in Index : c[y].buf = b[y].buf
                             /\ c[y].word = IF y = x THEN w ELSE b[y].word
<1>1. [b[x] EXCEPT !.word = w] \in Descriptor BY DEF Descriptor
<1>2. c = [y \in Index |-> IF y = x THEN [b[x] EXCEPT !.word = w] ELSE b[y]] OBVIOUS
<1>3. c \in [Index -> Descriptor] BY <1>1, <1>2
<1> QED BY <1>2, <1>3 DEF Descriptor

(* Setting the done bit of a descriptor changes nothing else.              *)
LEMMA DoneSet ==
  ASSUME bd \in [Index -> Descriptor], NEW x \in Index,
         bd' = [bd EXCEPT ![x].word.done = TRUE]
  PROVE  /\ bd' \in [Index -> Descriptor]
         /\ \A y \in Index : /\ bd'[y].buf = bd[y].buf /\ bd'[y].word.cmd = bd[y].word.cmd
                             /\ bd'[y].word.wrap <=> bd[y].word.wrap
                             /\ bd'[y].word.int <=> bd[y].word.int
                             /\ bd'[y].word.done <=> y = x \/ bd[y].word.done
<1> DEFINE w == [bd[x].word EXCEPT !.done = TRUE]
           d == [bd[x] EXCEPT !.word = w]
<1>1. w \in Command BY DEF Descriptor, Command
<1>2. /\ w.cmd = bd[x].word.cmd /\ w.done
      /\ (w.wrap <=> bd[x].word.wrap) /\ (w.int <=> bd[x].word.int)
  BY DEF Descriptor, Command
<1>3. bd' = [bd EXCEPT ![x] = d] OBVIOUS
<1> HIDE DEF w
<1>4. d \in Descriptor /\ d.buf = bd[x].buf /\ d.word = w BY <1>1 DEF Descriptor
<1> HIDE DEF d
<1>5. bd' = [y \in Index |-> IF y = x THEN d ELSE bd[y]] BY <1>3
<1>6. bd' \in [Index -> Descriptor] BY <1>4, <1>5
<1> QED BY <1>2, <1>4, <1>5, <1>6

(* Clearing the done bit of a descriptor changes nothing else.             *)
LEMMA DoneCleared ==
  ASSUME bd \in [Index -> Descriptor], NEW x \in Index,
         bd' = [bd EXCEPT ![x].word.done = FALSE]
  PROVE  /\ bd' \in [Index -> Descriptor]
         /\ \A y \in Index : /\ bd'[y].buf = bd[y].buf /\ bd'[y].word.cmd = bd[y].word.cmd
                             /\ bd'[y].word.wrap <=> bd[y].word.wrap
                             /\ bd'[y].word.int <=> bd[y].word.int
                             /\ bd'[y].word.done <=> y # x /\ bd[y].word.done
<1> DEFINE w == [bd[x].word EXCEPT !.done = FALSE]
           d == [bd[x] EXCEPT !.word = w]
<1>1. w \in Command BY DEF Descriptor, Command
<1>2. /\ w.cmd = bd[x].word.cmd /\ ~w.done
      /\ (w.wrap <=> bd[x].word.wrap) /\ (w.int <=> bd[x].word.int)
  BY DEF Descriptor, Command
<1>3. bd' = [bd EXCEPT ![x] = d] OBVIOUS
<1> HIDE DEF w
<1>4. d \in Descriptor /\ d.buf = bd[x].buf /\ d.word = w BY <1>1 DEF Descriptor
<1> HIDE DEF d
<1>5. bd' = [y \in Index |-> IF y = x THEN d ELSE bd[y]] BY <1>3
<1>6. bd' \in [Index -> Descriptor] BY <1>4, <1>5
<1> QED BY <1>2, <1>4, <1>5, <1>6

(* Writing the buffer address of a descriptor leaves its command.          *)
LEMMA BufWritten ==
  ASSUME NEW b \in [Index -> Descriptor], NEW x \in Index, NEW v \in 0..MaxSetups, NEW c,
         c = [b EXCEPT ![x].buf = v]
  PROVE  /\ c \in [Index -> Descriptor]
         /\ \A y \in Index : c[y].word = b[y].word
                             /\ c[y].buf = IF y = x THEN v ELSE b[y].buf
<1>1. [b[x] EXCEPT !.buf = v] \in Descriptor BY DEF Descriptor
<1>2. c = [y \in Index |-> IF y = x THEN [b[x] EXCEPT !.buf = v] ELSE b[y]] OBVIOUS
<1>3. c \in [Index -> Descriptor] BY <1>1, <1>2
<1> QED BY <1>2, <1>3 DEF Descriptor

(* Every step preserves the invariant.                                     *)
LEMMA XferPreserved == ASSUME XferInv, [XferNext]_xferVars PROVE XferInv'
<1>o. opt \in Options /\ opt \in Option BY OptionsAssumption DEF XferInv, XferTypeOK
<1> USE BoundsAssumption DEF XferInv
<1>1. CASE Attach
  <2>w. bd' \in [Index -> Descriptor] BY <1>1, NoDescriptor DEF Attach
  <2>0. ~overlap' => ~overlap /\ FillInv /\ EngineInv /\ IsrInv
    BY <1>1 DEF Attach, queue, history
  <2>1. XferTypeOK'
    <3>1. bd' \in [Index -> Descriptor] /\ eng' \in Descriptor /\ isrTmp' \in Command
      BY <1>1, <2>w DEF Attach, isrVars, XferTypeOK
    <3>2. opt' \in Options /\ dpc' \in XferPCs /\ i' \in Index /\ n' \in 0..MaxFrags
          /\ gen' \in 0..MaxSetups /\ n_frags' \in 0..MaxFrags /\ current' \in Index
      BY <1>o, <1>1 DEF Attach, XferTypeOK, XferPCs, Index
    <3>3. alive' \in BOOLEAN /\ ovr' \in BOOLEAN /\ busy' \in BOOLEAN
          /\ intr' \in BOOLEAN /\ aborted' \in BOOLEAN /\ overlap' \in BOOLEAN
      BY <1>1 DEF Attach, queue, history, XferTypeOK
    <3>4. /\ listening' \subseteq {"mask", "event", "callback"}
          /\ isr' \in {"none", "cb", "rmw", "ev"}
          /\ k' \in 0..MaxFrags /\ pulses' \in 0..MaxPulses /\ moved' \in 0..MaxFrags
      BY <1>o, <1>1 DEF Attach, isrVars, queue, XferTypeOK
    <3> QED BY <3>1, <3>2, <3>3, <3>4 DEF XferTypeOK
  <2>2. DriverInv'
    BY <1>o, <1>1 DEF Attach, isrVars, queue, history, XferTypeOK, Index, DriverInv,
       Filling, On, Loaded, Token
  <2>3. ~overlap' => FillInv'
    BY <1>o, <1>1, <2>w, <2>0 DEF Attach, isrVars, queue, history, XferTypeOK, Index,
       DriverInv, FillInv, IsrInv, Filling, On, Loaded, Token, Current, CurrentWord
  <2>4. ~overlap' => EngineInv'
    BY <1>o, <1>1, <2>w, <2>0 DEF Attach, isrVars, queue, history, XferTypeOK, Index,
       DriverInv, FillInv, EngineInv, NoTornDescriptor, Filling, On, Loaded, Current,
       CurrentWord
  <2>5. ~overlap' => IsrInv'
    BY <1>o, <1>1, <2>w, <2>0 DEF Attach, isrVars, queue, history, XferTypeOK, Index,
       DriverInv, FillInv, EngineInv, IsrInv, Filling, On, Loaded, Token, Current,
       CurrentWord
  <2> QED BY <2>1, <2>2, <2>3, <2>4, <2>5
<1>2. CASE Setup
  <2>0. ~overlap' => ~overlap /\ FillInv /\ EngineInv /\ IsrInv
    BY <1>2 DEF Setup
  <2>1. XferTypeOK'
    <3>1. bd' \in [Index -> Descriptor] /\ eng' \in Descriptor /\ isrTmp' \in Command
      BY <1>2 DEF Setup, engVars, isrVars, XferTypeOK
    <3>2. opt' \in Options /\ dpc' \in XferPCs /\ i' \in Index /\ n' \in 0..MaxFrags
          /\ gen' \in 0..MaxSetups /\ n_frags' \in 0..MaxFrags /\ current' \in Index
      BY <1>o, <1>2 DEF Setup, XferTypeOK, XferPCs, Index
    <3>3. alive' \in BOOLEAN /\ ovr' \in BOOLEAN /\ busy' \in BOOLEAN
          /\ intr' \in BOOLEAN /\ aborted' \in BOOLEAN /\ overlap' \in BOOLEAN
      BY <1>2 DEF Setup, engVars, XferTypeOK, EngineLeft, CallbackLeft
    <3>4. /\ listening' \subseteq {"mask", "event", "callback"}
          /\ isr' \in {"none", "cb", "rmw", "ev"}
          /\ k' \in 0..MaxFrags /\ pulses' \in 0..MaxPulses /\ moved' \in 0..MaxFrags
      BY <1>o, <1>2 DEF Setup, engVars, isrVars, XferTypeOK
    <3> QED BY <3>1, <3>2, <3>3, <3>4 DEF XferTypeOK
  <2>2. DriverInv'
    BY <1>o, <1>2 DEF Setup, engVars, isrVars, XferTypeOK, Index, DriverInv, Filling,
       On, Loaded, Token, EngineLeft, CallbackLeft
  <2>3. ~overlap' => FillInv'
    BY <1>o, <1>2, <2>0 DEF Setup, engVars, isrVars, XferTypeOK, Index, DriverInv,
       FillInv, IsrInv, Filling, On, Loaded, Token, Current, CurrentWord, EngineLeft,
       CallbackLeft
  <2>4. ~overlap' => EngineInv'
    BY <1>o, <1>2, <2>0 DEF Setup, engVars, isrVars, XferTypeOK, Index, DriverInv,
       FillInv, EngineInv, NoTornDescriptor, Filling, On, Loaded, Current, CurrentWord,
       EngineLeft, CallbackLeft
  <2>5. ~overlap' => IsrInv'
    BY <1>o, <1>2, <2>0 DEF Setup, engVars, isrVars, XferTypeOK, Index, DriverInv,
       FillInv, EngineInv, IsrInv, Filling, On, Loaded, Token, Current, CurrentWord,
       EngineLeft, CallbackLeft
  <2> QED BY <2>1, <2>2, <2>3, <2>4, <2>5
<1>3. CASE FillCmd
  <2>w. /\ bd' \in [Index -> Descriptor]
        /\ \A y \in Index : bd'[y].buf = bd[y].buf
               /\ bd'[y].word = IF y = i THEN CommandWord(gen, i = n - 1) ELSE bd[y].word
    <3>1. CommandWord(gen, i = n - 1) \in Command
      BY <1>o DEF CommandWord, Command, XferTypeOK
    <3> QED BY <1>3, <3>1, WordWritten DEF FillCmd, XferTypeOK
  <2>c. CurrentWord(CommandWord(gen, i = n - 1), i) /\ ~CommandWord(gen, i = n - 1).done
    BY <1>o DEF CommandWord, CurrentWord, Option
  <2>0. ~overlap' => ~overlap /\ FillInv /\ EngineInv /\ IsrInv
    BY <1>3 DEF FillCmd, queue, history
  <2>1. XferTypeOK'
    <3>1. bd' \in [Index -> Descriptor] /\ eng' \in Descriptor /\ isrTmp' \in Command
      BY <1>3, <2>c, <2>w DEF FillCmd, engVars, isrVars, XferTypeOK
    <3>2. opt' \in Options /\ dpc' \in XferPCs /\ i' \in Index /\ n' \in 0..MaxFrags
          /\ gen' \in 0..MaxSetups /\ n_frags' \in 0..MaxFrags /\ current' \in Index
      BY <1>o, <1>3 DEF FillCmd, chanVars, XferTypeOK, XferPCs, Index
    <3>3. alive' \in BOOLEAN /\ ovr' \in BOOLEAN /\ busy' \in BOOLEAN
          /\ intr' \in BOOLEAN /\ aborted' \in BOOLEAN /\ overlap' \in BOOLEAN
      BY <1>3 DEF FillCmd, engVars, queue, history, XferTypeOK
    <3>4. /\ listening' \subseteq {"mask", "event", "callback"}
          /\ isr' \in {"none", "cb", "rmw", "ev"}
          /\ k' \in 0..MaxFrags /\ pulses' \in 0..MaxPulses /\ moved' \in 0..MaxFrags
      BY <1>o, <1>3 DEF FillCmd, engVars, isrVars, queue, XferTypeOK
    <3> QED BY <3>1, <3>2, <3>3, <3>4 DEF XferTypeOK
  <2>2. DriverInv'
    BY <1>o, <1>3 DEF FillCmd, chanVars, engVars, isrVars, queue, history, XferTypeOK,
       Index, DriverInv, Filling, On, Loaded, Token
  <2>3. ~overlap' => FillInv'
    BY <1>o, <1>3, <2>c, <2>w, <2>0 DEF FillCmd, chanVars, engVars, isrVars, queue,
       history, XferTypeOK, Index, DriverInv, FillInv, IsrInv, Filling, On, Loaded,
       Token, Current, CurrentWord
  <2>4. ~overlap' => EngineInv'
    BY <1>o, <1>3, <2>c, <2>w, <2>0 DEF FillCmd, chanVars, engVars, isrVars, queue,
       history, XferTypeOK, Index, DriverInv, FillInv, EngineInv, NoTornDescriptor,
       Filling, On, Loaded, Current, CurrentWord
  <2>5. ~overlap' => IsrInv'
    BY <1>o, <1>3, <2>c, <2>w, <2>0 DEF FillCmd, chanVars, engVars, isrVars, queue,
       history, XferTypeOK, Index, DriverInv, FillInv, EngineInv, IsrInv, Filling, On,
       Loaded, Token, Current, CurrentWord
  <2> QED BY <2>1, <2>2, <2>3, <2>4, <2>5
<1>4. CASE FillBuf
  <2>w. /\ bd' \in [Index -> Descriptor]
        /\ \A y \in Index : bd'[y].word = bd[y].word
                             /\ bd'[y].buf = IF y = i THEN gen ELSE bd[y].buf
    BY <1>4, BufWritten DEF FillBuf, XferTypeOK
  <2>0. ~overlap' => ~overlap /\ FillInv /\ EngineInv /\ IsrInv
    BY <1>4 DEF FillBuf, queue, history
  <2>1. XferTypeOK'
    <3>1. bd' \in [Index -> Descriptor] /\ eng' \in Descriptor /\ isrTmp' \in Command
      BY <1>4, <2>w DEF FillBuf, engVars, isrVars, XferTypeOK
    <3>2. opt' \in Options /\ dpc' \in XferPCs /\ i' \in Index /\ n' \in 0..MaxFrags
          /\ gen' \in 0..MaxSetups /\ n_frags' \in 0..MaxFrags /\ current' \in Index
      BY <1>o, <1>4 DEF FillBuf, chanVars, XferTypeOK, XferPCs, Index
    <3>3. alive' \in BOOLEAN /\ ovr' \in BOOLEAN /\ busy' \in BOOLEAN
          /\ intr' \in BOOLEAN /\ aborted' \in BOOLEAN /\ overlap' \in BOOLEAN
      BY <1>4 DEF FillBuf, engVars, queue, history, XferTypeOK
    <3>4. /\ listening' \subseteq {"mask", "event", "callback"}
          /\ isr' \in {"none", "cb", "rmw", "ev"}
          /\ k' \in 0..MaxFrags /\ pulses' \in 0..MaxPulses /\ moved' \in 0..MaxFrags
      BY <1>o, <1>4 DEF FillBuf, engVars, isrVars, queue, XferTypeOK
    <3> QED BY <3>1, <3>2, <3>3, <3>4 DEF XferTypeOK
  <2>2. DriverInv'
    BY <1>o, <1>4 DEF FillBuf, chanVars, engVars, isrVars, queue, history, XferTypeOK,
       Index, DriverInv, Filling, On, Loaded, Token
  <2>3. ~overlap' => FillInv'
    BY <1>o, <1>4, <2>w, <2>0 DEF FillBuf, chanVars, engVars, isrVars, queue, history,
       XferTypeOK, Index, DriverInv, FillInv, IsrInv, Filling, On, Loaded, Token,
       Current, CurrentWord
  <2>4. ~overlap' => EngineInv'
    BY <1>o, <1>4, <2>w, <2>0 DEF FillBuf, chanVars, engVars, isrVars, queue, history,
       XferTypeOK, Index, DriverInv, FillInv, EngineInv, NoTornDescriptor, Filling, On,
       Loaded, Current, CurrentWord
  <2>5. ~overlap' => IsrInv'
    BY <1>o, <1>4, <2>w, <2>0 DEF FillBuf, chanVars, engVars, isrVars, queue, history,
       XferTypeOK, Index, DriverInv, FillInv, EngineInv, IsrInv, Filling, On, Loaded,
       Token, Current, CurrentWord
  <2> QED BY <2>1, <2>2, <2>3, <2>4, <2>5
<1>5. CASE FillDone
  <2>w. /\ bd' \in [Index -> Descriptor]
        /\ \A y \in Index : bd'[y].buf = bd[y].buf /\ bd'[y].word.cmd = bd[y].word.cmd
                             /\ (bd'[y].word.wrap <=> bd[y].word.wrap)
                             /\ (bd'[y].word.int <=> bd[y].word.int)
                             /\ (bd'[y].word.done <=> y = i \/ bd[y].word.done)
    <3>1. bd' = [bd EXCEPT ![i].word.done = TRUE] BY <1>5 DEF FillDone
    <3>2. bd \in [Index -> Descriptor] /\ i \in Index BY DEF XferTypeOK
    <3> QED BY <3>1, <3>2, DoneSet, Zenon
  <2>0. ~overlap' => ~overlap /\ FillInv /\ EngineInv /\ IsrInv
    BY <1>5 DEF FillDone, queue, history
  <2>1. XferTypeOK'
    <3>1. bd' \in [Index -> Descriptor] /\ eng' \in Descriptor /\ isrTmp' \in Command
      BY <1>5, <2>w DEF FillDone, engVars, isrVars, XferTypeOK
    <3>2. opt' \in Options /\ dpc' \in XferPCs /\ i' \in Index /\ n' \in 0..MaxFrags
          /\ gen' \in 0..MaxSetups /\ n_frags' \in 0..MaxFrags /\ current' \in Index
      BY <1>o, <1>5 DEF FillDone, XferTypeOK, XferPCs, Index
    <3>3. alive' \in BOOLEAN /\ ovr' \in BOOLEAN /\ busy' \in BOOLEAN
          /\ intr' \in BOOLEAN /\ aborted' \in BOOLEAN /\ overlap' \in BOOLEAN
      BY <1>5 DEF FillDone, engVars, queue, history, XferTypeOK
    <3>4. /\ listening' \subseteq {"mask", "event", "callback"}
          /\ isr' \in {"none", "cb", "rmw", "ev"}
          /\ k' \in 0..MaxFrags /\ pulses' \in 0..MaxPulses /\ moved' \in 0..MaxFrags
      BY <1>o, <1>5 DEF FillDone, engVars, isrVars, queue, XferTypeOK
    <3> QED BY <3>1, <3>2, <3>3, <3>4 DEF XferTypeOK
  <2>2. DriverInv'
    BY <1>o, <1>5 DEF FillDone, engVars, isrVars, queue, history, XferTypeOK, Index,
       DriverInv, Filling, On, Loaded, Token
  <2>3. ~overlap' => FillInv'
    <3>1. SUFFICES ASSUME ~overlap' PROVE FillInv' OBVIOUS
    <3>2. dpc' \in Filling \cup {"ready"} =>
             current' = 0 /\ ~busy' /\ (opt'.regen => ~intr' /\ isr' = "none")
      BY <1>5, <2>0, <3>1 DEF FillDone, engVars, isrVars, FillInv, Filling
    <3>3. \A x \in 0..i : Current(x)' /\ bd'[x].word.done
      BY <1>5, <2>w, <2>0, <3>1 DEF FillDone, XferTypeOK, Index, DriverInv, FillInv,
         Filling, Current, CurrentWord
    <3>4. i < n - 1 \/ i = n - 1
      <4>1. i \in 0..(MaxFrags - 1) /\ n \in 0..MaxFrags BY DEF XferTypeOK, Index
      <4>2. i < n BY <1>5 DEF FillDone, DriverInv, Filling
      <4> QED BY <4>1, <4>2
    <3>5. CASE i < n - 1
      BY <1>5, <3>2, <3>3, <3>5 DEF FillDone, XferTypeOK, Index, FillInv, Filling, On,
         Loaded
    <3>6. CASE i = n - 1
      BY <1>5, <3>2, <3>3, <3>6 DEF FillDone, XferTypeOK, Index, FillInv, Filling, On,
         Loaded
    <3> QED BY <3>4, <3>5, <3>6
  <2>4. ~overlap' => EngineInv'
    BY <1>o, <1>5, <2>w, <2>0 DEF FillDone, engVars, isrVars, queue, history,
       XferTypeOK, Index, DriverInv, FillInv, EngineInv, NoTornDescriptor, Filling, On,
       Loaded, Current, CurrentWord
  <2>5. ~overlap' => IsrInv'
    BY <1>o, <1>5, <2>w, <2>0 DEF FillDone, engVars, isrVars, queue, history,
       XferTypeOK, Index, DriverInv, FillInv, EngineInv, IsrInv, Filling, On, Loaded,
       Token, Current, CurrentWord
  <2> QED BY <2>1, <2>2, <2>3, <2>4, <2>5
<1>6. CASE Start
  <2>0. ~overlap' => ~overlap /\ FillInv /\ EngineInv /\ IsrInv
    BY <1>6 DEF Start
  <2>1. XferTypeOK'
    <3>1. bd' \in [Index -> Descriptor] /\ eng' \in Descriptor /\ isrTmp' \in Command
      BY <1>6 DEF Start, isrVars, XferTypeOK
    <3>2. opt' \in Options /\ dpc' \in XferPCs /\ i' \in Index /\ n' \in 0..MaxFrags
          /\ gen' \in 0..MaxSetups /\ n_frags' \in 0..MaxFrags /\ current' \in Index
      BY <1>o, <1>6 DEF Start, chanVars, XferTypeOK, XferPCs, Index
    <3>3. alive' \in BOOLEAN /\ ovr' \in BOOLEAN /\ busy' \in BOOLEAN
          /\ intr' \in BOOLEAN /\ aborted' \in BOOLEAN /\ overlap' \in BOOLEAN
      BY <1>6 DEF Start, XferTypeOK, EngineLeft
    <3>4. /\ listening' \subseteq {"mask", "event", "callback"}
          /\ isr' \in {"none", "cb", "rmw", "ev"}
          /\ k' \in 0..MaxFrags /\ pulses' \in 0..MaxPulses /\ moved' \in 0..MaxFrags
      BY <1>o, <1>6 DEF Start, isrVars, XferTypeOK
    <3> QED BY <3>1, <3>2, <3>3, <3>4 DEF XferTypeOK
  <2>2. DriverInv'
    BY <1>o, <1>6 DEF Start, chanVars, isrVars, XferTypeOK, Index, DriverInv, Filling,
       On, Loaded, Token, EngineLeft
  <2>3. ~overlap' => FillInv'
    BY <1>o, <1>6, <2>0 DEF Start, chanVars, isrVars, XferTypeOK, Index, DriverInv,
       FillInv, IsrInv, Filling, On, Loaded, Token, Current, CurrentWord, EngineLeft
  <2>4. ~overlap' => EngineInv'
    BY <1>o, <1>6, <2>0 DEF Start, chanVars, isrVars, XferTypeOK, Index, DriverInv,
       FillInv, EngineInv, NoTornDescriptor, Filling, On, Loaded, Current, CurrentWord,
       EngineLeft
  <2>5. ~overlap' => IsrInv'
    BY <1>o, <1>6, <2>0 DEF Start, chanVars, isrVars, XferTypeOK, Index, DriverInv,
       FillInv, EngineInv, IsrInv, Filling, On, Loaded, Token, Current, CurrentWord,
       EngineLeft
  <2> QED BY <2>1, <2>2, <2>3, <2>4, <2>5
<1>7. CASE Wait
  <2>0. ~overlap' => ~overlap /\ FillInv /\ EngineInv /\ IsrInv
    BY <1>7 DEF Wait, history
  <2>1. XferTypeOK'
    <3>1. bd' \in [Index -> Descriptor] /\ eng' \in Descriptor /\ isrTmp' \in Command
      BY <1>7 DEF Wait, engVars, isrVars, XferTypeOK
    <3>2. opt' \in Options /\ dpc' \in XferPCs /\ i' \in Index /\ n' \in 0..MaxFrags
          /\ gen' \in 0..MaxSetups /\ n_frags' \in 0..MaxFrags /\ current' \in Index
      BY <1>o, <1>7 DEF Wait, chanVars, XferTypeOK, XferPCs, Index
    <3>3. alive' \in BOOLEAN /\ ovr' \in BOOLEAN /\ busy' \in BOOLEAN
          /\ intr' \in BOOLEAN /\ aborted' \in BOOLEAN /\ overlap' \in BOOLEAN
      BY <1>7 DEF Wait, engVars, history, XferTypeOK
    <3>4. /\ listening' \subseteq {"mask", "event", "callback"}
          /\ isr' \in {"none", "cb", "rmw", "ev"}
          /\ k' \in 0..MaxFrags /\ pulses' \in 0..MaxPulses /\ moved' \in 0..MaxFrags
      BY <1>o, <1>7 DEF Wait, engVars, isrVars, XferTypeOK
    <3> QED BY <3>1, <3>2, <3>3, <3>4 DEF XferTypeOK
  <2>2. DriverInv'
    BY <1>o, <1>7 DEF Wait, chanVars, engVars, isrVars, history, XferTypeOK, Index,
       DriverInv, Filling, On, Loaded, Token
  <2>3. ~overlap' => FillInv'
    BY <1>o, <1>7, <2>0 DEF Wait, chanVars, engVars, isrVars, history, XferTypeOK,
       Index, DriverInv, FillInv, IsrInv, Filling, On, Loaded, Token, Current,
       CurrentWord
  <2>4. ~overlap' => EngineInv'
    BY <1>o, <1>7, <2>0 DEF Wait, chanVars, engVars, isrVars, history, XferTypeOK,
       Index, DriverInv, FillInv, EngineInv, NoTornDescriptor, Filling, On, Loaded,
       Current, CurrentWord
  <2>b. opt.notify = "poll" /\ ~overlap => moved >= n
    <3>1. SUFFICES ASSUME opt.notify = "poll", ~overlap, moved < n PROVE FALSE
      BY DEF XferTypeOK
    <3>2. current = moved /\ \A x \in current..(n - 1) : bd[x].word.done
      BY <1>7, <3>1 DEF Wait, EngineInv, On
    <3>3. bd[n - 1].word.done BY <3>1, <3>2 DEF XferTypeOK
    <3> QED BY <1>7, <3>1, <3>3 DEF Wait, BytesLeft, DriverInv, Loaded, On
  <2>5. ~overlap' => IsrInv'
    BY <1>o, <1>7, <2>b, <2>0 DEF Wait, chanVars, engVars, isrVars, history,
       XferTypeOK, DriverInv, IsrInv, On, Loaded, Token, CurrentWord
  <2> QED BY <2>1, <2>2, <2>3, <2>4, <2>5
<1>8. CASE Continue
  <2>0. ~overlap' => ~overlap /\ FillInv /\ EngineInv /\ IsrInv
    BY <1>8 DEF Continue, queue, history
  <2>1. XferTypeOK'
    <3>1. bd' \in [Index -> Descriptor] /\ eng' \in Descriptor /\ isrTmp' \in Command
      BY <1>8 DEF Continue, engVars, isrVars, XferTypeOK
    <3>2. opt' \in Options /\ dpc' \in XferPCs /\ i' \in Index /\ n' \in 0..MaxFrags
          /\ gen' \in 0..MaxSetups /\ n_frags' \in 0..MaxFrags /\ current' \in Index
      BY <1>o, <1>8 DEF Continue, chanVars, XferTypeOK, XferPCs, Index
    <3>3. alive' \in BOOLEAN /\ ovr' \in BOOLEAN /\ busy' \in BOOLEAN
          /\ intr' \in BOOLEAN /\ aborted' \in BOOLEAN /\ overlap' \in BOOLEAN
      BY <1>8 DEF Continue, engVars, queue, history, XferTypeOK
    <3>4. /\ listening' \subseteq {"mask", "event", "callback"}
          /\ isr' \in {"none", "cb", "rmw", "ev"}
          /\ k' \in 0..MaxFrags /\ pulses' \in 0..MaxPulses /\ moved' \in 0..MaxFrags
      BY <1>o, <1>8 DEF Continue, engVars, isrVars, queue, XferTypeOK
    <3> QED BY <3>1, <3>2, <3>3, <3>4 DEF XferTypeOK
  <2>2. DriverInv'
    BY <1>o, <1>8 DEF Continue, chanVars, engVars, isrVars, queue, history,
       XferTypeOK, Index, DriverInv, Filling, On, Loaded, Token
  <2>3. ~overlap' => FillInv'
    BY <1>o, <1>8, <2>0 DEF Continue, chanVars, engVars, isrVars, queue, history,
       XferTypeOK, Index, DriverInv, FillInv, IsrInv, Filling, On, Loaded, Token,
       Current, CurrentWord
  <2>4. ~overlap' => EngineInv'
    BY <1>o, <1>8, <2>0 DEF Continue, chanVars, engVars, isrVars, queue, history,
       XferTypeOK, Index, DriverInv, FillInv, EngineInv, NoTornDescriptor, Filling, On,
       Loaded, Current, CurrentWord
  <2>5. ~overlap' => IsrInv'
    BY <1>o, <1>8, <2>0 DEF Continue, chanVars, engVars, isrVars, queue, history,
       XferTypeOK, Index, DriverInv, FillInv, EngineInv, IsrInv, Filling, On, Loaded,
       Token, Current, CurrentWord
  <2> QED BY <2>1, <2>2, <2>3, <2>4, <2>5
<1>9. CASE Complete
  <2>0. ~overlap' => ~overlap /\ FillInv /\ EngineInv /\ IsrInv
    BY <1>9 DEF Complete
  <2>1. XferTypeOK'
    <3>1. bd' \in [Index -> Descriptor] /\ eng' \in Descriptor /\ isrTmp' \in Command
      BY <1>9 DEF Complete, engVars, isrVars, XferTypeOK
    <3>2. opt' \in Options /\ dpc' \in XferPCs /\ i' \in Index /\ n' \in 0..MaxFrags
          /\ gen' \in 0..MaxSetups /\ n_frags' \in 0..MaxFrags /\ current' \in Index
      BY <1>o, <1>9 DEF Complete, chanVars, XferTypeOK, XferPCs, Index
    <3>3. alive' \in BOOLEAN /\ ovr' \in BOOLEAN /\ busy' \in BOOLEAN
          /\ intr' \in BOOLEAN /\ aborted' \in BOOLEAN /\ overlap' \in BOOLEAN
      BY <1>9 DEF Complete, engVars, XferTypeOK
    <3>4. /\ listening' \subseteq {"mask", "event", "callback"}
          /\ isr' \in {"none", "cb", "rmw", "ev"}
          /\ k' \in 0..MaxFrags /\ pulses' \in 0..MaxPulses /\ moved' \in 0..MaxFrags
      BY <1>o, <1>9 DEF Complete, engVars, isrVars, XferTypeOK
    <3> QED BY <3>1, <3>2, <3>3, <3>4 DEF XferTypeOK
  <2>b. ~aborted' => current = 0 /\ ~busy /\ ~opt.regen
    <3>1. SUFFICES ASSUME ~aborted' PROVE current = 0 /\ ~busy /\ ~opt.regen OBVIOUS
    <3>2. ~aborted /\ ~opt.regen /\ ~overlap BY <1>9, <3>1 DEF Complete, DriverInv
    <3>3. n_frags = n /\ n \in 1..MaxFrags /\ moved \in 0..MaxFrags
      BY <1>9 DEF Complete, DriverInv, Loaded, On, XferTypeOK
    <3>4. moved >= n
      <4>1. CASE opt.notify = "segment"
        <5>1. ~bd[n - 1].word.done BY <1>9, <3>3, <4>1 DEF Complete, BytesLeft
        <5>2. ~(moved < n)
          BY <1>9, <3>2, <3>3, <5>1 DEF Complete, EngineInv, On
        <5> QED BY <3>3, <5>2
      <4>2. CASE opt.notify # "segment"
        BY <1>o, <1>9, <3>2, <4>2 DEF Complete, IsrInv, Option
      <4> QED BY <4>1, <4>2
    <3> QED BY <1>9, <3>2, <3>3, <3>4 DEF Complete, EngineInv, On
  <2>2. DriverInv'
    BY <1>o, <1>9, <2>b DEF Complete, chanVars, engVars, isrVars, XferTypeOK,
       DriverInv, Filling, On, Loaded, Token
  <2>3. ~overlap' => FillInv'
    BY <1>o, <1>9, <2>0 DEF Complete, chanVars, engVars, isrVars, XferTypeOK, Index,
       DriverInv, FillInv, IsrInv, Filling, On, Loaded, Token, Current, CurrentWord
  <2>4. ~overlap' => EngineInv'
    BY <1>o, <1>9, <2>0 DEF Complete, chanVars, engVars, isrVars, XferTypeOK, Index,
       DriverInv, FillInv, EngineInv, NoTornDescriptor, Filling, On, Loaded, Current,
       CurrentWord
  <2>5. ~overlap' => IsrInv'
    BY <1>o, <1>9, <2>0 DEF Complete, chanVars, engVars, isrVars, XferTypeOK, Index,
       DriverInv, FillInv, EngineInv, IsrInv, Filling, On, Loaded, Token, Current,
       CurrentWord
  <2> QED BY <2>1, <2>2, <2>3, <2>4, <2>5
<1>10. CASE AbortStop
  <2>0. ~overlap' => ~overlap /\ FillInv /\ EngineInv /\ IsrInv
    BY <1>10 DEF AbortStop
  <2>1. XferTypeOK'
    <3>1. bd' \in [Index -> Descriptor] /\ eng' \in Descriptor /\ isrTmp' \in Command
      BY <1>10 DEF AbortStop, engVars, isrVars, XferTypeOK
    <3>2. opt' \in Options /\ dpc' \in XferPCs /\ i' \in Index /\ n' \in 0..MaxFrags
          /\ gen' \in 0..MaxSetups /\ n_frags' \in 0..MaxFrags /\ current' \in Index
      BY <1>o, <1>10 DEF AbortStop, chanVars, XferTypeOK, XferPCs, Index
    <3>3. alive' \in BOOLEAN /\ ovr' \in BOOLEAN /\ busy' \in BOOLEAN
          /\ intr' \in BOOLEAN /\ aborted' \in BOOLEAN /\ overlap' \in BOOLEAN
      BY <1>10 DEF AbortStop, engVars, XferTypeOK
    <3>4. /\ listening' \subseteq {"mask", "event", "callback"}
          /\ isr' \in {"none", "cb", "rmw", "ev"}
          /\ k' \in 0..MaxFrags /\ pulses' \in 0..MaxPulses /\ moved' \in 0..MaxFrags
      BY <1>o, <1>10 DEF AbortStop, engVars, isrVars, XferTypeOK
    <3> QED BY <3>1, <3>2, <3>3, <3>4 DEF XferTypeOK
  <2>2. DriverInv'
    BY <1>o, <1>10 DEF AbortStop, chanVars, engVars, isrVars, XferTypeOK, Index,
       DriverInv, Filling, On, Loaded, Token
  <2>3. ~overlap' => FillInv'
    BY <1>o, <1>10, <2>0 DEF AbortStop, chanVars, engVars, isrVars, XferTypeOK, Index,
       DriverInv, FillInv, IsrInv, Filling, On, Loaded, Token, Current, CurrentWord
  <2>4. ~overlap' => EngineInv'
    BY <1>o, <1>10, <2>0 DEF AbortStop, chanVars, engVars, isrVars, XferTypeOK, Index,
       DriverInv, FillInv, EngineInv, NoTornDescriptor, Filling, On, Loaded, Current,
       CurrentWord
  <2>5. ~overlap' => IsrInv'
    BY <1>o, <1>10, <2>0 DEF AbortStop, chanVars, engVars, isrVars, XferTypeOK, Index,
       DriverInv, FillInv, EngineInv, IsrInv, Filling, On, Loaded, Token, Current,
       CurrentWord
  <2> QED BY <2>1, <2>2, <2>3, <2>4, <2>5
<1>11. CASE AbortReload
  <2>0. ~overlap' => ~overlap /\ FillInv /\ EngineInv /\ IsrInv
    BY <1>11 DEF AbortReload, queue, history
  <2>1. XferTypeOK'
    <3>1. bd' \in [Index -> Descriptor] /\ eng' \in Descriptor /\ isrTmp' \in Command
      BY <1>11 DEF AbortReload, isrVars, XferTypeOK
    <3>2. opt' \in Options /\ dpc' \in XferPCs /\ i' \in Index /\ n' \in 0..MaxFrags
          /\ gen' \in 0..MaxSetups /\ n_frags' \in 0..MaxFrags /\ current' \in Index
      BY <1>o, <1>11 DEF AbortReload, chanVars, XferTypeOK, XferPCs, Index
    <3>3. alive' \in BOOLEAN /\ ovr' \in BOOLEAN /\ busy' \in BOOLEAN
          /\ intr' \in BOOLEAN /\ aborted' \in BOOLEAN /\ overlap' \in BOOLEAN
      BY <1>11 DEF AbortReload, queue, history, XferTypeOK
    <3>4. /\ listening' \subseteq {"mask", "event", "callback"}
          /\ isr' \in {"none", "cb", "rmw", "ev"}
          /\ k' \in 0..MaxFrags /\ pulses' \in 0..MaxPulses /\ moved' \in 0..MaxFrags
      BY <1>o, <1>11 DEF AbortReload, isrVars, queue, XferTypeOK
    <3> QED BY <3>1, <3>2, <3>3, <3>4 DEF XferTypeOK
  <2>2. DriverInv'
    BY <1>o, <1>11 DEF AbortReload, chanVars, isrVars, queue, history, XferTypeOK,
       Index, DriverInv, Filling, On, Loaded, Token
  <2>3. ~overlap' => FillInv'
    BY <1>o, <1>11, <2>0 DEF AbortReload, chanVars, isrVars, queue, history,
       XferTypeOK, Index, DriverInv, FillInv, IsrInv, Filling, On, Loaded, Token,
       Current, CurrentWord
  <2>4. ~overlap' => EngineInv'
    BY <1>o, <1>11, <2>0 DEF AbortReload, chanVars, isrVars, queue, history,
       XferTypeOK, Index, DriverInv, FillInv, EngineInv, NoTornDescriptor, Filling, On,
       Loaded, Current, CurrentWord
  <2>5. ~overlap' => IsrInv'
    BY <1>o, <1>11, <2>0 DEF AbortReload, chanVars, isrVars, queue, history,
       XferTypeOK, Index, DriverInv, FillInv, EngineInv, IsrInv, Filling, On, Loaded,
       Token, Current, CurrentWord
  <2> QED BY <2>1, <2>2, <2>3, <2>4, <2>5
<1>12. CASE AbortReset
  <2>0. ~overlap' => ~overlap /\ FillInv /\ EngineInv /\ IsrInv
    BY <1>12 DEF AbortReset, queue, history
  <2>1. XferTypeOK'
    <3>1. bd' \in [Index -> Descriptor] /\ eng' \in Descriptor /\ isrTmp' \in Command
      BY <1>12 DEF AbortReset, engVars, isrVars, XferTypeOK
    <3>2. opt' \in Options /\ dpc' \in XferPCs /\ i' \in Index /\ n' \in 0..MaxFrags
          /\ gen' \in 0..MaxSetups /\ n_frags' \in 0..MaxFrags /\ current' \in Index
      BY <1>o, <1>12 DEF AbortReset, chanVars, XferTypeOK, XferPCs, Index
    <3>3. alive' \in BOOLEAN /\ ovr' \in BOOLEAN /\ busy' \in BOOLEAN
          /\ intr' \in BOOLEAN /\ aborted' \in BOOLEAN /\ overlap' \in BOOLEAN
      BY <1>12 DEF AbortReset, engVars, queue, history, XferTypeOK
    <3>4. /\ listening' \subseteq {"mask", "event", "callback"}
          /\ isr' \in {"none", "cb", "rmw", "ev"}
          /\ k' \in 0..MaxFrags /\ pulses' \in 0..MaxPulses /\ moved' \in 0..MaxFrags
      BY <1>o, <1>12 DEF AbortReset, engVars, isrVars, queue, XferTypeOK
    <3> QED BY <3>1, <3>2, <3>3, <3>4 DEF XferTypeOK
  <2>2. DriverInv'
    BY <1>o, <1>12 DEF AbortReset, chanVars, engVars, isrVars, queue, history,
       XferTypeOK, Index, DriverInv, Filling, On, Loaded, Token
  <2>3. ~overlap' => FillInv'
    BY <1>o, <1>12, <2>0 DEF AbortReset, chanVars, engVars, isrVars, queue, history,
       XferTypeOK, Index, DriverInv, FillInv, IsrInv, Filling, On, Loaded, Token,
       Current, CurrentWord
  <2>4. ~overlap' => EngineInv'
    BY <1>o, <1>12, <2>0 DEF AbortReset, chanVars, engVars, isrVars, queue, history,
       XferTypeOK, Index, DriverInv, FillInv, EngineInv, NoTornDescriptor, Filling, On,
       Loaded, Current, CurrentWord
  <2>5. ~overlap' => IsrInv'
    BY <1>o, <1>12, <2>0 DEF AbortReset, chanVars, engVars, isrVars, queue, history,
       XferTypeOK, Index, DriverInv, FillInv, EngineInv, IsrInv, Filling, On, Loaded,
       Token, Current, CurrentWord
  <2> QED BY <2>1, <2>2, <2>3, <2>4, <2>5
<1>13. CASE XferRelease
  <2>0. ~overlap' => ~overlap /\ FillInv /\ EngineInv /\ IsrInv
    BY <1>13 DEF XferRelease, queue, history
  <2>1. XferTypeOK'
    <3>1. bd' \in [Index -> Descriptor] /\ eng' \in Descriptor /\ isrTmp' \in Command
      BY <1>13 DEF XferRelease, engVars, isrVars, XferTypeOK
    <3>2. opt' \in Options /\ dpc' \in XferPCs /\ i' \in Index /\ n' \in 0..MaxFrags
          /\ gen' \in 0..MaxSetups /\ n_frags' \in 0..MaxFrags /\ current' \in Index
      BY <1>o, <1>13 DEF XferRelease, chanVars, XferTypeOK, XferPCs, Index
    <3>3. alive' \in BOOLEAN /\ ovr' \in BOOLEAN /\ busy' \in BOOLEAN
          /\ intr' \in BOOLEAN /\ aborted' \in BOOLEAN /\ overlap' \in BOOLEAN
      BY <1>13 DEF XferRelease, engVars, queue, history, XferTypeOK
    <3>4. /\ listening' \subseteq {"mask", "event", "callback"}
          /\ isr' \in {"none", "cb", "rmw", "ev"}
          /\ k' \in 0..MaxFrags /\ pulses' \in 0..MaxPulses /\ moved' \in 0..MaxFrags
      BY <1>o, <1>13 DEF XferRelease, engVars, isrVars, queue, XferTypeOK
    <3> QED BY <3>1, <3>2, <3>3, <3>4 DEF XferTypeOK
  <2>2. DriverInv'
    BY <1>o, <1>13 DEF XferRelease, chanVars, engVars, isrVars, queue, history,
       XferTypeOK, Index, DriverInv, Filling, On, Loaded, Token
  <2>3. ~overlap' => FillInv'
    BY <1>o, <1>13, <2>0 DEF XferRelease, chanVars, engVars, isrVars, queue, history,
       XferTypeOK, Index, DriverInv, FillInv, IsrInv, Filling, On, Loaded, Token,
       Current, CurrentWord
  <2>4. ~overlap' => EngineInv'
    BY <1>o, <1>13, <2>0 DEF XferRelease, chanVars, engVars, isrVars, queue, history,
       XferTypeOK, Index, DriverInv, FillInv, EngineInv, NoTornDescriptor, Filling, On,
       Loaded, Current, CurrentWord
  <2>5. ~overlap' => IsrInv'
    BY <1>o, <1>13, <2>0 DEF XferRelease, chanVars, engVars, isrVars, queue, history,
       XferTypeOK, Index, DriverInv, FillInv, EngineInv, IsrInv, Filling, On, Loaded,
       Token, Current, CurrentWord
  <2> QED BY <2>1, <2>2, <2>3, <2>4, <2>5
<1>14. CASE ReleaseRegs
  <2>0. ~overlap' => ~overlap /\ FillInv /\ EngineInv /\ IsrInv
    BY <1>14 DEF ReleaseRegs, queue, history
  <2>1. XferTypeOK'
    <3>1. bd' \in [Index -> Descriptor] /\ eng' \in Descriptor /\ isrTmp' \in Command
      BY <1>14 DEF ReleaseRegs, engVars, isrVars, XferTypeOK
    <3>2. opt' \in Options /\ dpc' \in XferPCs /\ i' \in Index /\ n' \in 0..MaxFrags
          /\ gen' \in 0..MaxSetups /\ n_frags' \in 0..MaxFrags /\ current' \in Index
      BY <1>o, <1>14 DEF ReleaseRegs, chanVars, XferTypeOK, XferPCs, Index
    <3>3. alive' \in BOOLEAN /\ ovr' \in BOOLEAN /\ busy' \in BOOLEAN
          /\ intr' \in BOOLEAN /\ aborted' \in BOOLEAN /\ overlap' \in BOOLEAN
      BY <1>14 DEF ReleaseRegs, engVars, queue, history, XferTypeOK
    <3>4. /\ listening' \subseteq {"mask", "event", "callback"}
          /\ isr' \in {"none", "cb", "rmw", "ev"}
          /\ k' \in 0..MaxFrags /\ pulses' \in 0..MaxPulses /\ moved' \in 0..MaxFrags
      BY <1>o, <1>14 DEF ReleaseRegs, engVars, isrVars, queue, XferTypeOK
    <3> QED BY <3>1, <3>2, <3>3, <3>4 DEF XferTypeOK
  <2>2. DriverInv'
    BY <1>o, <1>14 DEF ReleaseRegs, chanVars, engVars, isrVars, queue, history,
       XferTypeOK, Index, DriverInv, Filling, On, Loaded, Token
  <2>3. ~overlap' => FillInv'
    BY <1>o, <1>14, <2>0 DEF ReleaseRegs, chanVars, engVars, isrVars, queue, history,
       XferTypeOK, Index, DriverInv, FillInv, IsrInv, Filling, On, Loaded, Token,
       Current, CurrentWord
  <2>4. ~overlap' => EngineInv'
    BY <1>o, <1>14, <2>0 DEF ReleaseRegs, chanVars, engVars, isrVars, queue, history,
       XferTypeOK, Index, DriverInv, FillInv, EngineInv, NoTornDescriptor, Filling, On,
       Loaded, Current, CurrentWord
  <2>5. ~overlap' => IsrInv'
    BY <1>o, <1>14, <2>0 DEF ReleaseRegs, chanVars, engVars, isrVars, queue, history,
       XferTypeOK, Index, DriverInv, FillInv, EngineInv, IsrInv, Filling, On, Loaded,
       Token, Current, CurrentWord
  <2> QED BY <2>1, <2>2, <2>3, <2>4, <2>5
<1>15. CASE ReleaseListening
  <2>0. ~overlap' => ~overlap /\ FillInv /\ EngineInv /\ IsrInv
    BY <1>15 DEF ReleaseListening, queue, history
  <2>1. XferTypeOK'
    <3>1. bd' \in [Index -> Descriptor] /\ eng' \in Descriptor /\ isrTmp' \in Command
      BY <1>15 DEF ReleaseListening, engVars, isrVars, XferTypeOK
    <3>2. opt' \in Options /\ dpc' \in XferPCs /\ i' \in Index /\ n' \in 0..MaxFrags
          /\ gen' \in 0..MaxSetups /\ n_frags' \in 0..MaxFrags /\ current' \in Index
      BY <1>o, <1>15 DEF ReleaseListening, chanVars, XferTypeOK, XferPCs, Index
    <3>3. alive' \in BOOLEAN /\ ovr' \in BOOLEAN /\ busy' \in BOOLEAN
          /\ intr' \in BOOLEAN /\ aborted' \in BOOLEAN /\ overlap' \in BOOLEAN
      BY <1>15 DEF ReleaseListening, engVars, queue, history, XferTypeOK
    <3>4. /\ listening' \subseteq {"mask", "event", "callback"}
          /\ isr' \in {"none", "cb", "rmw", "ev"}
          /\ k' \in 0..MaxFrags /\ pulses' \in 0..MaxPulses /\ moved' \in 0..MaxFrags
      BY <1>o, <1>15 DEF ReleaseListening, engVars, isrVars, queue, XferTypeOK
    <3> QED BY <3>1, <3>2, <3>3, <3>4 DEF XferTypeOK
  <2>2. DriverInv'
    BY <1>o, <1>15 DEF ReleaseListening, chanVars, engVars, isrVars, queue, history,
       XferTypeOK, Index, DriverInv, Filling, On, Loaded, Token
  <2>3. ~overlap' => FillInv'
    BY <1>o, <1>15, <2>0 DEF ReleaseListening, chanVars, engVars, isrVars, queue,
       history, XferTypeOK, Index, DriverInv, FillInv, IsrInv, Filling, On, Loaded,
       Token, Current, CurrentWord
  <2>4. ~overlap' => EngineInv'
    BY <1>o, <1>15, <2>0 DEF ReleaseListening, chanVars, engVars, isrVars, queue,
       history, XferTypeOK, Index, DriverInv, FillInv, EngineInv, NoTornDescriptor,
       Filling, On, Loaded, Current, CurrentWord
  <2>5. ~overlap' => IsrInv'
    BY <1>o, <1>15, <2>0 DEF ReleaseListening, chanVars, engVars, isrVars, queue,
       history, XferTypeOK, Index, DriverInv, FillInv, EngineInv, IsrInv, Filling, On,
       Loaded, Token, Current, CurrentWord
  <2> QED BY <2>1, <2>2, <2>3, <2>4, <2>5
<1>16. CASE ReleaseDestroy
  <2>0. ~overlap' => ~overlap /\ FillInv /\ EngineInv /\ IsrInv
    BY <1>16 DEF ReleaseDestroy, queue, history
  <2>1. XferTypeOK'
    <3>1. bd' \in [Index -> Descriptor] /\ eng' \in Descriptor /\ isrTmp' \in Command
      BY <1>16 DEF ReleaseDestroy, engVars, isrVars, XferTypeOK
    <3>2. opt' \in Options /\ dpc' \in XferPCs /\ i' \in Index /\ n' \in 0..MaxFrags
          /\ gen' \in 0..MaxSetups /\ n_frags' \in 0..MaxFrags /\ current' \in Index
      BY <1>o, <1>16 DEF ReleaseDestroy, chanVars, XferTypeOK, XferPCs, Index
    <3>3. alive' \in BOOLEAN /\ ovr' \in BOOLEAN /\ busy' \in BOOLEAN
          /\ intr' \in BOOLEAN /\ aborted' \in BOOLEAN /\ overlap' \in BOOLEAN
      BY <1>16 DEF ReleaseDestroy, engVars, queue, history, XferTypeOK
    <3>4. /\ listening' \subseteq {"mask", "event", "callback"}
          /\ isr' \in {"none", "cb", "rmw", "ev"}
          /\ k' \in 0..MaxFrags /\ pulses' \in 0..MaxPulses /\ moved' \in 0..MaxFrags
      BY <1>o, <1>16 DEF ReleaseDestroy, engVars, isrVars, queue, XferTypeOK
    <3> QED BY <3>1, <3>2, <3>3, <3>4 DEF XferTypeOK
  <2>2. DriverInv'
    BY <1>o, <1>16 DEF ReleaseDestroy, chanVars, engVars, isrVars, queue, history,
       XferTypeOK, Index, DriverInv, Filling, On, Loaded, Token
  <2>3. ~overlap' => FillInv'
    BY <1>o, <1>16, <2>0 DEF ReleaseDestroy, chanVars, engVars, isrVars, queue,
       history, XferTypeOK, Index, DriverInv, FillInv, IsrInv, Filling, On, Loaded,
       Token, Current, CurrentWord
  <2>4. ~overlap' => EngineInv'
    BY <1>o, <1>16, <2>0 DEF ReleaseDestroy, chanVars, engVars, isrVars, queue,
       history, XferTypeOK, Index, DriverInv, FillInv, EngineInv, NoTornDescriptor,
       Filling, On, Loaded, Current, CurrentWord
  <2>5. ~overlap' => IsrInv'
    BY <1>o, <1>16, <2>0 DEF ReleaseDestroy, chanVars, engVars, isrVars, queue,
       history, XferTypeOK, Index, DriverInv, FillInv, EngineInv, IsrInv, Filling, On,
       Loaded, Token, Current, CurrentWord
  <2> QED BY <2>1, <2>2, <2>3, <2>4, <2>5
<1>17. CASE IsrTake
  <2>0. ~overlap' => ~overlap /\ FillInv /\ EngineInv /\ IsrInv
    BY <1>17 DEF IsrTake, queue, history
  <2>1. XferTypeOK'
    <3>1. bd' \in [Index -> Descriptor] /\ eng' \in Descriptor /\ isrTmp' \in Command
      BY <1>17 DEF IsrTake, engVars, XferTypeOK
    <3>2. opt' \in Options /\ dpc' \in XferPCs /\ i' \in Index /\ n' \in 0..MaxFrags
          /\ gen' \in 0..MaxSetups /\ n_frags' \in 0..MaxFrags /\ current' \in Index
      BY <1>o, <1>17 DEF IsrTake, chanVars, XferTypeOK, XferPCs, Index
    <3>3. alive' \in BOOLEAN /\ ovr' \in BOOLEAN /\ busy' \in BOOLEAN
          /\ intr' \in BOOLEAN /\ aborted' \in BOOLEAN /\ overlap' \in BOOLEAN
      BY <1>17 DEF IsrTake, engVars, queue, history, XferTypeOK
    <3>4. /\ listening' \subseteq {"mask", "event", "callback"}
          /\ isr' \in {"none", "cb", "rmw", "ev"}
          /\ k' \in 0..MaxFrags /\ pulses' \in 0..MaxPulses /\ moved' \in 0..MaxFrags
      BY <1>o, <1>17 DEF IsrTake, engVars, queue, XferTypeOK
    <3> QED BY <3>1, <3>2, <3>3, <3>4 DEF XferTypeOK
  <2>2. DriverInv'
    BY <1>o, <1>17 DEF IsrTake, chanVars, engVars, queue, history, XferTypeOK, Index,
       DriverInv, Filling, On, Loaded, Token
  <2>3. ~overlap' => FillInv'
    BY <1>o, <1>17, <2>0 DEF IsrTake, chanVars, engVars, queue, history, XferTypeOK,
       Index, DriverInv, FillInv, IsrInv, Filling, On, Loaded, Token, Current,
       CurrentWord
  <2>4. ~overlap' => EngineInv'
    BY <1>o, <1>17, <2>0 DEF IsrTake, chanVars, engVars, queue, history, XferTypeOK,
       Index, DriverInv, FillInv, EngineInv, NoTornDescriptor, Filling, On, Loaded,
       Current, CurrentWord
  <2>5. ~overlap' => IsrInv'
    BY <1>o, <1>17, <2>0 DEF IsrTake, chanVars, engVars, queue, history, XferTypeOK,
       Index, DriverInv, FillInv, EngineInv, IsrInv, Filling, On, Loaded, Token, Current,
       CurrentWord
  <2> QED BY <2>1, <2>2, <2>3, <2>4, <2>5
<1>18. CASE IsrRead
  <2>w. bd' \in [Index -> Descriptor] /\ isrTmp' \in Command
    BY <1>o, <1>18 DEF IsrRead, XferTypeOK, Index, Descriptor
  <2>0. ~overlap' => ~overlap /\ FillInv /\ EngineInv /\ IsrInv
    BY <1>18 DEF IsrRead, queue, history
  <2>1. XferTypeOK'
    <3>1. bd' \in [Index -> Descriptor] /\ eng' \in Descriptor /\ isrTmp' \in Command
      BY <1>18, <2>w DEF IsrRead, engVars, XferTypeOK
    <3>2. opt' \in Options /\ dpc' \in XferPCs /\ i' \in Index /\ n' \in 0..MaxFrags
          /\ gen' \in 0..MaxSetups /\ n_frags' \in 0..MaxFrags /\ current' \in Index
      BY <1>o, <1>18 DEF IsrRead, chanVars, XferTypeOK, XferPCs, Index
    <3>3. alive' \in BOOLEAN /\ ovr' \in BOOLEAN /\ busy' \in BOOLEAN
          /\ intr' \in BOOLEAN /\ aborted' \in BOOLEAN /\ overlap' \in BOOLEAN
      BY <1>18 DEF IsrRead, engVars, queue, history, XferTypeOK
    <3>4. /\ listening' \subseteq {"mask", "event", "callback"}
          /\ isr' \in {"none", "cb", "rmw", "ev"}
          /\ k' \in 0..MaxFrags /\ pulses' \in 0..MaxPulses /\ moved' \in 0..MaxFrags
      BY <1>o, <1>18 DEF IsrRead, engVars, queue, XferTypeOK
    <3> QED BY <3>1, <3>2, <3>3, <3>4 DEF XferTypeOK
  <2>2. DriverInv'
    BY <1>o, <1>18 DEF IsrRead, chanVars, engVars, queue, history, XferTypeOK, Index,
       DriverInv, Filling, On, Loaded, Token
  <2>3. ~overlap' => FillInv'
    BY <1>o, <1>18, <2>w, <2>0 DEF IsrRead, chanVars, engVars, queue, history,
       XferTypeOK, Index, DriverInv, FillInv, IsrInv, Filling, On, Loaded, Token,
       Current, CurrentWord
  <2>4. ~overlap' => EngineInv'
    BY <1>o, <1>18, <2>w, <2>0 DEF IsrRead, chanVars, engVars, queue, history,
       XferTypeOK, Index, DriverInv, FillInv, EngineInv, NoTornDescriptor, Filling, On,
       Loaded, Current, CurrentWord
  <2>5. ~overlap' => IsrInv'
    BY <1>o, <1>18, <2>w, <2>0 DEF IsrRead, chanVars, engVars, queue, history,
       XferTypeOK, Index, DriverInv, FillInv, EngineInv, IsrInv, Filling, On, Loaded,
       Token, Current, CurrentWord
  <2> QED BY <2>1, <2>2, <2>3, <2>4, <2>5
<1>19. CASE IsrWrite
  <2>k. k \in Index BY <1>19 DEF IsrWrite, DriverInv, Index, XferTypeOK
  <2>w. /\ bd' \in [Index -> Descriptor]
        /\ \A y \in Index : /\ bd'[y].buf = bd[y].buf
                            /\ y # k => bd'[y].word = bd[y].word
                            /\ y = k => bd'[y].word.done /\ bd'[y].word.cmd = isrTmp.cmd
                                  /\ (bd'[y].word.wrap <=> isrTmp.wrap) /\ (bd'[y].word.int <=> isrTmp.int)
    <3> DEFINE w == [isrTmp EXCEPT !.done = TRUE]
    <3>1. w \in Command /\ w.done /\ w.cmd = isrTmp.cmd
          /\ (w.wrap <=> isrTmp.wrap) /\ (w.int <=> isrTmp.int)
      BY DEF Command, XferTypeOK
    <3>2. bd' = [bd EXCEPT ![k].word = w] BY <1>19 DEF IsrWrite
    <3> HIDE DEF w
    <3> QED BY <2>k, <3>1, <3>2, WordWritten DEF XferTypeOK
  <2>0. ~overlap' => ~overlap /\ FillInv /\ EngineInv /\ IsrInv
    BY <1>19 DEF IsrWrite, queue, history
  <2>1. XferTypeOK'
    <3>1. bd' \in [Index -> Descriptor] /\ eng' \in Descriptor /\ isrTmp' \in Command
      BY <1>19, <2>k, <2>w, NoDescriptor DEF IsrWrite, engVars, XferTypeOK
    <3>2. opt' \in Options /\ dpc' \in XferPCs /\ i' \in Index /\ n' \in 0..MaxFrags
          /\ gen' \in 0..MaxSetups /\ n_frags' \in 0..MaxFrags /\ current' \in Index
      BY <1>o, <1>19 DEF IsrWrite, chanVars, XferTypeOK, XferPCs, Index
    <3>3. alive' \in BOOLEAN /\ ovr' \in BOOLEAN /\ busy' \in BOOLEAN
          /\ intr' \in BOOLEAN /\ aborted' \in BOOLEAN /\ overlap' \in BOOLEAN
      BY <1>19 DEF IsrWrite, engVars, queue, history, XferTypeOK
    <3>4. /\ listening' \subseteq {"mask", "event", "callback"}
          /\ isr' \in {"none", "cb", "rmw", "ev"}
          /\ k' \in 0..MaxFrags /\ pulses' \in 0..MaxPulses /\ moved' \in 0..MaxFrags
      BY <1>o, <1>19 DEF IsrWrite, engVars, queue, XferTypeOK, DriverInv
    <3> QED BY <3>1, <3>2, <3>3, <3>4 DEF XferTypeOK
  <2>2. DriverInv'
    BY <1>o, <1>19 DEF IsrWrite, chanVars, engVars, queue, history, XferTypeOK, Index,
       DriverInv, Filling, On, Loaded, Token
  <2>3. ~overlap' => FillInv'
    BY <1>o, <1>19, <2>k, <2>w, <2>0 DEF IsrWrite, chanVars, engVars, queue, history,
       XferTypeOK, Index, DriverInv, FillInv, IsrInv, Filling, On, Loaded, Token,
       Current, CurrentWord
  <2>4. ~overlap' => EngineInv'
    BY <1>o, <1>19, <2>k, <2>w, <2>0 DEF IsrWrite, chanVars, engVars, queue, history,
       XferTypeOK, Index, DriverInv, FillInv, EngineInv, NoTornDescriptor, Filling, On,
       Loaded, Current, CurrentWord
  <2>5. ~overlap' => IsrInv'
    BY <1>o, <1>19, <2>k, <2>w, <2>0 DEF IsrWrite, chanVars, engVars, queue, history,
       XferTypeOK, Index, DriverInv, FillInv, EngineInv, IsrInv, Filling, On, Loaded,
       Token, Current, CurrentWord
  <2> QED BY <2>1, <2>2, <2>3, <2>4, <2>5
<1>20. CASE IsrReturn
  <2>0. ~overlap' => ~overlap /\ FillInv /\ EngineInv /\ IsrInv
    BY <1>20 DEF IsrReturn, history
  <2>1. XferTypeOK'
    <3>1. bd' \in [Index -> Descriptor] /\ eng' \in Descriptor /\ isrTmp' \in Command
      BY <1>20 DEF IsrReturn, engVars, XferTypeOK
    <3>2. opt' \in Options /\ dpc' \in XferPCs /\ i' \in Index /\ n' \in 0..MaxFrags
          /\ gen' \in 0..MaxSetups /\ n_frags' \in 0..MaxFrags /\ current' \in Index
      BY <1>o, <1>20 DEF IsrReturn, chanVars, XferTypeOK, XferPCs, Index
    <3>3. alive' \in BOOLEAN /\ ovr' \in BOOLEAN /\ busy' \in BOOLEAN
          /\ intr' \in BOOLEAN /\ aborted' \in BOOLEAN /\ overlap' \in BOOLEAN
      BY <1>20 DEF IsrReturn, engVars, history, XferTypeOK
    <3>4. /\ listening' \subseteq {"mask", "event", "callback"}
          /\ isr' \in {"none", "cb", "rmw", "ev"}
          /\ k' \in 0..MaxFrags /\ pulses' \in 0..MaxPulses /\ moved' \in 0..MaxFrags
      BY <1>o, <1>20 DEF IsrReturn, engVars, XferTypeOK
    <3> QED BY <3>1, <3>2, <3>3, <3>4 DEF XferTypeOK
  <2>2. DriverInv'
    BY <1>o, <1>20 DEF IsrReturn, chanVars, engVars, history, XferTypeOK, Index,
       DriverInv, Filling, On, Loaded, Token
  <2>3. ~overlap' => FillInv'
    BY <1>o, <1>20, <2>0 DEF IsrReturn, chanVars, engVars, history, XferTypeOK, Index,
       DriverInv, FillInv, IsrInv, Filling, On, Loaded, Token, Current, CurrentWord
  <2>4. ~overlap' => EngineInv'
    BY <1>o, <1>20, <2>0 DEF IsrReturn, chanVars, engVars, history, XferTypeOK, Index,
       DriverInv, FillInv, EngineInv, NoTornDescriptor, Filling, On, Loaded, Current,
       CurrentWord
  <2>5. ~overlap' => IsrInv'
    BY <1>o, <1>20, <2>0 DEF IsrReturn, chanVars, engVars, history, XferTypeOK, Index,
       DriverInv, FillInv, EngineInv, IsrInv, Filling, On, Loaded, Token, Current,
       CurrentWord
  <2> QED BY <2>1, <2>2, <2>3, <2>4, <2>5
<1>21. CASE EngineFetch
  <2>w. bd' = bd /\ bd' \in [Index -> Descriptor] /\ eng' \in Descriptor
    BY <1>21 DEF EngineFetch, XferTypeOK
  <2>0. ~overlap' => ~overlap /\ FillInv /\ EngineInv /\ IsrInv
    BY <1>21 DEF EngineFetch, queue, history
  <2>1. XferTypeOK'
    <3>1. bd' \in [Index -> Descriptor] /\ eng' \in Descriptor /\ isrTmp' \in Command
      BY <1>21, <2>w DEF EngineFetch, isrVars, XferTypeOK
    <3>2. opt' \in Options /\ dpc' \in XferPCs /\ i' \in Index /\ n' \in 0..MaxFrags
          /\ gen' \in 0..MaxSetups /\ n_frags' \in 0..MaxFrags /\ current' \in Index
      BY <1>o, <1>21 DEF EngineFetch, chanVars, XferTypeOK, XferPCs, Index
    <3>3. alive' \in BOOLEAN /\ ovr' \in BOOLEAN /\ busy' \in BOOLEAN
          /\ intr' \in BOOLEAN /\ aborted' \in BOOLEAN /\ overlap' \in BOOLEAN
      BY <1>21 DEF EngineFetch, queue, history, XferTypeOK
    <3>4. /\ listening' \subseteq {"mask", "event", "callback"}
          /\ isr' \in {"none", "cb", "rmw", "ev"}
          /\ k' \in 0..MaxFrags /\ pulses' \in 0..MaxPulses /\ moved' \in 0..MaxFrags
      BY <1>o, <1>21 DEF EngineFetch, isrVars, queue, XferTypeOK
    <3> QED BY <3>1, <3>2, <3>3, <3>4 DEF XferTypeOK
  <2>2. DriverInv'
    BY <1>o, <1>21 DEF EngineFetch, chanVars, isrVars, queue, history, XferTypeOK,
       Index, DriverInv, Filling, On, Loaded, Token
  <2>3. ~overlap' => FillInv'
    BY <1>o, <1>21, <2>w, <2>0 DEF EngineFetch, chanVars, isrVars, queue, history,
       XferTypeOK, Index, DriverInv, FillInv, IsrInv, Filling, On, Loaded, Token,
       Current, CurrentWord
  <2>4. ~overlap' => EngineInv'
    BY <1>o, <1>21, <2>w, <2>0 DEF EngineFetch, chanVars, isrVars, queue, history,
       XferTypeOK, Index, DriverInv, FillInv, EngineInv, NoTornDescriptor, Filling, On,
       Loaded, Current, CurrentWord
  <2>5. ~overlap' => IsrInv'
    BY <1>o, <1>21, <2>w, <2>0 DEF EngineFetch, chanVars, isrVars, queue, history,
       XferTypeOK, Index, DriverInv, FillInv, EngineInv, IsrInv, Filling, On, Loaded,
       Token, Current, CurrentWord
  <2> QED BY <2>1, <2>2, <2>3, <2>4, <2>5
<1>22. CASE EngineDone
  <2>w. /\ bd' \in [Index -> Descriptor]
        /\ \A y \in Index : bd'[y].buf = bd[y].buf /\ bd'[y].word.cmd = bd[y].word.cmd
                             /\ (bd'[y].word.wrap <=> bd[y].word.wrap)
                             /\ (bd'[y].word.int <=> bd[y].word.int)
                             /\ (bd'[y].word.done <=> ~(y = current /\ alive) /\ bd[y].word.done)
    <3>1. CASE alive
      <4>1. bd' = [bd EXCEPT ![current].word.done = FALSE] BY <1>22, <3>1 DEF EngineDone
      <4>2. bd \in [Index -> Descriptor] /\ current \in Index BY DEF XferTypeOK
      <4>3. /\ bd' \in [Index -> Descriptor]
            /\ \A y \in Index : bd'[y].buf = bd[y].buf /\ bd'[y].word.cmd = bd[y].word.cmd
                             /\ (bd'[y].word.wrap <=> bd[y].word.wrap)
                             /\ (bd'[y].word.int <=> bd[y].word.int)
                             /\ (bd'[y].word.done <=> y # current /\ bd[y].word.done)
        BY <4>1, <4>2, DoneCleared, Zenon
      <4> QED BY <3>1, <4>3
    <3>2. CASE ~alive BY <1>22, <3>2 DEF EngineDone, XferTypeOK
    <3> QED BY <3>1, <3>2
  <2>0. ~overlap' => ~overlap /\ FillInv /\ EngineInv /\ IsrInv
    BY <1>22 DEF EngineDone, queue, history
  <2>1. XferTypeOK'
    <3>1. bd' \in [Index -> Descriptor] /\ eng' \in Descriptor /\ isrTmp' \in Command
      BY <1>22, <2>w, NoDescriptor DEF EngineDone, isrVars, XferTypeOK
    <3>2. opt' \in Options /\ dpc' \in XferPCs /\ i' \in Index /\ n' \in 0..MaxFrags
          /\ gen' \in 0..MaxSetups /\ n_frags' \in 0..MaxFrags /\ current' \in Index
      BY <1>o, <1>22 DEF EngineDone, chanVars, XferTypeOK, XferPCs, Index
    <3>3. alive' \in BOOLEAN /\ ovr' \in BOOLEAN /\ busy' \in BOOLEAN
          /\ intr' \in BOOLEAN /\ aborted' \in BOOLEAN /\ overlap' \in BOOLEAN
      BY <1>22 DEF EngineDone, queue, history, XferTypeOK, Descriptor, Command
    <3>4. /\ listening' \subseteq {"mask", "event", "callback"}
          /\ isr' \in {"none", "cb", "rmw", "ev"}
          /\ k' \in 0..MaxFrags /\ pulses' \in 0..MaxPulses /\ moved' \in 0..MaxFrags
      BY <1>o, <1>22 DEF EngineDone, isrVars, queue, XferTypeOK, Capped
    <3> QED BY <3>1, <3>2, <3>3, <3>4 DEF XferTypeOK
  <2>2. DriverInv'
    BY <1>o, <1>22 DEF EngineDone, chanVars, isrVars, queue, history, XferTypeOK,
       Index, DriverInv, Filling, On, Loaded, Token
  <2>3. ~overlap' => FillInv'
    BY <1>o, <1>22, <2>w, <2>0 DEF EngineDone, chanVars, isrVars, queue, history,
       XferTypeOK, Index, DriverInv, FillInv, IsrInv, Filling, On, Loaded, Token,
       Current, CurrentWord
  <2>e. On /\ ~overlap => /\ Current(current) /\ current < n /\ alive
                          /\ eng.buf = gen /\ CurrentWord(eng.word, current)
    BY <1>22 DEF EngineDone, XferTypeOK, Index, DriverInv, FillInv, EngineInv, On,
       Loaded
  <2>f. On /\ ~overlap => current' = IF current = n - 1 THEN 0 ELSE current + 1
    <3>1. current \in Nat /\ n \in Nat /\ n <= MaxFrags BY DEF XferTypeOK, Index
    <3>2. On /\ ~overlap => (eng.word.wrap <=> current = n - 1) /\ current < n
      BY <2>e DEF CurrentWord
    <3> QED BY <1>22, <3>1, <3>2 DEF EngineDone
  <2>g. n' = n /\ opt' = opt /\ (On' <=> On) /\ (On => n > 0) /\ (aborted' <=> aborted)
        /\ current \in Nat /\ n \in 0..MaxFrags /\ moved \in 0..MaxFrags
    BY <1>22 DEF EngineDone, chanVars, queue, history, DriverInv, On, Loaded,
       XferTypeOK, Index
  <2>4. ~overlap' => EngineInv'
    <3> SUFFICES ASSUME ~overlap' PROVE EngineInv' OBVIOUS
    <3>1. ~busy' BY <1>22 DEF EngineDone
    <3>2. On' => current' < n' BY <2>0, <2>e, <2>f, <2>g
    <3>3. ASSUME opt'.notify # "segment" \/ ~aborted', On', moved' < n'
          PROVE  current' = moved' /\ \A x \in current'..(n' - 1) : bd'[x].word.done
      BY <1>22, <2>0, <2>e, <2>f, <2>g, <2>w, <3>3 DEF EngineDone, Capped, XferTypeOK,
         Index, EngineInv
    <3>4. ASSUME opt'.notify # "segment" \/ ~aborted', On', ~opt'.regen
          PROVE  /\ moved' >= n' => current' = 0
                 /\ \A x \in 0..(n' - 1) : bd'[x].word.done => moved' < n' /\ x >= current'
      BY <1>22, <2>0, <2>e, <2>f, <2>g, <2>w, <3>4 DEF EngineDone, Capped, XferTypeOK,
         Index, EngineInv
    <3> QED BY <3>1, <3>2, <3>3, <3>4 DEF EngineInv, NoTornDescriptor
  <2>5. ~overlap' => IsrInv'
    <3> SUFFICES ASSUME ~overlap' PROVE IsrInv' OBVIOUS
    <3>1. /\ Loaded' /\ isr' = "cb" => k' <= n'
          /\ Loaded' /\ isr' = "rmw" => k' < n' /\ CurrentWord(isrTmp, k)'
      BY <1>22, <2>0, <2>g DEF EngineDone, chanVars, isrVars, IsrInv, CurrentWord,
         Loaded, On
    <3>2. opt'.notify = "poll" => ~intr'
      BY <1>22, <2>0, <2>g DEF EngineDone, IsrInv, EngineInv
    <3>3. ASSUME opt'.notify = "complete", ~aborted'
          PROVE  /\ Token' => On' /\ moved' >= n'
                 /\ dpc' = "signalled" => moved' >= n'
                 /\ ~opt'.regen => /\ intr' => isr' = "none" /\ pulses' = 0
                                   /\ isr' # "none" => pulses' = 0
                                   /\ pulses' <= 1
                                   /\ dpc' = "signalled" => ~Token'
      <4>1. On BY <1>22, <2>g, <3>3 DEF EngineDone, DriverInv
      <4>2. eng.word.int <=> current = n - 1
        BY <2>0, <2>e, <2>g, <3>3, <4>1 DEF CurrentWord
      <4>3. moved < n => current = moved
        BY <2>0, <2>g, <3>3, <4>1 DEF EngineInv
      <4>4. ~opt.regen => moved < n
        BY <1>22, <2>0, <2>g, <3>3, <4>1 DEF EngineDone, EngineInv
      <4>5. ~opt.regen => ~Token /\ dpc # "signalled"
        BY <2>0, <2>g, <3>3, <4>4 DEF IsrInv, XferTypeOK
      <4> QED
        BY <1>22, <2>0, <2>g, <3>3, <4>1, <4>2, <4>3, <4>4, <4>5 DEF EngineDone,
           isrVars, queue, Capped, XferTypeOK, IsrInv, Token
    <3>4. opt'.notify = "poll" /\ dpc' = "signalled" => moved' >= n'
      BY <1>22, <2>0, <2>g DEF EngineDone, Capped, IsrInv
    <3> QED BY <3>1, <3>2, <3>3, <3>4 DEF IsrInv
  <2> QED BY <2>1, <2>2, <2>3, <2>4, <2>5
<1>u. CASE UNCHANGED xferVars
  BY <1>u DEF xferVars, XferTypeOK, DriverInv, FillInv, EngineInv, IsrInv, Loaded,
     NoTornDescriptor, Token, On, Current, CurrentWord
<1> QED
  BY <1>1, <1>2, <1>3, <1>4, <1>5, <1>6, <1>7, <1>8, <1>9, <1>10, <1>11, <1>12, <1>13,
     <1>14, <1>15, <1>16, <1>17, <1>18, <1>19, <1>20, <1>21, <1>22, <1>u DEF XferNext,
     Driver, Calls, Isr, Engine

(* The inductive invariant holds in every state.                           *)
LEMMA XferInvariant == XferSpec => []XferInv
<1>1. XferInit => XferInv BY XferInitially
<1>2. XferInv /\ [XferNext]_xferVars => XferInv' BY XferPreserved
<1> QED BY <1>1, <1>2, PTL DEF XferSpec

(* Every variable keeps its type.                                          *)
THEOREM XferTypeCorrect == XferSpec => []XferTypeOK
<1>1. XferInv => XferTypeOK BY DEF XferInv
<1> QED BY <1>1, XferInvariant, PTL

(* For any number of fragments and set-ups, any notification, ring or not, *)
(* with the callback or without, and any number of aborts and restarts: as *)
(* long as no transfer begins over one that was stopped and is not at rest, *)
(* the engine never works on a descriptor whose command and buffer are of  *)
(* different set-ups, since sdma_setup_xfer enables a descriptor last and  *)
(* the callback writes back the command it has read.                       *)
THEOREM TornCorrect == XferSpec => []NeverTornAtRest
<1>1. XferInv => NeverTornAtRest BY DEF XferInv, EngineInv, NeverTornAtRest
<1> QED BY <1>1, XferInvariant, PTL

(* A driver that is told of the completion of its transfer, by the event   *)
(* or by sdma_bytes_left, has all of its fragments moved, unless it has    *)
(* aborted a transfer whose event was still on its way, or has begun one   *)
(* over a transfer that was not at rest.                                   *)
THEOREM CompletionCorrect == XferSpec => []CompletionMeansAll
<1>1. XferInv => CompletionMeansAll
  BY OptionsAssumption DEF XferInv, XferTypeOK, Option, DriverInv, On, Loaded, IsrInv,
     CompletionMeansAll
<1> QED BY <1>1, XferInvariant, PTL

(* sdma_xfer_abort and sdma_xfer_complete leave the engine at the head of  *)
(* the ring: while a transfer runs, aborted rings with a callback included, *)
(* the engine works on the buffers of that set-up and never on those of an *)
(* earlier one.                                                            *)
THEOREM CurrentCorrect == XferSpec => []WorksOnCurrentSetup
<1>1. XferInv => WorksOnCurrentSetup BY DEF XferInv, EngineInv, On, WorksOnCurrentSetup
<1> QED BY <1>1, XferInvariant, PTL
=============================================================================
