--------------------------- MODULE SdmaLibProofs ---------------------------
(***************************************************************************)
(* Proofs about SdmaLib for any finite set of processes, any nesting and   *)
(* any number of deaths, with the shared object in place (Preloaded).      *)
(***************************************************************************)
EXTENDS SdmaLib, FiniteSetTheorems, TLAPS

(* The counted processes are finitely many.                                *)
LEMMA CountedFinite ==
  /\ IsFiniteSet(Counted) /\ Cardinality(Counted) \in Nat
  /\ IsFiniteSet(Counted') /\ Cardinality(Counted') \in Nat
<1>1. Counted \in SUBSET Procs /\ Counted' \in SUBSET Procs
  BY DEF Counted
<1>2. IsFiniteSet(Counted) /\ IsFiniteSet(Counted')
  BY <1>1, FS_Subset, ProcsAssumption
<1> QED BY <1>2, FS_CardinalityType

(* A counted process that sees a count of one is the only counted process: *)
(* what sdmasync_is_first_process relies on.                               *)
LEMMA FirstIsAlone ==
  ASSUME TypeOK, shm = "ready", CountExact, IsFirst,
         NEW p \in Counted, NEW q \in Counted
  PROVE  q = p
<1>1. Cardinality(Counted) <= 1
  BY CountedFinite DEF CountExact, IsFirst, TypeOK
<1>2. {p, q} \in SUBSET Counted
  OBVIOUS
<1>3. Cardinality({p, q}) <= 1 /\ IsFiniteSet({p, q})
  <2>1. Cardinality({p, q}) <= Cardinality(Counted) /\ IsFiniteSet({p, q})
    BY <1>2, CountedFinite, FS_Subset
  <2>2. Cardinality({p, q}) \in Nat
    BY <2>1, FS_CardinalityType
  <2> QED BY <1>1, <2>1, <2>2, CountedFinite
<1>4. IsFiniteSet({p}) /\ Cardinality({p}) = 1
  BY FS_Singleton
<1>5. Cardinality({p} \cup {q}) = IF q \in {p} THEN 1 ELSE 2
  BY <1>4, FS_AddElement
<1>6. {p} \cup {q} = {p, q}
  OBVIOUS
<1> QED BY <1>3, <1>5, <1>6

(* The initial state satisfies the inductive invariant.                    *)
LEMMA InitIInv == ASSUME Preloaded, Init PROVE IInv
<1>1. Counted = {}
  BY DEF Init, Counted, CountedPC
<1>2. CountExact
  BY <1>1, FS_EmptySet DEF Init, CountExact
<1>3. TypeOK
  BY NamesAssumption DEF Init, TypeOK, Block, PCs, Resources
<1>4. LockHeld /\ UsersAt /\ BlocksAt
  BY DEF Init, LockHeld, UsersAt, BlocksAt, CritPC, InitPC, FiniPC, Ready
<1>5. ResourcesAt
  BY DEF Init, ResourcesAt, Ready
<1> QED BY <1>2, <1>3, <1>4, <1>5 DEF Init, IInv


(* How the count follows the set of counted processes.                     *)
LEMMA CountSame ==
  ASSUME CountExact, shm = "ready", Counted' = Counted,
         cnt' = cnt, leaked' = leaked
  PROVE  CountExact'
BY DEF CountExact

LEMMA CountAdd ==
  ASSUME TypeOK, CountExact, shm = "ready", NEW p \in Procs, p \notin Counted,
         Counted' = Counted \cup {p}, cnt' = cnt + 1, leaked' = leaked
  PROVE  CountExact'
<1>1. Cardinality(Counted') = Cardinality(Counted) + 1
  BY CountedFinite, FS_AddElement
<1> QED BY <1>1, CountedFinite DEF CountExact, TypeOK

LEMMA CountRemove ==
  ASSUME TypeOK, CountExact, shm = "ready", NEW p \in Counted,
         Counted' = Counted \ {p},
         \/ cnt' = cnt - 1 /\ leaked' = leaked
         \/ cnt' = cnt /\ leaked' = leaked + 1
  PROVE  CountExact'
<1>1. Cardinality(Counted') = Cardinality(Counted) - 1
  BY CountedFinite, FS_RemoveElement
<1> QED BY <1>1, CountedFinite DEF CountExact, TypeOK


(* Every step preserves the inductive invariant.                           *)
LEMMA NextIInv == ASSUME IInv, [Next]_vars PROVE IInv'
<1> USE DEF IInv
<1>u. CASE UNCHANGED vars
  <2>1. TypeOK' /\ shm' = "ready" /\ LockHeld' /\ UsersAt' /\ ResourcesAt'
    BY <1>u DEF vars, TypeOK, LockHeld, UsersAt, ResourcesAt, Ready
  <2>2. Counted' = Counted
    BY <1>u DEF vars, Counted
  <2>3. CountExact'
    BY <1>u, <2>2, CountSame DEF vars
  <2>4. BlocksAt'
    BY <1>u DEF vars, BlocksAt, Ready, Published
  <2> QED BY <2>1, <2>3, <2>4
<1>n. ASSUME NEW p \in Procs, LibStep(p) \/ Call(p) \/ Crash(p)
      PROVE  IInv'
  <2>1. CASE Ctor(p)
    <3>1. TypeOK' /\ shm' = "ready"
      BY <2>1, NamesAssumption DEF Ctor, Goto, shared, hist, TypeOK, Block,
          PCs, Resources, UsersAt, InitPC
    <3>2. LockHeld'
      BY <2>1, NamesAssumption DEF Ctor, Goto, shared, hist, LockHeld,
          CritPC, TypeOK
    <3>3. UsersAt'
      BY <2>1 DEF Ctor, Goto, shared, hist, UsersAt, InitPC, FiniPC, TypeOK
    <3>4. ResourcesAt'
      BY <2>1 DEF Ctor, Goto, shared, hist, ResourcesAt, Ready, Resources,
          TypeOK, UsersAt, InitPC, FiniPC
    <3>5. CountExact'
      <4>1. Counted' = Counted
        BY <2>1 DEF Ctor, Goto, shared, hist, Counted, CountedPC, TypeOK,
            UsersAt, InitPC, FiniPC
      <4> QED BY <4>1, <2>1, CountSame DEF Ctor, Goto, shared, hist
    <3>6. BlocksAt'
      BY <2>1, NamesAssumption DEF Ctor, Goto, shared, hist, BlocksAt,
          Ready, Published, LockHeld, CritPC, UsersAt, InitPC, FiniPC, TypeOK
    <3> QED BY <3>1, <3>2, <3>3, <3>4, <3>5, <3>6
  <2>2. CASE CtorInit(p)
    BY <2>2 DEF CtorInit, UsersAt
  <2>3. CASE Dtor(p)
    <3>1. TypeOK' /\ shm' = "ready"
      BY <2>3, NamesAssumption DEF Dtor, Goto, shared, hist, TypeOK, Block,
          PCs, Resources, UsersAt, InitPC
    <3>2. LockHeld'
      BY <2>3, NamesAssumption DEF Dtor, Goto, shared, hist, LockHeld,
          CritPC, TypeOK
    <3>3. UsersAt'
      BY <2>3 DEF Dtor, Goto, shared, hist, UsersAt, InitPC, FiniPC, TypeOK
    <3>4. ResourcesAt'
      BY <2>3 DEF Dtor, Goto, shared, hist, ResourcesAt, Ready, Resources,
          TypeOK, UsersAt, InitPC, FiniPC
    <3>5. CountExact'
      <4>1. Counted' = Counted
        BY <2>3 DEF Dtor, Goto, shared, hist, Counted, CountedPC, TypeOK,
            UsersAt, InitPC, FiniPC
      <4> QED BY <4>1, <2>3, CountSame DEF Dtor, Goto, shared, hist
    <3>6. BlocksAt'
      BY <2>3, NamesAssumption DEF Dtor, Goto, shared, hist, BlocksAt,
          Ready, Published, LockHeld, CritPC, UsersAt, InitPC, FiniPC, TypeOK
    <3> QED BY <3>1, <3>2, <3>3, <3>4, <3>5, <3>6
  <2>4. CASE InitBegin(p)
    <3>1. TypeOK' /\ shm' = "ready"
      BY <2>4, NamesAssumption DEF InitBegin, Goto, shared, hist, TypeOK,
          Block, PCs, Resources, UsersAt, InitPC
    <3>2. LockHeld'
      BY <2>4, NamesAssumption DEF InitBegin, Goto, shared, hist, LockHeld,
          CritPC, TypeOK
    <3>3. UsersAt'
      BY <2>4 DEF InitBegin, Goto, shared, hist, UsersAt, InitPC, FiniPC, TypeOK
    <3>4. ResourcesAt'
      BY <2>4 DEF InitBegin, Goto, shared, hist, ResourcesAt, Ready,
          Resources, TypeOK, UsersAt, InitPC, FiniPC
    <3>5. CountExact'
      <4>1. Counted' = Counted
        BY <2>4 DEF InitBegin, Goto, shared, hist, Counted, CountedPC,
            TypeOK, UsersAt, InitPC, FiniPC
      <4> QED BY <4>1, <2>4, CountSame DEF InitBegin, Goto, shared, hist
    <3>6. BlocksAt'
      BY <2>4, NamesAssumption DEF InitBegin, Goto, shared, hist, BlocksAt,
          Ready, Published, LockHeld, CritPC, UsersAt, InitPC, FiniPC, TypeOK
    <3> QED BY <3>1, <3>2, <3>3, <3>4, <3>5, <3>6
  <2>5. CASE InitOpen(p)
    <3>1. TypeOK' /\ shm' = "ready"
      BY <2>5, NamesAssumption DEF InitOpen, Goto, shared, hist, TypeOK,
          Block, PCs, Resources, UsersAt, InitPC
    <3>2. LockHeld'
      BY <2>5, NamesAssumption DEF InitOpen, Goto, shared, hist, LockHeld,
          CritPC, TypeOK
    <3>3. UsersAt'
      BY <2>5 DEF InitOpen, Goto, shared, hist, UsersAt, InitPC, FiniPC, TypeOK
    <3>4. ResourcesAt'
      BY <2>5 DEF InitOpen, Goto, shared, hist, ResourcesAt, Ready,
          Resources, TypeOK, UsersAt, InitPC, FiniPC
    <3>5. CountExact'
      <4>1. Counted' = Counted
        BY <2>5 DEF InitOpen, Goto, shared, hist, Counted, CountedPC,
            TypeOK, UsersAt, InitPC, FiniPC
      <4> QED BY <4>1, <2>5, CountSame DEF InitOpen, Goto, shared, hist
    <3>6. BlocksAt'
      BY <2>5, NamesAssumption DEF InitOpen, Goto, shared, hist, BlocksAt,
          Ready, Published, LockHeld, CritPC, UsersAt, InitPC, FiniPC, TypeOK
    <3> QED BY <3>1, <3>2, <3>3, <3>4, <3>5, <3>6
  <2>6. CASE InitLock(p)
    <3>1. TypeOK' /\ shm' = "ready"
      BY <2>6, NamesAssumption DEF InitLock, LibinitLock, Goto, shared,
          hist, TypeOK, Block, PCs, Resources, UsersAt, InitPC
    <3>2. LockHeld'
      BY <2>6, NamesAssumption DEF InitLock, LibinitLock, Goto, shared,
          hist, LockHeld, CritPC, TypeOK
    <3>3. UsersAt'
      BY <2>6 DEF InitLock, LibinitLock, Goto, shared, hist, UsersAt,
          InitPC, FiniPC, TypeOK
    <3>4. ResourcesAt'
      BY <2>6 DEF InitLock, LibinitLock, Goto, shared, hist, ResourcesAt,
          Ready, Resources, TypeOK, UsersAt, InitPC, FiniPC
    <3>5. CountExact'
      <4>1. Counted' = Counted
        BY <2>6 DEF InitLock, LibinitLock, Goto, shared, hist, Counted,
            CountedPC, TypeOK, UsersAt, InitPC, FiniPC
      <4> QED BY <4>1, <2>6, CountSame DEF InitLock, LibinitLock, Goto,
          shared, hist
    <3>6. BlocksAt'
      BY <2>6, NamesAssumption DEF InitLock, LibinitLock, Goto, shared,
          hist, BlocksAt, Ready, Published, LockHeld, CritPC, UsersAt, InitPC,
          FiniPC, TypeOK
    <3> QED BY <3>1, <3>2, <3>3, <3>4, <3>5, <3>6
  <2>7. CASE CntIncr(p)
    <3>1. TypeOK' /\ shm' = "ready"
      BY <2>7, NamesAssumption DEF CntIncr, Goto, shared, hist, TypeOK,
          Block, PCs, Resources, UsersAt, InitPC
    <3>2. LockHeld'
      BY <2>7, NamesAssumption DEF CntIncr, Goto, shared, hist, LockHeld,
          CritPC, TypeOK
    <3>3. UsersAt'
      BY <2>7 DEF CntIncr, Goto, shared, hist, UsersAt, InitPC, FiniPC, TypeOK
    <3>4. ResourcesAt'
      BY <2>7 DEF CntIncr, Goto, shared, hist, ResourcesAt, Ready,
          Resources, TypeOK, UsersAt, InitPC, FiniPC
    <3>5. CountExact'
      <4>1. p \notin Counted /\ Counted' = Counted \cup {p}
        BY <2>7 DEF CntIncr, Goto, shared, hist, Counted, CountedPC, TypeOK,
            UsersAt, InitPC
      <4> QED BY <4>1, <2>7, CountAdd DEF CntIncr, Goto, shared, hist
    <3>6. BlocksAt'
      <4>1. cnt >= 0
        BY CountedFinite DEF CountExact, TypeOK
      <4> QED BY <2>7, <4>1, NamesAssumption
            DEF CntIncr, Goto, hist, BlocksAt, Ready, Published, LockHeld, CritPC, TypeOK
    <3> QED BY <3>1, <3>2, <3>3, <3>4, <3>5, <3>6
  <2>8. CASE RegisterInit(p)
    <3>1. TypeOK' /\ shm' = "ready"
      BY <2>8, NamesAssumption DEF RegisterInit, Goto, shared, hist, TypeOK,
          Block, PCs, Resources, UsersAt, InitPC
    <3>2. LockHeld'
      BY <2>8, NamesAssumption DEF RegisterInit, Goto, shared, hist,
          LockHeld, CritPC, TypeOK
    <3>3. UsersAt'
      BY <2>8 DEF RegisterInit, Goto, shared, hist, UsersAt, InitPC, FiniPC,
          TypeOK
    <3>4. ResourcesAt'
      BY <2>8 DEF RegisterInit, Goto, shared, hist, ResourcesAt, Ready,
          Resources, TypeOK, UsersAt, InitPC, FiniPC
    <3>5. CountExact'
      <4>1. Counted' = Counted
        BY <2>8 DEF RegisterInit, Goto, shared, hist, Counted, CountedPC,
            TypeOK, UsersAt, InitPC, FiniPC
      <4> QED BY <4>1, <2>8, CountSame DEF RegisterInit, Goto, shared, hist
    <3>6. BlocksAt'
      BY <2>8, NamesAssumption DEF RegisterInit, Goto, shared, hist,
          BlocksAt, Ready, Published, LockHeld, CritPC, UsersAt, InitPC, FiniPC,
          TypeOK
    <3> QED BY <3>1, <3>2, <3>3, <3>4, <3>5, <3>6
  <2>9. CASE CcbCreate(p)
    <3>1. TypeOK' /\ shm' = "ready"
      BY <2>9, NamesAssumption DEF CcbCreate, IsFirst, Goto, shared, hist,
          TypeOK, Block, PCs, Resources, UsersAt, InitPC
    <3>2. LockHeld'
      BY <2>9, NamesAssumption DEF CcbCreate, IsFirst, Goto, shared, hist,
          LockHeld, CritPC, TypeOK
    <3>3. UsersAt'
      BY <2>9 DEF CcbCreate, IsFirst, Goto, shared, hist, UsersAt, InitPC,
          FiniPC, TypeOK
    <3>4. ResourcesAt'
      BY <2>9 DEF CcbCreate, IsFirst, Goto, shared, hist, ResourcesAt,
          Ready, Resources, TypeOK, UsersAt, InitPC, FiniPC
    <3>5. CountExact'
      <4>1. Counted' = Counted
        BY <2>9 DEF CcbCreate, IsFirst, Goto, shared, hist, Counted,
            CountedPC, TypeOK, UsersAt, InitPC, FiniPC
      <4> QED BY <4>1, <2>9, CountSame DEF CcbCreate, IsFirst, Goto, shared,
          hist
    <3>6. BlocksAt'
      <4>1. CASE ~IsFirst
        BY <2>9, <4>1 DEF CcbCreate, IsFirst, Goto, hist, BlocksAt, Ready,
            Published,
            LockHeld, CritPC, UsersAt, InitPC, TypeOK
      <4>2. CASE IsFirst
        <5>1. p \in Counted /\ pc[p] = "ccb"
          BY <2>9 DEF CcbCreate, Counted, CountedPC
        <5>2. \A q \in Procs \ {p} : q \notin Counted
          BY <4>2, <5>1, FirstIsAlone
        <5>3. \A q \in Procs \ {p} : pc[q] \notin CountedPC \cup CritPC /\ ~Ready(q)
          BY <5>1, <5>2 DEF Counted, Ready, LockHeld, CritPC
        <5>4. libinit' = p /\ cnt' = 1
          BY <2>9, <4>2, <5>1 DEF CcbCreate, IsFirst, LockHeld, CritPC
        <5>5. \A q \in Procs \ {p} : pc'[q] = pc[q] /\ users'[q] = users[q]
          BY <2>9 DEF CcbCreate, Goto, TypeOK
        <5>6. \/ pc'[p] = "failed"
              \/ pc'[p] = "cmd" /\ ccb'[p] = p /\ mc0ptr' = p
          BY <2>9, <4>2 DEF CcbCreate, Goto, TypeOK
        <5> QED BY <5>3, <5>4, <5>5, <5>6, NamesAssumption
              DEF BlocksAt, Ready, CountedPC, CritPC
      <4> QED BY <4>1, <4>2
    <3> QED BY <3>1, <3>2, <3>3, <3>4, <3>5, <3>6
  <2>10. CASE CmdchCreate(p)
    <3>1. TypeOK' /\ shm' = "ready"
      BY <2>10, NamesAssumption DEF CmdchCreate, CcbDestroy, Freed, IsFirst,
          Goto, shared, hist, TypeOK, Block, PCs, Resources, UsersAt, InitPC
    <3>2. LockHeld'
      BY <2>10, NamesAssumption DEF CmdchCreate, CcbDestroy, Freed, IsFirst,
          Goto, shared, hist, LockHeld, CritPC, TypeOK
    <3>3. UsersAt'
      BY <2>10 DEF CmdchCreate, CcbDestroy, Freed, IsFirst, Goto, shared,
          hist, UsersAt, InitPC, FiniPC, TypeOK
    <3>4. ResourcesAt'
      BY <2>10 DEF CmdchCreate, CcbDestroy, Freed, IsFirst, Goto, shared,
          hist, ResourcesAt, Ready, Resources, TypeOK, UsersAt, InitPC, FiniPC
    <3>5. CountExact'
      <4>1. Counted' = Counted
        BY <2>10 DEF CmdchCreate, CcbDestroy, Freed, IsFirst, Goto, shared,
            hist, Counted, CountedPC, TypeOK, UsersAt, InitPC, FiniPC
      <4> QED BY <4>1, <2>10, CountSame DEF CmdchCreate, CcbDestroy, Freed,
          IsFirst, Goto, shared, hist
    <3>6. BlocksAt'
      <4>1. CASE ~IsFirst
        BY <2>10, <4>1, NamesAssumption DEF CmdchCreate, CcbDestroy, Freed,
            IsFirst, Goto,
            hist, BlocksAt, Ready, Published, LockHeld, CritPC, UsersAt, InitPC, TypeOK,
            None, Stale
      <4>2. CASE IsFirst
        <5>1. p \in Counted /\ pc[p] = "cmd"
          BY <2>10 DEF CmdchCreate, Counted, CountedPC
        <5>2. \A q \in Procs \ {p} : q \notin Counted
          BY <4>2, <5>1, FirstIsAlone
        <5>3. \A q \in Procs \ {p} : pc[q] \notin CountedPC \cup CritPC /\ ~Ready(q)
          BY <5>1, <5>2 DEF Counted, Ready, LockHeld, CritPC
        <5>4. libinit' = p /\ cnt' = 1
          BY <2>10, <4>2, <5>1 DEF CmdchCreate, IsFirst, LockHeld, CritPC
        <5>5. \A q \in Procs \ {p} : pc'[q] = pc[q] /\ users'[q] = users[q]
          BY <2>10 DEF CmdchCreate, Goto, TypeOK
        <5>6. \/ pc'[p] = "failed"
              \/ /\ pc'[p] = "unlock" /\ ccb'[p] = ccb[p] /\ mc0ptr' = mc0ptr
                 /\ bd0'[p] = p /\ bd0ptr' = p
          BY <2>10, <4>2 DEF CmdchCreate, Goto, TypeOK
        <5>7. ccb[p] = mc0ptr /\ mc0ptr # None
          BY <5>1 DEF BlocksAt
        <5> QED BY <5>3, <5>4, <5>5, <5>6, <5>7, NamesAssumption
              DEF BlocksAt, Ready, Published, CountedPC, CritPC
      <4> QED BY <4>1, <4>2
    <3> QED BY <3>1, <3>2, <3>3, <3>4, <3>5, <3>6
  <2>11. CASE InitUnlock(p)
    <3>1. TypeOK' /\ shm' = "ready"
      BY <2>11, NamesAssumption DEF InitUnlock, LibinitUnlock, Goto, shared,
          hist, TypeOK, Block, PCs, Resources, UsersAt, InitPC
    <3>2. LockHeld'
      BY <2>11, NamesAssumption DEF InitUnlock, LibinitUnlock, Goto, shared,
          hist, LockHeld, CritPC, TypeOK
    <3>3. UsersAt'
      BY <2>11 DEF InitUnlock, LibinitUnlock, Goto, shared, hist, UsersAt,
          InitPC, FiniPC, TypeOK
    <3>4. ResourcesAt'
      BY <2>11 DEF InitUnlock, LibinitUnlock, Goto, shared, hist,
          ResourcesAt, Ready, Resources, TypeOK, UsersAt, InitPC, FiniPC
    <3>5. CountExact'
      <4>1. Counted' = Counted
        BY <2>11 DEF InitUnlock, LibinitUnlock, Goto, shared, hist, Counted,
            CountedPC, TypeOK, UsersAt, InitPC, FiniPC
      <4> QED BY <4>1, <2>11, CountSame DEF InitUnlock, LibinitUnlock, Goto,
          shared, hist
    <3>6. BlocksAt'
      BY <2>11, NamesAssumption DEF InitUnlock, LibinitUnlock, Goto, shared,
          hist, BlocksAt, Ready, Published, LockHeld, CritPC, UsersAt, InitPC,
          FiniPC, TypeOK
    <3> QED BY <3>1, <3>2, <3>3, <3>4, <3>5, <3>6
  <2>12. CASE InitFail(p)
    <3>1. TypeOK' /\ shm' = "ready"
      BY <2>12, NamesAssumption DEF InitFail, LibinitUnlock, Goto, shared,
          hist, TypeOK, Block, PCs, Resources, UsersAt, InitPC
    <3>2. LockHeld'
      BY <2>12, NamesAssumption DEF InitFail, LibinitUnlock, Goto, shared,
          hist, LockHeld, CritPC, TypeOK
    <3>3. UsersAt'
      BY <2>12 DEF InitFail, LibinitUnlock, Goto, shared, hist, UsersAt,
          InitPC, FiniPC, TypeOK
    <3>4. ResourcesAt'
      BY <2>12 DEF InitFail, LibinitUnlock, Goto, shared, hist, ResourcesAt,
          Ready, Resources, TypeOK, UsersAt, InitPC, FiniPC
    <3>5. CountExact'
      <4>1. p \in Counted /\ Counted' = Counted \ {p}
        BY <2>12 DEF InitFail, LibinitUnlock, Goto, shared, hist, Counted,
            CountedPC, TypeOK, UsersAt, InitPC
      <4> QED BY <4>1, <2>12, CountRemove DEF InitFail, LibinitUnlock, Goto,
          shared, hist
    <3>6. BlocksAt'
      BY <2>12, NamesAssumption DEF InitFail, LibinitUnlock, Goto, shared,
          hist, BlocksAt, Ready, Published, LockHeld, CritPC, UsersAt, InitPC,
          FiniPC, TypeOK
    <3> QED BY <3>1, <3>2, <3>3, <3>4, <3>5, <3>6
  <2>13. CASE FiniBegin(p)
    <3>1. TypeOK' /\ shm' = "ready"
      BY <2>13, NamesAssumption DEF FiniBegin, Goto, shared, hist, TypeOK,
          Block, PCs, Resources, UsersAt, InitPC
    <3>2. LockHeld'
      BY <2>13, NamesAssumption DEF FiniBegin, Goto, shared, hist, LockHeld,
          CritPC, TypeOK
    <3>3. UsersAt'
      BY <2>13 DEF FiniBegin, Goto, shared, hist, UsersAt, InitPC, FiniPC,
          TypeOK
    <3>4. ResourcesAt'
      BY <2>13 DEF FiniBegin, Goto, shared, hist, ResourcesAt, Ready,
          Resources, TypeOK, UsersAt, InitPC, FiniPC
    <3>5. CountExact'
      <4>1. Counted' = Counted
        BY <2>13 DEF FiniBegin, Goto, shared, hist, Counted, CountedPC,
            TypeOK, UsersAt, InitPC, FiniPC
      <4> QED BY <4>1, <2>13, CountSame DEF FiniBegin, Goto, shared, hist
    <3>6. BlocksAt'
      BY <2>13, NamesAssumption DEF FiniBegin, Goto, shared, hist, BlocksAt,
          Ready, Published, LockHeld, CritPC, UsersAt, InitPC, FiniPC, TypeOK
    <3> QED BY <3>1, <3>2, <3>3, <3>4, <3>5, <3>6
  <2>14. CASE FiniLock(p)
    <3>1. TypeOK' /\ shm' = "ready"
      BY <2>14, NamesAssumption DEF FiniLock, LibinitLock, Goto, shared,
          hist, TypeOK, Block, PCs, Resources, UsersAt, InitPC
    <3>2. LockHeld'
      BY <2>14, NamesAssumption DEF FiniLock, LibinitLock, Goto, shared,
          hist, LockHeld, CritPC, TypeOK
    <3>3. UsersAt'
      BY <2>14 DEF FiniLock, LibinitLock, Goto, shared, hist, UsersAt,
          InitPC, FiniPC, TypeOK
    <3>4. ResourcesAt'
      BY <2>14 DEF FiniLock, LibinitLock, Goto, shared, hist, ResourcesAt,
          Ready, Resources, TypeOK, UsersAt, InitPC, FiniPC
    <3>5. CountExact'
      <4>1. Counted' = Counted
        BY <2>14 DEF FiniLock, LibinitLock, Goto, shared, hist, Counted,
            CountedPC, TypeOK, UsersAt, InitPC, FiniPC
      <4> QED BY <4>1, <2>14, CountSame DEF FiniLock, LibinitLock, Goto,
          shared, hist
    <3>6. BlocksAt'
      BY <2>14, NamesAssumption DEF FiniLock, LibinitLock, Goto, shared,
          hist, BlocksAt, Ready, Published, LockHeld, CritPC, UsersAt, InitPC,
          FiniPC, TypeOK
    <3> QED BY <3>1, <3>2, <3>3, <3>4, <3>5, <3>6
  <2>15. CASE CntDecr(p)
    <3>1. TypeOK' /\ shm' = "ready"
      BY <2>15, NamesAssumption DEF CntDecr, Goto, shared, hist, TypeOK,
          Block, PCs, Resources, UsersAt, InitPC
    <3>2. LockHeld'
      BY <2>15, NamesAssumption DEF CntDecr, Goto, shared, hist, LockHeld,
          CritPC, TypeOK
    <3>3. UsersAt'
      BY <2>15 DEF CntDecr, Goto, shared, hist, UsersAt, InitPC, FiniPC, TypeOK
    <3>4. ResourcesAt'
      BY <2>15 DEF CntDecr, Goto, shared, hist, ResourcesAt, Ready,
          Resources, TypeOK, UsersAt, InitPC, FiniPC
    <3>5. CountExact'
      <4>1. p \in Counted /\ Counted' = Counted \ {p}
        BY <2>15 DEF CntDecr, Goto, shared, hist, Counted, CountedPC,
            TypeOK, UsersAt, InitPC
      <4> QED BY <4>1, <2>15, CountRemove DEF CntDecr, Goto, shared, hist
    <3>6. BlocksAt'
      BY <2>15, NamesAssumption DEF CntDecr, Goto, shared, hist, BlocksAt,
          Ready, Published, LockHeld, CritPC, UsersAt, InitPC, FiniPC, TypeOK
    <3> QED BY <3>1, <3>2, <3>3, <3>4, <3>5, <3>6
  <2>16. CASE CmdchDestroy(p)
    <3>1. TypeOK' /\ shm' = "ready"
      BY <2>16, NamesAssumption DEF CmdchDestroy, Freed, Goto, shared, hist,
          TypeOK, Block, PCs, Resources, UsersAt, InitPC
    <3>2. LockHeld'
      BY <2>16, NamesAssumption DEF CmdchDestroy, Freed, Goto, shared, hist,
          LockHeld, CritPC, TypeOK
    <3>3. UsersAt'
      BY <2>16 DEF CmdchDestroy, Freed, Goto, shared, hist, UsersAt, InitPC,
          FiniPC, TypeOK
    <3>4. ResourcesAt'
      BY <2>16 DEF CmdchDestroy, Freed, Goto, shared, hist, ResourcesAt,
          Ready, Resources, TypeOK, UsersAt, InitPC, FiniPC
    <3>5. CountExact'
      <4>1. Counted' = Counted
        BY <2>16 DEF CmdchDestroy, Freed, Goto, shared, hist, Counted,
            CountedPC, TypeOK, UsersAt, InitPC, FiniPC
      <4> QED BY <4>1, <2>16, CountSame DEF CmdchDestroy, Freed, Goto,
          shared, hist
    <3>6. BlocksAt'
      BY <2>16, NamesAssumption DEF CmdchDestroy, Freed, Goto, hist,
          BlocksAt, Ready, Published,
          LockHeld, CritPC, UsersAt, FiniPC, TypeOK, None, Stale
    <3> QED BY <3>1, <3>2, <3>3, <3>4, <3>5, <3>6
  <2>17. CASE FiniCcb(p)
    <3>1. TypeOK' /\ shm' = "ready"
      BY <2>17, NamesAssumption DEF FiniCcb, CcbDestroy, Freed, Goto,
          shared, hist, TypeOK, Block, PCs, Resources, UsersAt, InitPC
    <3>2. LockHeld'
      BY <2>17, NamesAssumption DEF FiniCcb, CcbDestroy, Freed, Goto,
          shared, hist, LockHeld, CritPC, TypeOK
    <3>3. UsersAt'
      BY <2>17 DEF FiniCcb, CcbDestroy, Freed, Goto, shared, hist, UsersAt,
          InitPC, FiniPC, TypeOK
    <3>4. ResourcesAt'
      BY <2>17 DEF FiniCcb, CcbDestroy, Freed, Goto, shared, hist,
          ResourcesAt, Ready, Resources, TypeOK, UsersAt, InitPC, FiniPC
    <3>5. CountExact'
      <4>1. Counted' = Counted
        BY <2>17 DEF FiniCcb, CcbDestroy, Freed, Goto, shared, hist,
            Counted, CountedPC, TypeOK, UsersAt, InitPC, FiniPC
      <4> QED BY <4>1, <2>17, CountSame DEF FiniCcb, CcbDestroy, Freed,
          Goto, shared, hist
    <3>6. BlocksAt'
      BY <2>17, NamesAssumption DEF FiniCcb, CcbDestroy, Freed, Goto, hist,
          BlocksAt, Ready, Published,
          LockHeld, CritPC, UsersAt, FiniPC, TypeOK, None, Stale
    <3> QED BY <3>1, <3>2, <3>3, <3>4, <3>5, <3>6
  <2>18. CASE FiniUnlock(p)
    <3>1. TypeOK' /\ shm' = "ready"
      BY <2>18, NamesAssumption DEF FiniUnlock, LibinitUnlock, Goto, shared,
          hist, TypeOK, Block, PCs, Resources, UsersAt, InitPC
    <3>2. LockHeld'
      BY <2>18, NamesAssumption DEF FiniUnlock, LibinitUnlock, Goto, shared,
          hist, LockHeld, CritPC, TypeOK
    <3>3. UsersAt'
      BY <2>18 DEF FiniUnlock, LibinitUnlock, Goto, shared, hist, UsersAt,
          InitPC, FiniPC, TypeOK
    <3>4. ResourcesAt'
      BY <2>18 DEF FiniUnlock, LibinitUnlock, Goto, shared, hist,
          ResourcesAt, Ready, Resources, TypeOK, UsersAt, InitPC, FiniPC
    <3>5. CountExact'
      <4>1. Counted' = Counted
        BY <2>18 DEF FiniUnlock, LibinitUnlock, Goto, shared, hist, Counted,
            CountedPC, TypeOK, UsersAt, InitPC, FiniPC
      <4> QED BY <4>1, <2>18, CountSame DEF FiniUnlock, LibinitUnlock, Goto,
          shared, hist
    <3>6. BlocksAt'
      BY <2>18, NamesAssumption DEF FiniUnlock, LibinitUnlock, Goto, shared,
          hist, BlocksAt, Ready, Published, LockHeld, CritPC, UsersAt, InitPC,
          FiniPC, TypeOK
    <3> QED BY <3>1, <3>2, <3>3, <3>4, <3>5, <3>6
  <2>19. CASE Crash(p)
    <3>1. TypeOK' /\ shm' = "ready"
      BY <2>19, NamesAssumption DEF Crash, Freed, Goto, shared, hist,
          TypeOK, Block, PCs, Resources, UsersAt, InitPC
    <3>2. LockHeld'
      BY <2>19, NamesAssumption DEF Crash, Freed, Goto, shared, hist,
          LockHeld, CritPC, TypeOK
    <3>3. UsersAt'
      BY <2>19 DEF Crash, Freed, Goto, shared, hist, UsersAt, InitPC,
          FiniPC, TypeOK
    <3>4. ResourcesAt'
      BY <2>19 DEF Crash, Freed, Goto, shared, hist, ResourcesAt, Ready,
          Resources, TypeOK, UsersAt, InitPC, FiniPC
    <3>5. CountExact'
      <4>1. Counted' = Counted \ {p}
        BY <2>19 DEF Crash, Freed, Goto, shared, hist, Counted, CountedPC,
            TypeOK
      <4>2. CASE p \in Counted
        BY <4>1, <4>2, <2>19, CountRemove DEF Crash, Freed, Goto, shared, hist
      <4>3. CASE p \notin Counted
        BY <4>1, <4>3, <2>19, CountSame DEF Crash, Freed, Goto, shared, hist
      <4> QED BY <4>2, <4>3
    <3>6. BlocksAt'
      BY <2>19, NamesAssumption DEF Crash, Freed, Goto, BlocksAt, Ready,
          Published,
          TypeOK, None, Stale
    <3> QED BY <3>1, <3>2, <3>3, <3>4, <3>5, <3>6
  <2> QED BY <1>n, <2>1, <2>2, <2>3, <2>4, <2>5, <2>6, <2>7, <2>8, <2>9,
      <2>10, <2>11, <2>12, <2>13, <2>14, <2>15, <2>16, <2>17, <2>18, <2>19 DEF
      LibStep, Call
<1> QED BY <1>u, <1>n DEF Next

(* The state stays well typed.                                             *)
THEOREM TypeCorrect == ASSUME Preloaded PROVE Spec => []TypeOK
<1>1. Init => IInv BY InitIInv
<1>2. IInv /\ [Next]_vars => IInv' BY NextIInv
<1>3. IInv => TypeOK BY DEF IInv
<1> QED BY <1>1, <1>2, <1>3, PTL DEF Spec

(* process_cnt is exact, for every number of processes and deaths.         *)
THEOREM CountCorrect == ASSUME Preloaded PROVE Spec => []CountExact
<1>1. Init => IInv BY InitIInv
<1>2. IInv /\ [Next]_vars => IInv' BY NextIInv
<1>3. IInv => CountExact BY DEF IInv
<1> QED BY <1>1, <1>2, <1>3, PTL DEF Spec

(* The engine is reset only by a process that is alone.                    *)
THEOREM ResetSafe == ASSUME Preloaded PROVE Spec => []ResetOnlyWhenAlone
<1>1. Init => IInv BY InitIInv
<1>2. IInv /\ [Next]_vars => IInv' BY NextIInv
<1>3. ASSUME IInv PROVE ResetOnlyWhenAlone
  <2> USE DEF IInv
  <2> SUFFICES ASSUME NEW p \in Procs, pc[p] = "regs", IsFirst,
                      NEW q \in Procs \ {p}
               PROVE  res[q] \cap {"ccb", "cmd"} = {}
    BY DEF ResetOnlyWhenAlone
  <2>1. p \in Counted
    BY DEF Counted, CountedPC
  <2>2. q \notin Counted
    BY <1>3, <2>1, FirstIsAlone
  <2>3. pc[q] \notin CritPC
    BY <1>3 DEF LockHeld, CritPC
  <2>4. pc[q] \notin CountedPC \cup CritPC /\ ~(pc[q] = "idle" /\ users[q] > 0)
    BY <2>2, <2>3 DEF Counted
  <2> QED BY <1>3, <2>4 DEF ResourcesAt, Ready, CountedPC, CritPC
<1> QED BY <1>1, <1>2, <1>3, PTL DEF Spec

(* Every initialised process uses the engine's CCB and command descriptor. *)
THEOREM BlocksShared == ASSUME Preloaded PROVE Spec => []SharedBlocks
<1>1. Init => IInv BY InitIInv
<1>2. IInv /\ [Next]_vars => IInv' BY NextIInv
<1>3. IInv => SharedBlocks BY DEF IInv, BlocksAt, Published, SharedBlocks
<1> QED BY <1>1, <1>2, <1>3, PTL DEF Spec

(* The failure labels of sdma_init give back exactly what was taken.       *)
THEOREM CleanUp == ASSUME Preloaded PROVE Spec => []AllOrNothing
<1>1. Init => IInv BY InitIInv
<1>2. IInv /\ [Next]_vars => IInv' BY NextIInv
<1>3. ASSUME IInv PROVE AllOrNothing
  <2> SUFFICES ASSUME NEW p \in Procs, pc[p] = "idle"
               PROVE  res[p] = IF users[p] > 0 THEN Resources ELSE {}
    BY DEF AllOrNothing
  <2>1. res[p] \subseteq Resources
    BY <1>3 DEF IInv, TypeOK
  <2>2. \A r \in Resources : r \in res[p] <=> users[p] > 0
    BY <1>3 DEF IInv, ResourcesAt, Ready, Resources
  <2> QED BY <2>1, <2>2
<1> QED BY <1>1, <1>2, <1>3, PTL DEF Spec
=============================================================================
