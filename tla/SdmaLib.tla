------------------------------ MODULE SdmaLib ------------------------------
(***************************************************************************)
(* Life cycle of the i.MX SDMA library (src/lib/dma/sdma: init.c, sync.c,  *)
(* api.c sdma_init/sdma_fini, cmd.c sdmacmd_cmdch_create/destroy).         *)
(*                                                                         *)
(* Several processes load the library.  They share a memory object         *)
(* "/SDMA_MUTEX" (a process count and three mutexes), the SDMA registers,  *)
(* and two pieces of physical memory that the FIRST process allocates and  *)
(* the others map by physical address: the channel control block (CCB,     *)
(* address in register MC0PTR) and the command channel's buffer descriptor *)
(* (address in ccb[0]).                                                    *)
(*                                                                         *)
(* A physical block is named by the process that allocated it.  When that  *)
(* process unmaps it, or dies, the kernel frees the memory; every          *)
(* remaining reference to it becomes Stale.                                *)
(***************************************************************************)
EXTENDS Integers, FiniteSets

CONSTANTS
    Procs,       \* processes that may load the library
    MaxUsers,    \* bound on sdma_init nesting inside one process
    MaxCrashes,  \* bound on the number of processes killed in a behaviour
    Preloaded    \* TRUE: another program created the shared object before
                 \* (sync.c:27 asks for that); FALSE: the first ctor does

ASSUME ProcsAssumption == IsFiniteSet(Procs)
ASSUME BoundsAssumption == MaxUsers \in Nat /\ MaxCrashes \in Nat
ASSUME PreloadedAssumption == Preloaded \in BOOLEAN

None == "none"     \* no mapping
Stale == "stale"   \* a mapping of physical memory that was freed
ASSUME NamesAssumption == None \notin Procs /\ Stale \notin Procs

Block == Procs \cup {None, Stale}

VARIABLES
    shm,        \* the shared object: absent, created (not initialised), ready
    cnt,        \* shmem->process_cnt
    libinit,    \* holder of shmem->libinit_mutex
    mc0ptr,     \* block whose address is in register MC0PTR
    bd0ptr,     \* block whose address is in ccb[0].base_bd_paddr
    pc,         \* where each process is in ctor / sdma_init / sdma_fini
    users,      \* n_users_in_process
    ccb,        \* block each process's ccb_ptr refers to
    bd0,        \* block each process's cmd_bd_ptr refers to
    res,        \* operating-system resources each process holds
    leaked,     \* increments of process_cnt whose process died
    crashes     \* processes killed so far

vars == <<shm, cnt, libinit, mc0ptr, bd0ptr, pc, users, ccb, bd0, res,
          leaked, crashes>>

Resources == {"shm", "io", "irq", "ccb", "cmd"}

PCs == {"unloaded", "ctor", "idle", "open", "lock", "incr", "regs", "ccb",
        "cmd", "unlock", "failed", "flock", "decr", "dcmd", "dccb", "funlock"}

(* Where a process has been counted in process_cnt.                        *)
CountedPC == {"regs", "ccb", "cmd", "unlock", "failed", "flock", "decr"}
Counted == {p \in Procs : pc[p] \in CountedPC \/ (pc[p] = "idle" /\ users[p] > 0)}

(* A process in which sdma_init has succeeded and sdma_fini is not under way *)
Ready(p) == pc[p] = "idle" /\ users[p] > 0

TypeOK ==
    /\ shm \in {"absent", "created", "ready"}
    /\ cnt \in Int
    /\ libinit \in Procs \cup {None}
    /\ mc0ptr \in Block /\ bd0ptr \in Block
    /\ pc \in [Procs -> PCs]
    /\ users \in [Procs -> Nat]
    /\ ccb \in [Procs -> Block] /\ bd0 \in [Procs -> Block]
    /\ res \in [Procs -> SUBSET Resources]
    /\ leaked \in Nat /\ crashes \in Nat

Init ==
    /\ shm = IF Preloaded THEN "ready" ELSE "absent"
    /\ cnt = 0 /\ libinit = None
    /\ mc0ptr = None /\ bd0ptr = None
    /\ pc = [p \in Procs |-> "unloaded"]
    /\ users = [p \in Procs |-> 0]
    /\ ccb = [p \in Procs |-> None] /\ bd0 = [p \in Procs |-> None]
    /\ res = [p \in Procs |-> {}]
    /\ leaked = 0 /\ crashes = 0

Goto(p, l) == pc' = [pc EXCEPT ![p] = l]

shared == <<shm, cnt, libinit, mc0ptr, bd0ptr>>
hist == <<leaked, crashes>>

(***************************************************************************)
(* init.c: the constructor run when the library is loaded.                 *)
(***************************************************************************)

(* ctor / shared_mem_create: shm_open(O_CREAT|O_EXCL) has one winner, which *)
(* goes on to size, map and initialise the object; everybody else returns, *)
(* also when the winner failed or died and nobody will initialise it.      *)
(* (As sync.c:27 asks, the first program that loads the library has been   *)
(* through its constructor before the others load it.)                     *)
Ctor(p) ==
    /\ pc[p] = "unloaded" /\ \A q \in Procs : pc[q] # "ctor"
    /\ IF shm = "absent"
         THEN shm' = "created" /\ Goto(p, "ctor")
         ELSE shm' = shm /\ Goto(p, "idle")
    /\ UNCHANGED <<cnt, libinit, mc0ptr, bd0ptr, users, ccb, bd0, res, hist>>

(* shared_mem_init by the winner; or ftruncate/mmap failed and the object  *)
(* stays behind uninitialised.                                             *)
CtorInit(p) ==
    /\ pc[p] = "ctor"
    /\ \/ shm' = "ready" /\ cnt' = 0 /\ libinit' = None
       \/ UNCHANGED <<shm, cnt, libinit>>
    /\ Goto(p, "idle")
    /\ UNCHANGED <<mc0ptr, bd0ptr, users, ccb, bd0, res, hist>>

(* dtor does nothing: an unloaded library leaves the shared object behind. *)
Dtor(p) ==
    /\ pc[p] = "idle" /\ users[p] = 0
    /\ Goto(p, "unloaded")
    /\ UNCHANGED <<shared, users, ccb, bd0, res, hist>>

(***************************************************************************)
(* sdma_init.  processinit_mutex is held from the first line to the last,  *)
(* so a process runs one sdma_init or sdma_fini at a time.                 *)
(***************************************************************************)

InitBegin(p) ==
    /\ pc[p] = "idle" /\ users[p] < MaxUsers
    /\ users' = [users EXCEPT ![p] = @ + 1]
    /\ IF users[p] = 0 THEN Goto(p, "open") ELSE UNCHANGED pc
    /\ UNCHANGED <<shared, ccb, bd0, res, hist>>

(* parse_init_options, sdmasync_init, mmap_device_io and sdmairq_init touch *)
(* only this process; a failure of one of the first three unwinds through  *)
(* fail1/fail2 (sdmairq_init never fails).  The shared object must exist.  *)
InitOpen(p) ==
    /\ pc[p] = "open"
    /\ \/ /\ shm # "absent"
          /\ res' = [res EXCEPT ![p] = {"shm", "io", "irq"}]
          /\ Goto(p, "lock")
          /\ UNCHANGED users
       \/ /\ users' = [users EXCEPT ![p] = @ - 1]
          /\ Goto(p, "idle")
          /\ UNCHANGED res
    /\ UNCHANGED <<shared, ccb, bd0, hist>>

(* Mutant of LibinitLock: no mutual exclusion between the processes.       *)
LibinitLockMutant(p, from, to) ==
    /\ pc[p] = from
    /\ Goto(p, to)
    /\ UNCHANGED <<shared, users, ccb, bd0, res, hist>>

(* pthread_mutex_lock(libinit); on a mutex nobody has initialised the call *)
(* fails, and its result is not checked.                                   *)
LibinitLock(p, from, to) ==
    /\ pc[p] = from
    /\ IF shm = "ready"
         THEN libinit = None /\ libinit' = p
         ELSE UNCHANGED libinit
    /\ Goto(p, to)
    /\ UNCHANGED <<shm, cnt, mc0ptr, bd0ptr, users, ccb, bd0, res, hist>>

InitLock(p) == LibinitLock(p, "lock", "incr")

CntIncr(p) ==
    /\ pc[p] = "incr"
    /\ cnt' = cnt + 1
    /\ Goto(p, "regs")
    /\ UNCHANGED <<shm, libinit, mc0ptr, bd0ptr, users, ccb, bd0, res, hist>>

(* Mutant of IsFirst: the count is only tested for being nonzero.          *)
IsFirstMutant == cnt # 0

IsFirst == cnt = 1    \* sdmasync_is_first_process

(* register_init: the first process resets the engine and the channels'    *)
(* trigger registers (SdmaRegs has those); the others leave them alone.    *)
RegisterInit(p) ==
    /\ pc[p] = "regs"
    /\ Goto(p, "ccb")
    /\ UNCHANGED <<shared, users, ccb, bd0, res, hist>>

(* ccb_create: the first process allocates the CCB (zeroed: no command     *)
(* descriptor yet) and publishes it in MC0PTR; the others map what MC0PTR  *)
(* holds.                                                                  *)
CcbCreate(p) ==
    /\ pc[p] = "ccb"
    /\ \/ /\ Goto(p, "cmd")
          /\ res' = [res EXCEPT ![p] = @ \cup {"ccb"}]
          /\ IF IsFirst
               THEN /\ mc0ptr' = p
                    /\ bd0ptr' = None
                    /\ ccb' = [ccb EXCEPT ![p] = p]
               ELSE /\ ccb' = [ccb EXCEPT ![p] = mc0ptr]
                    /\ UNCHANGED <<mc0ptr, bd0ptr>>
       \/ Goto(p, "failed") /\ UNCHANGED <<res, mc0ptr, bd0ptr, ccb>>
    /\ UNCHANGED <<shm, cnt, libinit, users, bd0, hist>>

(* Unmapping a block frees it when the caller allocated it.                *)
Freed(b, p) == IF b = p THEN Stale ELSE b

(* ccb_destroy: munmap of ccb_ptr.                                         *)
CcbDestroy(p) ==
    /\ res' = [res EXCEPT ![p] = @ \ {"ccb"}]
    /\ ccb' = [q \in Procs |-> IF q = p THEN None
                               ELSE IF ccb[p] = p THEN Freed(ccb[q], p) ELSE ccb[q]]
    /\ mc0ptr' = IF ccb[p] = p THEN Freed(mc0ptr, p) ELSE mc0ptr

(* Mutant of CmdchCreate: failure goes to fail4 and skips ccb_destroy.      *)
CmdchCreateMutant(p) ==
    /\ pc[p] = "cmd"
    /\ \/ /\ Goto(p, "unlock")
          /\ res' = [res EXCEPT ![p] = @ \cup {"cmd"}]
          /\ IF IsFirst
               THEN bd0ptr' = p /\ bd0' = [bd0 EXCEPT ![p] = p]
               ELSE bd0' = [bd0 EXCEPT ![p] = bd0ptr] /\ UNCHANGED bd0ptr
       \/ Goto(p, "failed") /\ UNCHANGED <<res, bd0, bd0ptr>>
    /\ UNCHANGED <<shm, cnt, libinit, users, ccb, mc0ptr, hist>>

(* sdmacmd_cmdch_create: the first process allocates the command descriptor *)
(* and stores it in ccb[0]; the others map what ccb[0] holds.  Failure     *)
(* releases what it took and continues at fail5 of sdma_init (ccb_destroy). *)
CmdchCreate(p) ==
    /\ pc[p] = "cmd"
    /\ \/ /\ Goto(p, "unlock")
          /\ res' = [res EXCEPT ![p] = @ \cup {"cmd"}]
          /\ IF IsFirst
               THEN bd0ptr' = p /\ bd0' = [bd0 EXCEPT ![p] = p]
               ELSE bd0' = [bd0 EXCEPT ![p] = bd0ptr] /\ UNCHANGED bd0ptr
          /\ UNCHANGED <<ccb, mc0ptr>>
       \/ /\ Goto(p, "failed")
          /\ CcbDestroy(p)
          /\ bd0ptr' \in IF IsFirst THEN {bd0ptr, Stale} ELSE {bd0ptr}
          /\ UNCHANGED bd0
    /\ UNCHANGED <<shm, cnt, libinit, users, hist>>

LibinitUnlock(p) == libinit' = IF libinit = p THEN None ELSE libinit

InitUnlock(p) ==
    /\ pc[p] = "unlock"
    /\ LibinitUnlock(p)
    /\ Goto(p, "idle")
    /\ UNCHANGED <<shm, cnt, mc0ptr, bd0ptr, users, ccb, bd0, res, hist>>

(* Mutant of InitFail: the count is not taken back.                        *)
InitFailNoDecr(p) ==
    /\ pc[p] = "failed"
    /\ LibinitUnlock(p)
    /\ res' = [res EXCEPT ![p] = @ \ {"irq", "io", "shm"}]
    /\ users' = [users EXCEPT ![p] = @ - 1]
    /\ Goto(p, "idle")
    /\ UNCHANGED <<shm, cnt, mc0ptr, bd0ptr, ccb, bd0, hist>>

(* Mutant of InitFail: the failure path tries again instead of returning.  *)
InitFailRetry(p) ==
    /\ pc[p] = "failed"
    /\ cnt' = cnt - 1
    /\ LibinitUnlock(p)
    /\ Goto(p, "lock")
    /\ UNCHANGED <<shm, mc0ptr, bd0ptr, users, ccb, bd0, res, hist>>

(* sdma_init from label fail4: undo the count, unlock, and give back the   *)
(* interrupt, the registers and the shared object.                         *)
InitFail(p) ==
    /\ pc[p] = "failed"
    /\ cnt' = cnt - 1
    /\ LibinitUnlock(p)
    /\ res' = [res EXCEPT ![p] = @ \ {"irq", "io", "shm"}]
    /\ users' = [users EXCEPT ![p] = @ - 1]
    /\ Goto(p, "idle")
    /\ UNCHANGED <<shm, mc0ptr, bd0ptr, ccb, bd0, hist>>

(***************************************************************************)
(* sdma_fini.                                                              *)
(***************************************************************************)

(* Drivers call sdma_fini once for each sdma_init that succeeded           *)
(* (README.txt:151, "do only once"); the code does not check it.           *)
FiniBegin(p) ==
    /\ pc[p] = "idle" /\ users[p] > 0
    /\ users' = [users EXCEPT ![p] = @ - 1]
    /\ IF users[p] = 1 THEN Goto(p, "flock") ELSE UNCHANGED pc
    /\ UNCHANGED <<shared, ccb, bd0, res, hist>>

FiniLock(p) == LibinitLock(p, "flock", "decr")

CntDecr(p) ==
    /\ pc[p] = "decr"
    /\ cnt' = cnt - 1
    /\ Goto(p, "dcmd")
    /\ UNCHANGED <<shm, libinit, mc0ptr, bd0ptr, users, ccb, bd0, res, hist>>

(* sdmacmd_cmdch_destroy: unconditional munmap of cmd_bd_ptr.              *)
CmdchDestroy(p) ==
    /\ pc[p] = "dcmd"
    /\ res' = [res EXCEPT ![p] = @ \ {"cmd"}]
    /\ bd0' = [q \in Procs |-> IF q = p THEN None
                               ELSE IF bd0[p] = p THEN Freed(bd0[q], p) ELSE bd0[q]]
    /\ bd0ptr' = IF bd0[p] = p THEN Freed(bd0ptr, p) ELSE bd0ptr
    /\ Goto(p, "dccb")
    /\ UNCHANGED <<shm, cnt, libinit, mc0ptr, users, ccb, hist>>

FiniCcb(p) ==
    /\ pc[p] = "dccb"
    /\ CcbDestroy(p)
    /\ Goto(p, "funlock")
    /\ UNCHANGED <<shm, cnt, libinit, bd0ptr, users, bd0, hist>>

FiniUnlock(p) ==
    /\ pc[p] = "funlock"
    /\ LibinitUnlock(p)
    /\ res' = [res EXCEPT ![p] = @ \ {"irq", "io", "shm"}]
    /\ Goto(p, "idle")
    /\ UNCHANGED <<shm, cnt, mc0ptr, bd0ptr, users, ccb, bd0, hist>>

(***************************************************************************)
(* External: the process is killed (or exits without sdma_fini).  The      *)
(* kernel takes back its memory and handles; nobody repairs process_cnt,   *)
(* and a mutex it held stays locked.                                       *)
(***************************************************************************)
Crash(p) ==
    /\ crashes < MaxCrashes
    /\ pc[p] # "unloaded"
    /\ crashes' = crashes + 1
    /\ leaked' = IF p \in Counted THEN leaked + 1 ELSE leaked
    /\ Goto(p, "unloaded")
    /\ users' = [users EXCEPT ![p] = 0]
    /\ res' = [res EXCEPT ![p] = {}]
    /\ ccb' = [q \in Procs |-> IF q = p THEN None ELSE Freed(ccb[q], p)]
    /\ bd0' = [q \in Procs |-> IF q = p THEN None ELSE Freed(bd0[q], p)]
    /\ mc0ptr' = Freed(mc0ptr, p) /\ bd0ptr' = Freed(bd0ptr, p)
    /\ UNCHANGED <<shm, cnt, libinit>>

(***************************************************************************)

(* One step of the library code running in process p.                      *)
LibStep(p) ==
    \/ CtorInit(p) \/ InitOpen(p) \/ InitLock(p) \/ CntIncr(p)
    \/ RegisterInit(p) \/ CcbCreate(p) \/ CmdchCreate(p) \/ InitUnlock(p)
    \/ InitFail(p) \/ FiniLock(p) \/ CntDecr(p) \/ CmdchDestroy(p)
    \/ FiniCcb(p) \/ FiniUnlock(p)

(* A call by the driver that uses the library.                             *)
Call(p) == Ctor(p) \/ Dtor(p) \/ InitBegin(p) \/ FiniBegin(p)

Next == \E p \in Procs : LibStep(p) \/ Call(p) \/ Crash(p)

Spec == Init /\ [][Next]_vars

(* The scheduler runs every runnable thread, and a mutex that is released  *)
(* again and again is eventually granted to each waiter (QNX queues the    *)
(* waiters by priority and then by arrival).                               *)
Fairness ==
    \A p \in Procs : /\ WF_vars(LibStep(p))
                     /\ SF_vars(InitLock(p)) /\ SF_vars(FiniLock(p))

FairSpec == Spec /\ Fairness

(***************************************************************************)
(* Properties                                                              *)
(***************************************************************************)

(* process_cnt counts exactly the processes between the increment of       *)
(* sdma_init and the decrement of sdma_fini or of the failure path, plus   *)
(* one for every counted process that died.                                *)
CountExact == shm = "ready" => cnt = Cardinality(Counted) + leaked

(* register_init resets the engine only while no other process holds a CCB *)
(* or a command descriptor: a late joiner or a process that is still       *)
(* tearing down never sees its engine reset.  (If the object was never     *)
(* initialised, nothing locks the processes out from each other.)          *)
ResetOnlyWhenAlone ==
    \A p \in Procs : shm = "ready" /\ pc[p] = "regs" /\ IsFirst =>
        \A q \in Procs \ {p} : res[q] \cap {"ccb", "cmd"} = {}

(* Every process in which sdma_init succeeded maps the CCB the engine uses *)
(* and the command descriptor that CCB names, whatever the interleaving of *)
(* initialisations, failures, finalisations and deaths.                    *)
SharedBlocks ==
    \A p \in Procs : shm = "ready" /\ Ready(p) =>
        /\ ccb[p] = mc0ptr /\ mc0ptr # None
        /\ bd0[p] = bd0ptr /\ bd0ptr # None

(* Every failure label gives back exactly what was taken: between calls a  *)
(* process holds all resources or none.                                    *)
AllOrNothing ==
    \A p \in Procs : pc[p] = "idle" =>
        res[p] = IF users[p] > 0 THEN Resources ELSE {}

(* The inductive invariant behind these properties, for the documented     *)
(* start with the shared object in place.                                  *)
CritPC == {"incr", "regs", "ccb", "cmd", "unlock", "failed", "decr", "dcmd",
           "dccb", "funlock"}
InitPC == {"open", "lock", "incr", "regs", "ccb", "cmd", "unlock", "failed"}
FiniPC == {"flock", "decr", "dcmd", "dccb", "funlock"}

(* libinit_mutex serialises everything between its lock and its unlock.    *)
LockHeld == \A p \in Procs : pc[p] \in CritPC => libinit = p

UsersAt ==
    \A p \in Procs : /\ pc[p] # "ctor"
                     /\ pc[p] \in InitPC => users[p] = 1
                     /\ pc[p] \in FiniPC \cup {"unloaded"} => users[p] = 0

(* Which resources a process holds at each point.                          *)
ResourcesAt ==
    \A p \in Procs :
        /\ \A r \in {"shm", "io", "irq"} :
             r \in res[p] <=> pc[p] \notin {"unloaded", "ctor", "open", "idle"}
                                \/ Ready(p)
        /\ "ccb" \in res[p] <=>
             pc[p] \in {"cmd", "unlock", "flock", "decr", "dcmd", "dccb"} \/ Ready(p)
        /\ "cmd" \in res[p] <=>
             pc[p] \in {"unlock", "flock", "decr", "dcmd"} \/ Ready(p)

(* Both blocks have been published.                                        *)
Published == mc0ptr # None /\ bd0ptr # None

BlocksAt ==
    /\ \A p \in Procs :
         /\ Ready(p) \/ pc[p] \in {"unlock", "flock", "decr", "dcmd"} =>
               Published /\ ccb[p] = mc0ptr /\ bd0[p] = bd0ptr
         /\ pc[p] = "cmd" => ccb[p] = mc0ptr /\ mc0ptr # None
         /\ pc[p] = "dccb" => ccb[p] = mc0ptr
         /\ pc[p] \in {"dccb", "funlock"} => Published
         /\ pc[p] = "incr" /\ cnt >= 1 => Published
         /\ pc[p] \in {"regs", "ccb", "cmd", "failed"} /\ cnt # 1 => Published
    /\ libinit = None /\ cnt >= 1 => Published

IInv == /\ TypeOK /\ shm = "ready" /\ LockHeld /\ UsersAt /\ ResourcesAt
        /\ CountExact /\ BlocksAt

(* Every sdma_init and sdma_fini call returns, on every path, unless a     *)
(* process has died: it may have held libinit_mutex.                       *)
CallsReturn ==
    \A p \in Procs :
        pc[p] \notin {"unloaded", "idle"} ~> pc[p] = "idle" \/ crashes > 0

=============================================================================
