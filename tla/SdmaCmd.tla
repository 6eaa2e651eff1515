------------------------------ MODULE SdmaCmd ------------------------------
(***************************************************************************)
(* The command channel (channel 0) of the SDMA library: sdmacmd_ctx_load   *)
(* in cmd.c, the ISR and event table in irq.c.                             *)
(*                                                                         *)
(* Threads of several processes load channel contexts into the engine's    *)
(* private memory.  One command descriptor and one interrupt bit serve all *)
(* of them; a process-shared mutex gives them turns.  The thread whose     *)
(* turn it is adds its process's pulse event to the interrupt, writes the  *)
(* descriptor, starts channel 0 and waits for the pulse or for a timeout.  *)
(* The ISR runs on any CPU, so it interleaves with the threads.            *)
(***************************************************************************)
EXTENDS Integers, FiniteSets

CONSTANTS
    Threads,     \* threads that call sdmacmd_ctx_load
    Procs,       \* processes they live in
    Home,        \* Home[t] is the process of thread t
    MaxCalls     \* bounds on the calls of each thread

ASSUME HomeAssumption == Home \in [Threads -> Procs]
ASSUME MaxCallsAssumption == MaxCalls \in [Threads -> Nat]

None == "none"
ASSUME NoneAssumption == None \notin Threads /\ None \notin Procs

VARIABLES
    cmdmutex,   \* thread that holds shmem->command_mutex
    mask,       \* processes whose channel_mask has bit 0 set
    event,      \* processes whose event_array[0] is not NULL
    intr,       \* bit 0 of register INTR
    bd,         \* command descriptor: the call whose context it names, DONE bit
    hstart,     \* bit 0 of register HSTART
    engine,     \* the call whose context the engine is transferring
    isr,        \* process whose ISR has seen the bit and not yet returned
    seen,       \* that ISR has not yet written the bit back to clear it
    pulses,     \* completion pulses queued on each process's cmd_chid
    pc,         \* position of each thread in sdmacmd_ctx_load
    ret,        \* what the last call of each thread returned
    loaded,     \* history: last call of each thread whose context was loaded
    calls,      \* calls made by each thread
    expired     \* history: some wait has timed out

vars == <<cmdmutex, mask, event, intr, bd, hstart, engine, isr, seen, pulses,
          pc, ret, loaded, calls, expired>>

PCs == {"idle", "lock", "mask", "event", "bd", "start", "wait", "unmask",
        "unevent", "unlock"}

Job == (Threads \cup {None}) \X Nat    \* a thread's n-th call
NoJob == <<None, 0>>

TypeOK ==
    /\ cmdmutex \in Threads \cup {None}
    /\ mask \subseteq Procs /\ event \subseteq Procs
    /\ intr \in BOOLEAN /\ hstart \in BOOLEAN
    /\ bd \in [job : Job, done : BOOLEAN]
    /\ engine \in Job
    /\ isr \in Procs \cup {None} /\ seen \in BOOLEAN
    /\ pulses \in [Procs -> Nat]
    /\ pc \in [Threads -> PCs]
    /\ ret \in [Threads -> {"none", "ok", "error"}]
    /\ loaded \in [Threads -> Nat]
    /\ calls \in [Threads -> Nat] /\ expired \in BOOLEAN

Init ==
    /\ cmdmutex = None /\ mask = {} /\ event = {}
    /\ intr = FALSE /\ hstart = FALSE
    /\ bd = [job |-> NoJob, done |-> FALSE]
    /\ engine = NoJob /\ isr = None /\ seen = FALSE
    /\ pulses = [P \in Procs |-> 0]
    /\ pc = [t \in Threads |-> "idle"]
    /\ ret = [t \in Threads |-> "none"]
    /\ loaded = [t \in Threads |-> 0]
    /\ calls = [t \in Threads |-> 0]
    /\ expired = FALSE

Goto(t, l) == pc' = [pc EXCEPT ![t] = l]

hardware == <<intr, bd, hstart, engine, loaded>>
irqTable == <<mask, event>>
handler == <<isr, seen>>
caller == <<ret, calls>>

(***************************************************************************)
(* sdmacmd_ctx_load                                                        *)
(***************************************************************************)

(* sdma_channel_attach or sdma_xfer_abort calls sdmacmd_ctx_load.          *)
Call(t) ==
    /\ pc[t] = "idle" /\ calls[t] < MaxCalls[t]
    /\ calls' = [calls EXCEPT ![t] = @ + 1]
    /\ ret' = [ret EXCEPT ![t] = "none"]
    /\ Goto(t, "lock")
    /\ UNCHANGED <<expired, cmdmutex, hardware, irqTable, handler, pulses>>

(* Mutant of Lock: the mutex is recursive for the threads of a process.    *)
LockMutant(t) ==
    /\ pc[t] = "lock"
    /\ \A u \in Threads : cmdmutex = u => Home[u] = Home[t]
    /\ cmdmutex' = t
    /\ Goto(t, "mask")
    /\ UNCHANGED <<expired, hardware, irqTable, handler, pulses, caller>>

Lock(t) ==
    /\ pc[t] = "lock"
    /\ cmdmutex = None /\ cmdmutex' = t
    /\ Goto(t, "mask")
    /\ UNCHANGED <<expired, hardware, irqTable, handler, pulses, caller>>

(* sdmairq_event_add: the mask bit first, then the event.                  *)
EventAddMask(t) ==
    /\ pc[t] = "mask"
    /\ mask' = mask \cup {Home[t]}
    /\ Goto(t, "event")
    /\ UNCHANGED <<expired, cmdmutex, hardware, event, handler, pulses, caller>>

EventAddEvent(t) ==
    /\ pc[t] = "event"
    /\ event' = event \cup {Home[t]}
    /\ Goto(t, "bd")
    /\ UNCHANGED <<expired, cmdmutex, hardware, mask, handler, pulses, caller>>

(* Fill in the descriptor: SETCTX(ch), WRAP, DONE, INT and the context.    *)
(* (DONE is set before the address of the context is; only the engine of a *)
(* command that timed out could see the difference.)                       *)
SetDescriptor(t) ==
    /\ pc[t] = "bd"
    /\ bd' = [job |-> <<t, calls[t]>>, done |-> TRUE]
    /\ Goto(t, "start")
    /\ UNCHANGED <<expired, cmdmutex, intr, hstart, engine, loaded, irqTable,
                   handler, pulses, caller>>

Start(t) ==
    /\ pc[t] = "start"
    /\ hstart' = TRUE
    /\ Goto(t, "wait")
    /\ UNCHANGED <<expired, cmdmutex, intr, bd, engine, loaded, irqTable, handler,
                   pulses, caller>>

(* MsgReceivePulse takes a pulse queued on this process's channel.         *)
ReceivePulse(t) ==
    /\ pc[t] = "wait" /\ pulses[Home[t]] > 0
    /\ pulses' = [pulses EXCEPT ![Home[t]] = @ - 1]
    /\ ret' = [ret EXCEPT ![t] = "ok"]
    /\ Goto(t, "unmask")
    /\ UNCHANGED <<expired, cmdmutex, hardware, irqTable, handler, calls>>

(* The timeout armed by TimerTimeout expires: no pulse is queued.          *)
TimeOut(t) ==
    /\ pc[t] = "wait" /\ pulses[Home[t]] = 0
    /\ expired' = TRUE
    /\ ret' = [ret EXCEPT ![t] = "error"]
    /\ Goto(t, "unmask")
    /\ UNCHANGED <<cmdmutex, hardware, irqTable, handler, pulses, calls>>

(* sdmairq_event_remove: the mask bit first, then the event.               *)
(* Mutant of EventRemoveMask: the bit stays set.                           *)
EventRemoveMaskMutant(t) ==
    /\ pc[t] = "unmask"
    /\ Goto(t, "unevent")
    /\ UNCHANGED <<expired, cmdmutex, hardware, mask, event, handler, pulses, caller>>

EventRemoveMask(t) ==
    /\ pc[t] = "unmask"
    /\ mask' = mask \ {Home[t]}
    /\ Goto(t, "unevent")
    /\ UNCHANGED <<expired, cmdmutex, hardware, event, handler, pulses, caller>>

EventRemoveEvent(t) ==
    /\ pc[t] = "unevent"
    /\ event' = event \ {Home[t]}
    /\ Goto(t, "unlock")
    /\ UNCHANGED <<expired, cmdmutex, hardware, mask, handler, pulses, caller>>

Unlock(t) ==
    /\ pc[t] = "unlock"
    /\ cmdmutex' = None
    /\ Goto(t, "idle")
    /\ UNCHANGED <<expired, hardware, irqTable, handler, pulses, caller>>

(***************************************************************************)
(* irq_handler in each process.  The handlers attached to one interrupt    *)
(* run one after the other, so at most one is active.                      *)
(***************************************************************************)

(* Read INTR & channel_mask.                                               *)
IsrRead(P) ==
    /\ isr = None /\ intr /\ P \in mask
    /\ isr' = P /\ seen' = TRUE
    /\ UNCHANGED <<expired, cmdmutex, irqTable, hardware, pulses, pc, caller>>

(* Mutant of IsrTake: the interrupt bit is not written back to clear it.    *)
IsrTakeMutant(P) ==
    /\ isr = P /\ seen
    /\ seen' = FALSE
    /\ UNCHANGED <<expired, cmdmutex, irqTable, hardware, isr, pulses, pc, caller>>

(* Clear the bit; a completion the engine has signalled since the read goes *)
(* with it.                                                                *)
IsrTake(P) ==
    /\ isr = P /\ seen
    /\ intr' = FALSE /\ seen' = FALSE
    /\ UNCHANGED <<expired, cmdmutex, irqTable, bd, hstart, engine, loaded, isr,
                   pulses, pc, caller>>

(* Mutant of IsrReturn: the handler returns NULL after the callback.       *)
IsrReturnMutant(P) ==
    /\ isr = P /\ ~seen
    /\ isr' = None
    /\ UNCHANGED <<expired, cmdmutex, hardware, irqTable, seen, pulses, pc, caller>>

(* return event_array[0]: the kernel queues the pulse, if there is one.    *)
IsrReturn(P) ==
    /\ isr = P /\ ~seen
    /\ isr' = None
    /\ pulses' = IF P \in event THEN [pulses EXCEPT ![P] = @ + 1] ELSE pulses
    /\ UNCHANGED <<expired, cmdmutex, hardware, irqTable, seen, pc, caller>>

(***************************************************************************)
(* External: the SDMA engine running the channel 0 script.                 *)
(***************************************************************************)

(* It takes the start bit and reads the descriptor; one whose DONE bit is  *)
(* clear gives it nothing to do.                                           *)
EngineFetch ==
    /\ hstart /\ engine = NoJob
    /\ hstart' = FALSE
    /\ engine' = IF bd.done THEN bd.job ELSE NoJob
    /\ UNCHANGED <<expired, cmdmutex, intr, bd, loaded, irqTable, handler, pulses,
                   pc, caller>>

(* It finishes the transfer, clears DONE and raises the interrupt.         *)
EngineDone ==
    /\ engine # NoJob
    /\ engine' = NoJob
    /\ loaded' = [loaded EXCEPT ![engine[1]] = engine[2]]
    /\ bd' = [bd EXCEPT !.done = FALSE]
    /\ intr' = TRUE
    /\ UNCHANGED <<expired, cmdmutex, hstart, irqTable, handler, pulses, pc,
                   caller>>

(***************************************************************************)

ThreadStep(t) ==
    \/ Lock(t) \/ EventAddMask(t) \/ EventAddEvent(t) \/ SetDescriptor(t)
    \/ Start(t) \/ ReceivePulse(t) \/ EventRemoveMask(t)
    \/ EventRemoveEvent(t) \/ Unlock(t)

Isr(P) == IsrRead(P) \/ IsrTake(P) \/ IsrReturn(P)

Engine == EngineFetch \/ EngineDone

Next == \/ \E t \in Threads : Call(t) \/ ThreadStep(t) \/ TimeOut(t)
        \/ \E P \in Procs : Isr(P)
        \/ Engine

Spec == Init /\ [][Next]_vars

(* The timer of a wait runs out in the end.  Progress relies on that only  *)
(* once a wait has expired: the handler then clears a completion together  *)
(* with a late earlier one, and a wait may have to run into its timeout.   *)
(* Until then the completion itself must end every wait.                   *)
LateTimeOut(t) == expired /\ TimeOut(t)

(* The engine, the interrupt controller and the scheduler make progress;   *)
(* the kernel queues mutex waiters, so a waiter is not passed over for ever. *)
FairSpec ==
    /\ Spec
    /\ WF_vars(Engine)
    /\ \A P \in Procs : WF_vars(Isr(P))
    /\ \A t \in Threads : /\ WF_vars(ThreadStep(t)) /\ SF_vars(Lock(t))
                           /\ WF_vars(LateTimeOut(t))

(***************************************************************************)
(* Properties                                                              *)
(***************************************************************************)

(* cmd.c:349: the event is detached "so we don't receive notifications from *)
(* other processes using the command channel": only the process of the     *)
(* thread that holds the mutex listens to channel 0, even after timeouts.  *)
OnlyHolderListens ==
    \A P \in mask \cup event : cmdmutex # None /\ P = Home[cmdmutex]

(* cmd.c:318: from the moment a thread has filled in the descriptor until  *)
(* it stops waiting, the one command descriptor names its context.         *)
DescriptorOwned ==
    \A t \in Threads : pc[t] \in {"start", "wait"} => bd.job = <<t, calls[t]>>

(* cmd.c:309,337: a call that reports success has waited for the command   *)
(* to complete: the engine has loaded the context of this very call.       *)
LoadedOnSuccess ==
    \A t \in Threads : ret[t] = "ok" => loaded[t] = calls[t]

(* The same as long as no wait has timed out.                              *)
LoadedInTime == ~expired => LoadedOnSuccess

(* Every call returns: the completion of a started command reaches the     *)
(* waiting thread through the interrupt bit, the mask, the event and the   *)
(* pulse queue; after a wait that expired, a completion may be cleared     *)
(* together with a late one, and the timeout ends the wait.                *)
CallsReturn == \A t \in Threads : pc[t] = "lock" ~> pc[t] = "idle"

(***************************************************************************)
(* The inductive invariants behind OnlyHolderListens and DescriptorOwned   *)
(* (Turns) and, as long as the engine answers in time, LoadedOnSuccess     *)
(* (InTime).                                                               *)
(***************************************************************************)

HolderAt == \A t \in Threads : pc[t] \notin {"idle", "lock"} <=> cmdmutex = t

MaskAt ==
    \A P \in Procs : P \in mask <=>
        \E t \in Threads : /\ Home[t] = P
                           /\ pc[t] \in {"event", "bd", "start", "wait", "unmask"}

EventAt ==
    \A P \in Procs : P \in event <=>
        \E t \in Threads : /\ Home[t] = P
                           /\ pc[t] \in {"bd", "start", "wait", "unmask", "unevent"}

Turns == TypeOK /\ HolderAt /\ MaskAt /\ EventAt /\ DescriptorOwned

(* Nothing of a command is under way outside the wait for its completion.  *)
NoSignal == ~intr /\ isr = None /\ \A P \in Procs : pulses[P] = 0
Quiet == ~hstart /\ engine = NoJob /\ NoSignal

(* While thread t waits, its command is in exactly one place: started, in  *)
(* the engine, in the interrupt bit, in the ISR or in the pulse queue.     *)
InFlight(t) ==
    \/ hstart /\ bd.done /\ engine = NoJob /\ NoSignal
    \/ ~hstart /\ engine = <<t, calls[t]>> /\ NoSignal
    \/ /\ ~hstart /\ engine = NoJob /\ loaded[t] = calls[t]
       /\ \/ intr /\ isr = None /\ \A P \in Procs : pulses[P] = 0
          \/ isr = Home[t] /\ (intr <=> seen) /\ \A P \in Procs : pulses[P] = 0
          \/ /\ ~intr /\ isr = None
             /\ \A P \in Procs : pulses[P] = IF P = Home[t] THEN 1 ELSE 0

InTime ==
    /\ Turns
    /\ \A t \in Threads : pc[t] = "wait" => InFlight(t)
    /\ (\A t \in Threads : pc[t] # "wait") => Quiet
    /\ \A t \in Threads : pc[t] = "start" => bd.done
    /\ \A t \in Threads : pc[t] \in {"lock", "mask", "event", "bd", "start", "wait"}
                              => ret[t] = "none"
    /\ LoadedOnSuccess

=============================================================================
