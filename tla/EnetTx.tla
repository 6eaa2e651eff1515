------------------------------- MODULE EnetTx -------------------------------
(***************************************************************************)
(* The transmit ring of the Ethernet driver devnp-mx6x: mx6q_start,        *)
(* mx6q_transmit_complete and mx6q_kick_tx (transmit.c), the periodic      *)
(* cleaning of mx6q_MDI_MonitorPhy and the link-up path (mii.c),           *)
(* mx6q_process_interrupt (event.c), mx6q_stop and mx6q_init (detect.c).   *)
(*                                                                         *)
(* io-pkt runs the driver on several threads.  Any of them may transmit;   *)
(* timers, stop and init run on the stack thread; the threads of           *)
(* IrqThreads process interrupts.  if_snd_ex is the exclusion of the       *)
(* transmit side.  Only descriptors of one fragment occur                  *)
(* (MX6Q_MAX_FRAGS is 1), so a packet takes one descriptor.                *)
(***************************************************************************)
EXTENDS Integers

CONSTANTS
    Threads,      \* io-pkt threads
    Stack,        \* the stack thread
    IrqThreads,   \* threads that process interrupts
    N,            \* mx6q->num_tx_descriptors
    MaxQueue,     \* length of the send queue if_snd
    StopTries,    \* times mx6q_stop waits for IFF_OACTIVE (10 in the code)
    Ptp,          \* some frames are PTP events, whose timestamp interrupts
    CanReinit     \* the stack may stop the interface and initialise it again

ASSUME ThreadsAssumption ==
    Stack \in Threads /\ IrqThreads \subseteq Threads /\ "none" \notin Threads
ASSUME RingAssumption == N \in Nat /\ N >= 8
ASSUME BoundsAssumption ==
    /\ MaxQueue \in Nat \ {0} /\ StopTries \in Nat \ {0}
    /\ Ptp \in BOOLEAN /\ CanReinit \in BOOLEAN

None == "none"
MX6Q_MAX_FRAGS == 1
MX6Q_UNUSED_DESCR == 4

VARIABLES
    snd_ex,    \* holder of if_snd_ex
    queue,     \* packets in if_snd
    running,   \* IFF_RUNNING of if_flags_tx
    oactive,   \* IFF_OACTIVE of if_flags_tx
    callout,   \* tx_callout is armed
    reaped,    \* tx_reaped
    pidx, cidx, inuse,   \* tx_pidx, tx_cidx, tx_descr_inuse
    ready,     \* descriptors with TXBD_R set
    bdu,       \* descriptors with BD_BDU set
    pkts,      \* descriptors with an mbuf in tx_pkts
    nic,       \* external: the descriptor the NIC looks at next
    nicOn,     \* external: ECNTRL_ETHER_EN
    ievent,    \* MX6Q_IEVENT: rx, ts
    pc, ret,   \* position of each thread, and where transmit_complete returns
    idx, has,  \* locals of transmit_complete: index, and whether m is not NULL
    tries      \* i of mx6q_stop

vars == <<snd_ex, queue, running, oactive, callout, reaped, pidx, cidx, inuse,
          ready, bdu, pkts, nic, nicOn, ievent, pc, ret, idx, has, tries>>

Slots == 0..(N - 1)

StartPC == {"start", "loop", "check", "dequeue", "fill", "enable"}
ReapPC == {"reap", "free", "next"}
StopPC == {"stopLock", "stopWait", "quiesce", "ring", "on", "initLock", "initRun"}
PCs == {"idle", "monitor", "irq"} \cup StartPC \cup ReapPC \cup StopPC

TypeOK ==
    /\ snd_ex \in Threads \cup {None}
    /\ queue \in 0..MaxQueue
    /\ running \in BOOLEAN /\ oactive \in BOOLEAN /\ callout \in BOOLEAN
    /\ reaped \in BOOLEAN /\ nicOn \in BOOLEAN
    /\ pidx \in Slots /\ cidx \in Slots /\ inuse \in Int
    /\ ready \subseteq Slots /\ bdu \subseteq Slots /\ pkts \subseteq Slots
    /\ nic \in Slots /\ ievent \subseteq {"rx", "ts"}
    /\ pc \in [Threads -> PCs]
    /\ ret \in [Threads -> {"check", "monitor", "irq", "ring", "idle"}]
    /\ idx \in [Threads -> Slots] /\ has \in [Threads -> BOOLEAN]
    /\ tries \in 0..StopTries

(* The interface is attached and not yet initialised.                      *)
Init ==
    /\ snd_ex = None /\ queue = 0 /\ running = FALSE /\ oactive = FALSE
    /\ callout = FALSE /\ reaped = FALSE /\ pidx = 0 /\ cidx = 0 /\ inuse = 0
    /\ ready = {} /\ bdu = {} /\ pkts = {} /\ nic = 0 /\ nicOn = FALSE
    /\ ievent = {} /\ pc = [t \in Threads |-> "idle"]
    /\ ret = [t \in Threads |-> "idle"] /\ idx = [t \in Threads |-> 0]
    /\ has = [t \in Threads |-> FALSE] /\ tries = 0

Goto(t, l) == pc' = [pc EXCEPT ![t] = l]
NEXT_TX(x) == (x + 1) % N

ring == <<pidx, cidx, inuse, ready, bdu, pkts>>
flags == <<running, oactive, callout, reaped>>
hw == <<nic, nicOn, ievent>>
locals == <<ret, idx, has, tries>>

Lock(t) == snd_ex = None /\ snd_ex' = t
Unlock == snd_ex' = None

(* (A local variable that is out of scope is 0, FALSE or "idle".)          *)

(***************************************************************************)
(* Entry points of mx6q_start                                              *)
(***************************************************************************)

(* External: io-pkt puts a packet in the send queue and, unless            *)
(* IFF_OACTIVE is set, calls if_start, with if_snd_ex held throughout.     *)
(* A packet that finds the queue full is dropped.                          *)
Output(t) ==
    /\ pc[t] = "idle"
    /\ queue' = IF queue < MaxQueue THEN queue + 1 ELSE queue
    /\ IF oactive THEN snd_ex = None /\ UNCHANGED <<snd_ex, pc>>
                  ELSE Lock(t) /\ Goto(t, "start")
    /\ UNCHANGED <<flags, ring, hw, locals>>

(* mx6q_kick_tx, when tx_callout expires.                                  *)
Kick ==
    /\ pc[Stack] = "idle" /\ callout /\ Lock(Stack)
    /\ callout' = FALSE
    /\ Goto(Stack, "start")
    /\ UNCHANGED <<queue, running, oactive, reaped, ring, hw, locals>>

(* mx6q_mii_callback, link up: packets still queued are started again.     *)
LinkUp ==
    /\ pc[Stack] = "idle" /\ nicOn /\ queue > 0 /\ Lock(Stack)
    /\ Goto(Stack, "start")
    /\ UNCHANGED <<queue, flags, ring, hw, locals>>

(***************************************************************************)
(* mx6q_start                                                              *)
(***************************************************************************)

Start(t) ==
    /\ pc[t] = "start"
    /\ IF running THEN oactive' = TRUE /\ Goto(t, "loop") /\ UNCHANGED snd_ex
                  ELSE UNCHANGED oactive /\ Goto(t, "idle") /\ Unlock
    /\ UNCHANGED <<queue, running, callout, reaped, ring, hw, locals>>

desc_avail == N - inuse

TooFew == desc_avail < MX6Q_MAX_FRAGS + MX6Q_UNUSED_DESCR

(* Too few descriptors, or one of eight times around the ring: clean up.   *)
Loop(t) ==
    /\ pc[t] = "loop"
    /\ IF TooFew \/ desc_avail % (N \div 8) = 0
         THEN Goto(t, "reap") /\ ret' = [ret EXCEPT ![t] = "check"]
         ELSE Goto(t, "dequeue") /\ UNCHANGED ret
    /\ UNCHANGED <<snd_ex, queue, flags, ring, hw, idx, has, tries>>

(* Mutant of Check: no callback is set for another attempt.                *)
CheckMutant(t) ==
    /\ pc[t] = "check"
    /\ IF TooFew THEN Unlock /\ Goto(t, "idle")
                 ELSE UNCHANGED snd_ex /\ Goto(t, "dequeue")
    /\ UNCHANGED <<queue, flags, ring, hw, locals>>

(* Still too few: try again in 1 ms, with IFF_OACTIVE left set.            *)
Check(t) ==
    /\ pc[t] = "check"
    /\ IF TooFew THEN callout' = TRUE /\ Unlock /\ Goto(t, "idle")
                 ELSE UNCHANGED <<callout, snd_ex>> /\ Goto(t, "dequeue")
    /\ UNCHANGED <<queue, running, oactive, reaped, ring, hw, locals>>

(* Take a packet; a fragmented one is copied into one cluster, or freed    *)
(* when mx6q_defrag fails.  With none left, clear IFF_OACTIVE and return.  *)
Dequeue(t) ==
    /\ pc[t] = "dequeue"
    /\ IF queue = 0
         THEN oactive' = FALSE /\ Unlock /\ Goto(t, "idle") /\ UNCHANGED queue
         ELSE /\ queue' = queue - 1
              /\ Goto(t, "fill") \/ Goto(t, "loop")
              /\ UNCHANGED <<oactive, snd_ex>>
    /\ UNCHANGED <<running, callout, reaped, ring, hw, locals>>

(* Mutant of Fill: tx_descr_inuse is not increased.                        *)
FillMutant(t) ==
    /\ pc[t] = "fill"
    /\ pkts' = pkts \cup {pidx} /\ pidx' = NEXT_TX(pidx)
    /\ Goto(t, "enable")
    /\ idx' = [idx EXCEPT ![t] = pidx]
    /\ UNCHANGED <<snd_ex, queue, flags, cidx, inuse, ready, bdu, hw, ret, has, tries>>

(* Load the descriptor and advance; READY is not set yet.  A descriptor    *)
(* that is still READY means "out of sync with nic": free the packet and   *)
(* try again later.                                                        *)
Fill(t) ==
    /\ pc[t] = "fill"
    /\ IF pidx \in ready
         THEN /\ callout' = TRUE /\ Unlock /\ Goto(t, "idle")
              /\ UNCHANGED <<ring, idx>>
         ELSE /\ inuse' = inuse + 1
              /\ pkts' = pkts \cup {pidx}
              /\ pidx' = NEXT_TX(pidx)
              /\ idx' = [idx EXCEPT ![t] = pidx]
              /\ Goto(t, "enable")
              /\ UNCHANGED <<callout, snd_ex, cidx, ready, bdu>>
    /\ UNCHANGED <<queue, running, oactive, reaped, hw, ret, has, tries>>

(* status |= TXBD_R | TXBD_L | TXBD_TC, and on to the next packet.         *)
Enable(t) ==
    /\ pc[t] = "enable"
    /\ ready' = ready \cup {idx[t]}
    /\ Goto(t, "loop") /\ idx' = [idx EXCEPT ![t] = 0]
    /\ UNCHANGED <<snd_ex, queue, flags, pidx, cidx, inuse, bdu, pkts, hw, ret, has,
                   tries>>

(***************************************************************************)
(* mx6q_transmit_complete, one descriptor at a time.                       *)
(***************************************************************************)

(* Mutant of Owned: the driver takes back whatever has been filled.        *)
OwnedMutant(x) == FALSE

Owned(x) == x \in ready \/ x \notin bdu    \* the NIC still owns descriptor x

Reap(t) ==
    /\ pc[t] = "reap"
    /\ reaped' = TRUE
    /\ IF pidx = cidx \/ Owned(cidx)
         THEN /\ Goto(t, ret[t]) /\ ret' = [ret EXCEPT ![t] = "idle"]
              /\ UNCHANGED <<idx, has>>
         ELSE /\ idx' = [idx EXCEPT ![t] = cidx]
              /\ has' = [has EXCEPT ![t] = cidx \in pkts]
              /\ Goto(t, "free") /\ UNCHANGED ret
    /\ UNCHANGED <<snd_ex, queue, running, oactive, callout, ring, hw, tries>>

(* m_freem(m), tx_pkts[idx] = NULL.                                        *)
Free(t) ==
    /\ pc[t] = "free"
    /\ pkts' = IF has[t] THEN pkts \ {idx[t]} ELSE pkts
    /\ Goto(t, "next")
    /\ UNCHANGED <<snd_ex, queue, flags, pidx, cidx, inuse, ready, bdu, hw, locals>>

(* Clear the descriptor, count it as free and go on to the next.           *)
FreeNext(t) ==
    /\ pc[t] = "next"
    /\ ready' = ready \ {idx[t]} /\ bdu' = bdu \ {idx[t]}
    /\ inuse' = inuse - 1
    /\ cidx' = NEXT_TX(idx[t])
    /\ Goto(t, "reap")
    /\ idx' = [idx EXCEPT ![t] = 0] /\ has' = [has EXCEPT ![t] = FALSE]
    /\ UNCHANGED <<snd_ex, queue, flags, pidx, pkts, hw, ret, tries>>

(***************************************************************************)
(* Other callers of mx6q_transmit_complete.                                *)
(***************************************************************************)

(* Mutant of Monitor: the ring is cleaned only if start has cleaned it.     *)
MonitorMutant ==
    /\ pc[Stack] = "idle" /\ nicOn
    /\ IF reaped
         THEN /\ Lock(Stack) /\ Goto(Stack, "reap")
              /\ ret' = [ret EXCEPT ![Stack] = "monitor"]
              /\ UNCHANGED reaped
         ELSE reaped' = FALSE /\ UNCHANGED <<snd_ex, pc, ret>>
    /\ UNCHANGED <<queue, running, oactive, callout, ring, hw, idx, has, tries>>

(* mx6q_MDI_MonitorPhy, every two seconds: clean the ring unless it has    *)
(* been cleaned since the last time.  The timer is armed where the MAC is  *)
(* turned on and cancelled where it is reset.                              *)
Monitor ==
    /\ pc[Stack] = "idle" /\ nicOn
    /\ IF ~reaped
         THEN /\ Lock(Stack) /\ Goto(Stack, "reap")
              /\ ret' = [ret EXCEPT ![Stack] = "monitor"]
              /\ UNCHANGED reaped
         ELSE reaped' = FALSE /\ UNCHANGED <<snd_ex, pc, ret>>
    /\ UNCHANGED <<queue, running, oactive, callout, ring, hw, idx, has, tries>>

MonitorEnd ==
    /\ pc[Stack] = "monitor"
    /\ Unlock /\ reaped' = FALSE /\ Goto(Stack, "idle")
    /\ UNCHANGED <<queue, running, oactive, callout, ring, hw, locals>>

(* io-pkt calls mx6q_process_interrupt on a thread.                        *)
Interrupt(t) ==
    /\ pc[t] = "idle" /\ t \in IrqThreads /\ nicOn /\ ievent # {}
    /\ Goto(t, "irq")
    /\ UNCHANGED <<snd_ex, queue, flags, ring, hw, locals>>

(* Read and acknowledge the causes until there are none.  A received       *)
(* packet takes precedence: its cause hides a timestamp's in the same      *)
(* reading.  transmit_complete is called without if_snd_ex.                *)
ProcessInterrupt(t) ==
    /\ pc[t] = "irq"
    /\ ievent' = {}
    /\ IF ievent = {} THEN Goto(t, "idle") /\ UNCHANGED ret
       ELSE IF "rx" \in ievent THEN UNCHANGED <<pc, ret>>
       ELSE Goto(t, "reap") /\ ret' = [ret EXCEPT ![t] = "irq"]
    /\ UNCHANGED <<snd_ex, queue, flags, ring, nic, nicOn, idx, has, tries>>

(***************************************************************************)
(* mx6q_stop and mx6q_init, on the stack thread.                           *)
(***************************************************************************)

(* mx6q_init, which begins with mx6q_stop, or mx6q_stop alone: cancel the  *)
(* timers and reset the NIC ...                                            *)
Stop ==
    /\ pc[Stack] = "idle" /\ (CanReinit \/ ~running)
    /\ \E r \in {"ring", "idle"} : ret' = [ret EXCEPT ![Stack] = r]
    /\ callout' = FALSE /\ nicOn' = FALSE /\ ievent' = {} /\ tries' = 0
    /\ Goto(Stack, "stopLock")
    /\ UNCHANGED <<snd_ex, queue, running, oactive, reaped, ring, nic, idx, has>>

(* ... lock the transmit side out ...                                      *)
StopLock ==
    /\ pc[Stack] = "stopLock" /\ Lock(Stack)
    /\ Goto(Stack, "stopWait")
    /\ UNCHANGED <<queue, flags, ring, hw, locals>>

(* ... waiting a number of times for IFF_OACTIVE to be clear ...           *)
StopWait ==
    /\ pc[Stack] = "stopWait"
    /\ IF tries < StopTries /\ oactive
         THEN /\ Unlock /\ tries' = tries + 1 /\ Goto(Stack, "stopLock")
              /\ UNCHANGED running
       ELSE IF tries < StopTries
         THEN Unlock /\ running' = FALSE /\ Goto(Stack, ret[Stack]) /\ tries' = 0
         ELSE Goto(Stack, "quiesce") /\ UNCHANGED <<snd_ex, running, tries>>
    /\ UNCHANGED <<queue, oactive, callout, reaped, ring, hw, ret, idx, has>>

(* ... or using quiesce_all, when the other threads are between two jobs.  *)
(* The code does not unlock if_snd_ex on this path.                        *)
Quiesce ==
    /\ pc[Stack] = "quiesce"
    /\ \A t \in Threads \ {Stack} : pc[t] = "idle"
    /\ running' = FALSE
    /\ Goto(Stack, ret[Stack])
    /\ UNCHANGED <<snd_ex, queue, oactive, callout, reaped, ring, hw, locals>>

(* mx6q_init goes on with the ring: the status of every descriptor but the *)
(* last is overwritten, the last only gets TXBD_W added; mbufs are freed;  *)
(* BD_BDU is not touched.  The rx ring may run out of mbufs (ENOMEM).      *)
RingInit ==
    /\ pc[Stack] = "ring"
    /\ ready' = ready \cap {N - 1}
    /\ pkts' = {} /\ pidx' = 0 /\ cidx' = 0 /\ inuse' = 0
    /\ Goto(Stack, "on") \/ Goto(Stack, "idle")
    /\ UNCHANGED <<snd_ex, queue, flags, bdu, hw, locals>>

(* Turn the MAC on, at the head of the ring.  When InterruptAttach fails   *)
(* mx6q_init returns there: the MAC runs, IFF_RUNNING stays clear.         *)
TurnOn ==
    /\ pc[Stack] = "on"
    /\ nicOn' = TRUE /\ nic' = 0
    /\ Goto(Stack, "initLock") \/ Goto(Stack, "idle")
    /\ UNCHANGED <<snd_ex, queue, flags, ring, ievent, locals>>

InitLock ==
    /\ pc[Stack] = "initLock" /\ Lock(Stack)
    /\ Goto(Stack, "initRun")
    /\ UNCHANGED <<queue, flags, ring, hw, locals>>

InitRun ==
    /\ pc[Stack] = "initRun"
    /\ running' = TRUE /\ Unlock /\ Goto(Stack, "idle")
    /\ UNCHANGED <<queue, oactive, callout, reaped, ring, hw, locals>>

(***************************************************************************)
(* External: the NIC.                                                      *)
(***************************************************************************)

(* It transmits a READY descriptor and marks it updated; a PTP event frame *)
(* makes its timestamp available.                                          *)
NicSend ==
    /\ nicOn /\ nic \in ready
    /\ ready' = ready \ {nic} /\ bdu' = bdu \cup {nic} /\ nic' = NEXT_TX(nic)
    /\ ievent' = ievent \/ (Ptp /\ ievent' = ievent \cup {"ts"})
    /\ UNCHANGED <<snd_ex, queue, flags, pidx, cidx, inuse, pkts, nicOn, pc, locals>>

(* It receives a packet.                                                   *)
NicReceive ==
    /\ Ptp /\ nicOn /\ ievent' = ievent \cup {"rx"}
    /\ UNCHANGED <<snd_ex, queue, flags, ring, nic, nicOn, pc, locals>>

(***************************************************************************)

StartStep(t) ==
    \/ Start(t) \/ Loop(t) \/ Check(t) \/ Dequeue(t) \/ Fill(t) \/ Enable(t)
ReapStep(t) == Reap(t) \/ Free(t) \/ FreeNext(t)
StopStep ==
    \/ StopLock \/ StopWait \/ Quiesce \/ RingInit \/ TurnOn \/ InitLock \/ InitRun

Next ==
    \/ \E t \in Threads : \/ Output(t) \/ StartStep(t) \/ ReapStep(t)
                          \/ Interrupt(t) \/ ProcessInterrupt(t)
    \/ Kick \/ LinkUp \/ Monitor \/ MonitorEnd \/ Stop \/ StopStep
    \/ NicSend \/ NicReceive

Spec == Init /\ [][Next]_vars

(* The link is up, timers expire, the threads run, and one that waits for  *)
(* if_snd_ex gets it at some time.  Packets do not always arrive faster    *)
(* than a thread processes them: it finds no cause again at some time.     *)
Fairness ==
    /\ \A t \in Threads : WF_vars(StartStep(t) \/ ReapStep(t))
    /\ SF_vars(Kick) /\ SF_vars(Monitor) /\ WF_vars(MonitorEnd)
    /\ \A t \in IrqThreads : /\ WF_vars(ProcessInterrupt(t))
                              /\ SF_vars(ProcessInterrupt(t) /\ ievent = {})
    /\ WF_vars(NicSend)

FairSpec == Spec /\ Fairness

(***************************************************************************)
(* Properties                                                              *)
(***************************************************************************)

Span(c, p) == IF c <= p THEN p - c ELSE p - c + N

(* tx_descr_inuse, on which the flow control of mx6q_start rests, is       *)
(* always the distance from the consumer to the producer index.            *)
InUseExact == inuse = Span(cidx, pidx)

(* The NIC never transmits from an mbuf that was freed.                    *)
BufferAlive == ready \subseteq pkts

(* mx6q.h:89: the driver leaves "a buffer of 4 empty tx descriptors".      *)
SpareDescriptors == inuse <= N - MX6Q_UNUSED_DESCR

(* transmit.c:289: a descriptor about to be loaded is never READY, and it  *)
(* has no mbuf that would be lost.                                         *)
FillsFreeSlot == \A t \in Threads : pc[t] = "fill" => pidx \notin ready \cup pkts

(* transmit.c:400, "call with if_snd_ex": no two threads free one mbuf.    *)
(* The call of event.c:135 is made without it, and when timestamps are in  *)
(* use (Ptp) beside another thread the property fails.                     *)
FreedOnce ==
    \A t, u \in Threads :
        t # u /\ pc[t] = "free" /\ pc[u] = "free" /\ has[t] /\ has[u]
        => idx[t] # idx[u]

(* detect.c:870: mx6q_init is "REALLY ok to call over and over again": it  *)
(* never waits for an exclusion that its own thread holds.                 *)
InitRepeatable == ~(pc[Stack] \in {"stopLock", "initLock"} /\ snd_ex = Stack)

(* transmit.c:195: while IFF_OACTIVE keeps the stack from calling, the     *)
(* driver itself goes on until it takes a packet or none is queued.        *)
NotWedged == oactive ~> (queue = 0 \/ \E t \in Threads : pc[t] = "fill")

(* transmit.c:180: transmitted mbufs are given back even if no one         *)
(* transmits again: the ring empties again and again, or the consumer      *)
(* index goes around it for ever, and every mbuf has its turn.             *)
MbufsReturned == []<>(inuse = 0) \/ []<><<cidx' # cidx>>_vars

(***************************************************************************)
(* The inductive invariants: Turns when timestamp interrupts do not reap   *)
(* the ring beside another thread, and Occupied when, besides, the         *)
(* interface is initialised only once.                                     *)
(***************************************************************************)

LockedPC == StartPC \cup ReapPC \cup {"monitor", "stopWait", "quiesce", "initRun"}

(* With timestamps, io-pkt has only its stack thread.                      *)
SafeThreads == Ptp => Threads = {Stack}

(* Only an interrupt reaps the ring without if_snd_ex.                     *)
LockAt ==
    \A t \in Threads :
        pc[t] \in LockedPC => snd_ex = t \/ (pc[t] \in ReapPC /\ ret[t] = "irq")

NoInterrupt == Ptp \/ (ievent = {} /\ \A t \in Threads : pc[t] # "irq")

(* The stack thread alone runs timers, stop and init; transmit_complete    *)
(* returns to mx6q_start, to the timer or to the interrupt.                *)
Roles ==
    \A t \in Threads :
        /\ pc[t] \in {"monitor"} \cup StopPC => t = Stack
        /\ pc[t] \in ReapPC => \/ ret[t] = "check" \/ (ret[t] = "monitor" /\ t = Stack)
                              \/ (ret[t] = "irq" /\ Ptp)
        /\ pc[t] \in {"stopLock", "stopWait", "quiesce"} => ret[t] \in {"ring", "idle"}

(* Packets are handled only while IFF_RUNNING is set, the ring is          *)
(* initialised only while it is not.                                       *)
RunningAt ==
    \A t \in Threads :
        /\ pc[t] \in StartPC \ {"start"} => running
        /\ pc[t] \in ReapPC /\ ret[t] = "check" => running
        /\ pc[t] \in {"ring", "on", "initLock", "initRun"} => ~running

ReapAt ==
    \A t \in Threads :
        pc[t] \in {"free", "next"} => idx[t] = cidx /\ cidx # pidx

RoomAt ==
    /\ 0 <= inuse /\ SpareDescriptors
    /\ \A t \in Threads : pc[t] \in {"dequeue", "fill"} => ~TooFew

Turns == TypeOK /\ LockAt /\ NoInterrupt /\ Roles /\ RunningAt /\ ReapAt
         /\ InUseExact /\ RoomAt

(* x is one of the descriptors from the consumer up to the producer index. *)
Between(x, c, p) == IF c <= p THEN c <= x /\ x < p ELSE c <= x \/ x < p

(* Mbufs are where descriptors are in use; a descriptor that is being      *)
(* taken back or loaded is not READY.                                      *)
PktsAt ==
    /\ \A x \in pkts : Between(x, cidx, pidx)
    /\ \A t \in Threads :
         /\ pc[t] = "enable" => idx[t] \in pkts
         /\ pc[t] \in {"free", "next"} => cidx \notin ready
         /\ pc[t] = "free" => has[t] \/ cidx \notin pkts
         /\ pc[t] = "next" => cidx \notin pkts

FirstInit ==
    /\ ~running => pkts = {}
    /\ pc[Stack] \in StopPC => ~running

Occupied == Turns /\ BufferAlive /\ PktsAt /\ FirstInit

=============================================================================
