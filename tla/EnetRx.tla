------------------------------- MODULE EnetRx -------------------------------
(***************************************************************************)
(* The receive side of the Ethernet driver devnp-mx6x: the interrupt       *)
(* handlers and mx6q_process_interrupt (event.c), mx6q_receive and         *)
(* mx6q_add_pkt (receive.c), and what mx6q_stop, mx6q_init and             *)
(* mx6q_destroy (detect.c) do to the receive ring.                         *)
(*                                                                         *)
(* The ISR masks the interrupt and queues the driver's entry with io-pkt;  *)
(* an io-pkt thread takes it off the list, runs mx6q_process_interrupt and *)
(* then the enable() callout.  The NIC fills descriptors whose RXBD_E is   *)
(* set; the driver puts an empty mbuf in the place of each full one and    *)
(* passes the full one up.                                                 *)
(***************************************************************************)
EXTENDS Integers

CONSTANTS
    N,           \* mx6q->num_rx_descriptors
    Mbufs,       \* the mbuf clusters
    Frames,      \* frames are numbered modulo this
    Kermask,     \* option kermask: mask in the kernel (default), or in the NIC
    OneThread    \* io-pkt has one thread: stop and init exclude the job

ASSUME RingAssumption == N \in Nat \ {0} /\ Frames \in Nat \ {0}
ASSUME OptionAssumption == Kermask \in BOOLEAN /\ OneThread \in BOOLEAN

None == "none"
ASSUME NoneAssumption == None \notin Mbufs

VARIABLES
    rx_pkts, rx_cidx,   \* the mbuf of each descriptor, the consumer index
    empty,     \* descriptors with RXBD_E
    wrap,      \* descriptors with RXBD_W
    bad,       \* descriptors with a bit of RXBD_ERR
    buffer,    \* bd->buffer: the mbuf whose cluster the NIC will fill
    pool, up,  \* external: free mbufs, and mbufs the stack has
    frame,     \* history: the frame in each mbuf (0 when it is of no account)
    nic, nicOn,   \* external: the NIC's descriptor; ECNTRL_ETHER_EN
    rdes,      \* external: R_DES_ACTIVE
    ievent,    \* MX6Q_IEVENT: rx, and other causes
    imask,     \* MX6Q_IMASK is not 0: the NIC interrupts
    attached,  \* InterruptAttach is in effect, mx6q->iid # -1
    kmask,     \* external: the kernel's mask of this interrupt
    onlist,    \* external: mx6q->inter is on io-pkt's list
    stk, i,    \* position of the stack thread in stop and init, and its index
    op,        \* which of the two calls, or destroy
    job,       \* position of the interrupt job
    this, err, rpkt, new,   \* locals of mx6q_receive
    sent, seen,   \* history: next frame of the NIC, next frame of the driver
    lost       \* history: an access to the PHY has acknowledged the last
               \* receive cause, and no other has come since

ring == <<rx_pkts, rx_cidx, empty, wrap, bad, buffer>>
mem == <<pool, up>>
hist == <<frame, sent, seen>>
hw == <<nic, nicOn, rdes, ievent>>
irq == <<imask, attached, kmask, onlist>>
stack == <<stk, i, op>>
locals == <<this, err, rpkt, new>>

vars == <<ring, mem, hist, hw, irq, stack, job, locals, lost>>

Slots == 0..(N - 1)
MbufOrNone == Mbufs \cup {None}

StackPC == {"idle", "reset", "detach", "ring", "on", "attach", "free", "dead",
            "mii"}
JobPC == {"idle", "cause", "check", "take", "refill", "load", "give", "pass",
          "active", "enable"}

FlagsOK ==
    /\ nicOn \in BOOLEAN /\ rdes \in BOOLEAN /\ imask \in BOOLEAN
    /\ attached \in BOOLEAN /\ kmask \in BOOLEAN /\ onlist \in BOOLEAN
    /\ err \in BOOLEAN /\ lost \in BOOLEAN

TypeOK ==
    /\ rx_pkts \in [Slots -> MbufOrNone] /\ rx_cidx \in Slots
    /\ empty \subseteq Slots /\ wrap \subseteq Slots /\ bad \subseteq Slots
    /\ buffer \in [Slots -> MbufOrNone]
    /\ pool \subseteq Mbufs /\ up \subseteq Mbufs
    /\ frame \in [Mbufs -> 0..(Frames - 1)]
    /\ sent \in 0..(Frames - 1) /\ seen \in 0..(Frames - 1)
    /\ nic \in Slots /\ ievent \subseteq {"rx", "other"}
    /\ FlagsOK
    /\ stk \in StackPC /\ i \in Slots /\ op \in {"none", "init", "stop", "destroy"}
    /\ job \in JobPC
    /\ this \in Slots /\ rpkt \in MbufOrNone /\ new \in MbufOrNone

(* The interface is attached and not yet initialised.                      *)
Init ==
    /\ rx_pkts = [s \in Slots |-> None] /\ rx_cidx = 0
    /\ empty = {} /\ wrap = {} /\ bad = {}
    /\ buffer = [s \in Slots |-> None]
    /\ pool = Mbufs /\ up = {}
    /\ frame = [m \in Mbufs |-> 0] /\ sent = 0 /\ seen = 0
    /\ nic = 0 /\ nicOn = FALSE /\ rdes = FALSE /\ ievent = {}
    /\ imask = FALSE /\ attached = FALSE /\ kmask = FALSE /\ onlist = FALSE
    /\ stk = "idle" /\ i = 0 /\ op = "none"
    /\ job = "idle" /\ this = 0 /\ err = FALSE /\ rpkt = None /\ new = None
    /\ lost = FALSE

NEXT_RX(x) == (x + 1) % N
NextFrame(f) == (f + 1) % Frames

(* Clear or set x in the set of descriptors with some status bit.          *)
With(set, x, on) == IF on THEN set \cup {x} ELSE set \ {x}

(***************************************************************************)
(* Interrupt handlers                                                      *)
(***************************************************************************)

(* mx6q_isr_rx_kermask masks in the kernel; mx6q_isr_rx writes 0xffffffff  *)
(* to MX6Q_IMASK, in which a 1 lets a cause through (detect.c:603 masks    *)
(* with 0).  Then interrupt_queue.                                         *)
Isr ==
    /\ attached /\ ~kmask /\ imask /\ ievent # {}
    /\ IF Kermask THEN kmask' = TRUE /\ UNCHANGED imask
                  ELSE imask' = TRUE /\ UNCHANGED kmask
    /\ onlist' = TRUE
    /\ UNCHANGED <<ring, mem, hist, hw, attached, stack, job, locals, lost>>

(* External: io-pkt takes the entry off its list.                          *)
JobStart ==
    /\ job = "idle" /\ onlist /\ (OneThread => stk = "idle")
    /\ onlist' = FALSE
    /\ job' = "cause"
    /\ UNCHANGED <<ring, mem, hist, hw, imask, attached, kmask, stack, locals, lost>>

(* mx6q_process_interrupt: read and acknowledge the causes, until there    *)
(* are none.  (The cause of a timestamp is EnetTx's.)                      *)
Cause ==
    /\ job = "cause"
    /\ job' = IF ievent = {} THEN "enable"
              ELSE IF "rx" \in ievent THEN "check" ELSE "cause"
    /\ ievent' = {}
    /\ UNCHANGED <<ring, mem, hist, nic, nicOn, rdes, irq, stack, locals, lost>>

(* mx6q_enable_rx_kermask or mx6q_enable_rx, called by io-pkt.             *)
Enable ==
    /\ job = "enable"
    /\ IF Kermask THEN kmask' = FALSE /\ UNCHANGED imask
                  ELSE imask' = TRUE /\ UNCHANGED kmask
    /\ job' = "idle"
    /\ UNCHANGED <<ring, mem, hist, hw, attached, onlist, stack, locals, lost>>

(***************************************************************************)
(* mx6q_receive                                                            *)
(***************************************************************************)

(* Is there a packet at the next descriptor?                               *)
Check ==
    /\ job = "check"
    /\ IF rx_cidx \in empty THEN job' = "active" /\ UNCHANGED <<this, err>>
         ELSE job' = "take" /\ this' = rx_cidx /\ err' = (rx_cidx \in bad)
    /\ UNCHANGED <<ring, mem, hist, hw, irq, stack, rpkt, new, lost>>

(* Pull the mbuf out of the ring and advance the consumer index.           *)
Take ==
    /\ job = "take"
    /\ rpkt' = rx_pkts[this] /\ rx_pkts' = [rx_pkts EXCEPT ![this] = None]
    /\ rx_cidx' = NEXT_RX(this)
    /\ seen' = NextFrame(seen)
    /\ job' = "refill"
    /\ UNCHANGED <<empty, wrap, bad, buffer, mem, frame, sent, hw, irq, stack, this,
                   err, new, lost>>

(* Mutant of Refill: a bad packet's mbuf goes back, and a new one is taken *)
(* for it as well.                                                         *)
RefillMutant ==
    /\ job = "refill"
    /\ \/ new' = rpkt /\ rpkt' = None /\ UNCHANGED pool
       \/ /\ \E m \in pool : pool' = pool \ {m} /\ new' = m
          /\ rpkt' = IF err THEN None ELSE rpkt
    /\ job' = "load"
    /\ UNCHANGED <<ring, up, hist, hw, irq, stack, this, err, lost>>

(* A bad packet, or no empty mbuf: the NIC gets the old mbuf back, and the *)
(* packet is dropped.                                                      *)
Refill ==
    /\ job = "refill"
    /\ \/ /\ new' = rpkt /\ rpkt' = None
          /\ frame' = [frame EXCEPT ![rpkt] = 0]
          /\ UNCHANGED pool
       \/ /\ ~err
          /\ \E m \in pool : pool' = pool \ {m} /\ new' = m
          /\ UNCHANGED <<rpkt, frame>>
    /\ job' = "load"
    /\ UNCHANGED <<ring, up, sent, seen, hw, irq, stack, this, err, lost>>

(* Mutant of LoadBuffer: the address of the cluster is not updated.        *)
LoadBufferMutant ==
    /\ job = "load"
    /\ rx_pkts' = [rx_pkts EXCEPT ![this] = new]
    /\ new' = None
    /\ job' = "give"
    /\ UNCHANGED <<rx_cidx, empty, wrap, bad, buffer, mem, hist, hw, irq, stack, this,
                   err, rpkt, lost>>

(* mx6q_add_pkt: remember the mbuf, set the descriptor's buffer ...        *)
LoadBuffer ==
    /\ job = "load"
    /\ rx_pkts' = [rx_pkts EXCEPT ![this] = new]
    /\ buffer' = [buffer EXCEPT ![this] = new]
    /\ new' = None
    /\ job' = "give"
    /\ UNCHANGED <<rx_cidx, empty, wrap, bad, mem, hist, hw, irq, stack, this, err,
                   rpkt, lost>>

(* ... and its status last, with the wrap bit on the last descriptor.      *)
GiveToNic ==
    /\ job = "give"
    /\ empty' = empty \cup {this} /\ bad' = bad \ {this}
    /\ wrap' = With(wrap, this, this = N - 1)
    /\ job' = IF rpkt = None THEN "check" ELSE "pass"
    /\ this' = 0 /\ err' = FALSE
    /\ UNCHANGED <<rx_pkts, rx_cidx, buffer, mem, hist, hw, irq, stack, rpkt, new, lost>>

(* Pass the packet up, and look for the next.                              *)
PassUp ==
    /\ job = "pass"
    /\ up' = up \cup {rpkt} /\ rpkt' = None
    /\ frame' = [frame EXCEPT ![rpkt] = 0]
    /\ job' = "check"
    /\ UNCHANGED <<ring, pool, sent, seen, hw, irq, stack, this, err, new, lost>>

(* Mutant of DesActive: reception is not restarted.                        *)
DesActiveMutant ==
    /\ job = "active"
    /\ job' = "cause"
    /\ UNCHANGED <<ring, mem, hist, hw, irq, stack, locals, lost>>

(* Mutant of DesActive: the causes are acknowledged after the packets.     *)
DesActiveLateAck ==
    /\ job = "active"
    /\ rdes' = nicOn /\ ievent' = {}
    /\ job' = "cause"
    /\ UNCHANGED <<ring, mem, hist, nic, nicOn, irq, stack, locals, lost>>

(* "If descriptors were full we've now cleared space, restart receive."    *)
DesActive ==
    /\ job = "active"
    /\ rdes' = nicOn
    /\ job' = "cause"
    /\ UNCHANGED <<ring, mem, hist, nic, nicOn, ievent, irq, stack, locals, lost>>

(***************************************************************************)
(* mx6q_stop, mx6q_init, mx6q_destroy, on the stack thread.  (if_snd_ex    *)
(* and the transmit ring are EnetTx's.)                                    *)
(***************************************************************************)

Call ==
    /\ stk = "idle" /\ (OneThread => job = "idle")
    /\ op' \in {"init", "stop", "destroy"}
    /\ stk' = "reset"
    /\ UNCHANGED <<ring, mem, hist, hw, irq, i, job, locals, lost>>

(* mx6q_reset masks the causes, disables and resets the MAC and clears     *)
(* IEVENT.                                                                 *)
Reset ==
    /\ stk = "reset"
    /\ imask' = FALSE /\ nicOn' = FALSE /\ rdes' = FALSE /\ ievent' = {}
    /\ nic' = 0 /\ lost' = FALSE
    /\ stk' = "detach"
    /\ UNCHANGED <<ring, mem, hist, attached, kmask, onlist, i, op, job, locals>>

(* InterruptDetach: the kernel undoes a mask of the handler                *)
(* (_NTO_INTR_FLAGS_TRK_MSK).  mx6q_init goes on to the receive ring.      *)
Detach ==
    /\ stk = "detach"
    /\ attached' = FALSE /\ kmask' = FALSE
    /\ stk' = IF op = "init" THEN "ring" ELSE IF op = "stop" THEN "idle" ELSE "free"
    /\ i' = 0 /\ op' = "none"
    /\ UNCHANGED <<ring, mem, hist, hw, imask, onlist, job, locals, lost>>

(* The numbering of frames starts again.                                   *)
NewFrames == sent' = 0 /\ seen' = 0 /\ frame' = [m \in Mbufs |-> 0]

(* Mutant of RingSlot: the consumer index is not set back.                 *)
RingSlotMutant ==
    /\ stk = "ring"
    /\ empty' = empty \cup {i} /\ bad' = bad \ {i}
    /\ wrap' = With(wrap, i, i = N - 1)
    /\ \/ /\ \/ rx_pkts[i] # None /\ UNCHANGED <<rx_pkts, pool>>
             \/ rx_pkts[i] = None /\ \E m \in pool :
                  pool' = pool \ {m} /\ rx_pkts' = [rx_pkts EXCEPT ![i] = m]
          /\ buffer' = [buffer EXCEPT ![i] = rx_pkts'[i]]
          /\ IF i < N - 1 THEN i' = i + 1 /\ UNCHANGED <<stk, hist>>
               ELSE i' = 0 /\ stk' = "on" /\ NewFrames
       \/ /\ rx_pkts[i] = None /\ stk' = "idle" /\ i' = 0
          /\ UNCHANGED <<rx_pkts, buffer, pool, hist>>
    /\ UNCHANGED <<rx_cidx, up, hw, irq, op, job, locals, lost>>

(* One descriptor of the receive ring: it is given to the NIC; an mbuf     *)
(* that is already there is used again.  Without memory mx6q_init returns  *)
(* ENOMEM.  Packets that were in the ring are lost.                        *)
RingSlot ==
    /\ stk = "ring"
    /\ empty' = empty \cup {i} /\ bad' = bad \ {i}
    /\ wrap' = With(wrap, i, i = N - 1)
    /\ \/ /\ \/ rx_pkts[i] # None /\ UNCHANGED <<rx_pkts, pool>>
             \/ rx_pkts[i] = None /\ \E m \in pool :
                  pool' = pool \ {m} /\ rx_pkts' = [rx_pkts EXCEPT ![i] = m]
          /\ buffer' = [buffer EXCEPT ![i] = rx_pkts'[i]]
          /\ IF i < N - 1 THEN i' = i + 1 /\ UNCHANGED <<rx_cidx, stk, hist>>
               ELSE i' = 0 /\ rx_cidx' = 0 /\ stk' = "on" /\ NewFrames
       \/ /\ rx_pkts[i] = None /\ stk' = "idle" /\ i' = 0
          /\ UNCHANGED <<rx_pkts, rx_cidx, buffer, pool, hist>>
    /\ UNCHANGED <<up, hw, irq, op, job, locals, lost>>

(* No MAC address: return -1.  Otherwise the PHY is set up, the MAC is     *)
(* turned on at the head of the ring and reception is started.             *)
TurnOn ==
    /\ stk = "on"
    /\ \/ nicOn' = TRUE /\ rdes' = TRUE /\ stk' = "attach"
       \/ stk' = "idle" /\ UNCHANGED <<nicOn, rdes>>
    /\ UNCHANGED <<ring, mem, hist, nic, ievent, irq, i, op, job, locals, lost>>

(* InterruptAttach_r may fail; otherwise the causes are let through.       *)
Attach ==
    /\ stk = "attach"
    /\ \/ attached' = TRUE /\ imask' = TRUE
       \/ UNCHANGED <<attached, imask>>
    /\ stk' = "idle"
    /\ UNCHANGED <<ring, mem, hist, hw, kmask, onlist, i, op, job, locals, lost>>

(* mx6q_rx_mbuf_free                                                       *)
RxMbufFree ==
    /\ stk = "free"
    /\ pool' = pool \cup {rx_pkts[s] : s \in {x \in Slots : rx_pkts[x] # None}}
    /\ rx_pkts' = [s \in Slots |-> None]
    /\ stk' = "dead"
    /\ UNCHANGED <<rx_cidx, empty, wrap, bad, buffer, up, hist, hw, irq, i, op, job,
                   locals, lost>>

(***************************************************************************)
(* Accesses to the PHY, on the stack thread: mx6q_MDI_MonitorPhy, which    *)
(* mx6q_init arms for every two seconds and which probes the PHY unless    *)
(* packets came in, the reads of mx6q_mii_callback and of bsd_media.c.     *)
(***************************************************************************)

(* IEVENT |= IEVENT_MII.  A 1 that is written to IEVENT acknowledges its   *)
(* cause: the causes that are read go back as ones.                        *)
AckAll ==
    /\ ievent' = {}
    /\ lost' = (lost \/ "rx" \in ievent)

(* mx6q_mii_read, mx6q_mii_write: clear the MII cause, start the transfer  *)
MiiBegin ==
    /\ stk = "idle" /\ nicOn /\ (OneThread => job = "idle")
    /\ AckAll
    /\ stk' = "mii"
    /\ UNCHANGED <<ring, mem, hist, nic, nicOn, rdes, irq, i, op, job, locals>>

(* ... and wait for the cause, which is cleared again, or give up.         *)
MiiEnd ==
    /\ stk = "mii"
    /\ AckAll \/ UNCHANGED <<ievent, lost>>
    /\ stk' = "idle"
    /\ UNCHANGED <<ring, mem, hist, nic, nicOn, rdes, irq, i, op, job, locals>>

(***************************************************************************)
(* External: the stack and the NIC.                                        *)
(***************************************************************************)

StackFree ==
    /\ \E m \in up : up' = up \ {m} /\ pool' = pool \cup {m}
    /\ UNCHANGED <<ring, hist, hw, irq, stack, job, locals, lost>>

(* A frame arrives, possibly a bad one.                                    *)
NicReceive ==
    /\ nicOn /\ rdes /\ nic \in empty
    /\ empty' = empty \ {nic}
    /\ bad' \in {bad, bad \cup {nic}}
    /\ frame' = [m \in Mbufs |-> IF m = buffer[nic] THEN sent ELSE frame[m]]
    /\ sent' = NextFrame(sent)
    /\ nic' = IF nic \in wrap THEN 0 ELSE nic + 1
    /\ ievent' = ievent \cup {"rx"} /\ lost' = FALSE
    /\ UNCHANGED <<rx_pkts, rx_cidx, wrap, buffer, mem, seen, nicOn, rdes, irq, stack,
                   job, locals>>

(* A descriptor that is not empty stops reception.                         *)
NicStall ==
    /\ nicOn /\ rdes /\ nic \notin empty
    /\ rdes' = FALSE
    /\ UNCHANGED <<ring, mem, hist, nic, nicOn, ievent, irq, stack, job, locals, lost>>

NicOther ==
    /\ nicOn /\ ievent' = ievent \cup {"other"}
    /\ UNCHANGED <<ring, mem, hist, nic, nicOn, rdes, irq, stack, job, locals, lost>>

(***************************************************************************)

Receive == Check \/ Take \/ Refill \/ LoadBuffer \/ GiveToNic \/ PassUp \/ DesActive
Job == JobStart \/ Cause \/ Enable \/ Receive
Stack == Reset \/ Detach \/ RingSlot \/ TurnOn \/ Attach \/ RxMbufFree
Nic == NicReceive \/ NicStall \/ NicOther

Mii == MiiBegin \/ MiiEnd

Next == Isr \/ Job \/ Call \/ Stack \/ Mii \/ StackFree \/ Nic

Spec == Init /\ [][Next]_vars

(* Interrupts are delivered, and the threads of io-pkt run: what is on the *)
(* list has its turn between the accesses to the PHY.                      *)
FairSpec ==
    /\ Spec /\ WF_vars(Isr) /\ WF_vars(Job) /\ SF_vars(JobStart)
    /\ WF_vars(Stack) /\ WF_vars(MiiEnd)

(***************************************************************************)
(* Properties                                                              *)
(***************************************************************************)

RingMbufs == {rx_pkts[s] : s \in Slots} \ {None}

(* No mbuf is lost: it is free, with the stack, in the ring, or held by    *)
(* mx6q_receive, on the error paths and across stop and init too.          *)
NoMbufLost == Mbufs = pool \cup up \cup RingMbufs \cup ({rpkt, new} \ {None})

(* receive.c:122, "give new mbuf to nic": the cluster that the NIC may     *)
(* fill is that of the descriptor's own mbuf, which nobody else has.       *)
NicHasOwnMbuf ==
    nicOn => \A s \in empty :
        /\ buffer[s] = rx_pkts[s] /\ buffer[s] \in Mbufs
        /\ buffer[s] \notin pool \cup up \cup {rpkt, new}
        /\ \A t \in Slots : rx_pkts[t] = buffer[s] => t = s

(* A packet that is passed up holds the frame that is next in the order of *)
(* arrival: nothing is delivered twice, out of order, or overwritten.      *)
InOrder == job = "pass" => NextFrame(frame[rpkt]) = seen

(* event.c:108, "all three hardware interrupt sources are handled here": a *)
(* received frame does not stay in the ring for ever, unless the PHY was   *)
(* accessed between its interrupt and mx6q_process_interrupt.              *)
FramesTaken ==
    \A s \in Slots :
        attached /\ s \notin empty ~> (s \in empty \/ ~attached \/ lost)

(* receive.c:174, "restart receive": when the ring was full, reception is  *)
(* restarted, with the same exception.                                     *)
ReceptionRestarts == attached /\ ~rdes ~> rdes \/ ~attached \/ lost

(* The same without it.  The cause of the frame that filled the ring can   *)
(* be acknowledged by an access to the PHY; no further frame can come in,  *)
(* so that there is no other cause, and nothing restarts reception.        *)
ReceptionGoesOn == attached /\ ~rdes ~> rdes \/ ~attached

(* event.c:44: "We have to make sure the interrupt is masked": while the   *)
(* entry is on io-pkt's list no further interrupt comes in.                *)
MaskedOnList == onlist /\ attached => (IF Kermask THEN kmask ELSE ~imask)

(***************************************************************************)
(* The inductive invariant behind NoMbufLost and NicHasOwnMbuf, when       *)
(* io-pkt has one thread.                                                  *)
(***************************************************************************)

ReceivePC == {"check", "take", "refill", "load", "give", "pass", "active"}

(* The job and the calls of the stack take turns, and packets are handled  *)
(* only while the MAC is on.                                               *)
Turn ==
    /\ job # "idle" => stk = "idle"
    /\ nicOn => stk \in {"idle", "reset", "attach", "mii"}
    /\ job \in ReceivePC \/ ievent # {} => nicOn

(* What mx6q_receive holds at each point.                                  *)
Holds ==
    /\ job \in {"refill", "pass"} => rpkt \in Mbufs
    /\ job \notin {"refill", "load", "give", "pass"} => rpkt = None
    /\ job = "load" <=> new # None
    /\ job \in {"take", "refill", "load", "give"} => this \notin empty
    /\ job \in {"refill", "load"} => rx_pkts[this] = None

(* Descriptors whose mbuf is in place, and the last one wraps.             *)
InPlace(s) == rx_pkts[s] \in Mbufs /\ buffer[s] = rx_pkts[s]

Filled ==
    /\ nicOn \/ stk \in {"on", "attach"} => \A s \in Slots :
          InPlace(s) \/ (job \in {"refill", "load"} /\ s = this)
    /\ stk = "ring" => \A s \in Slots : s < i => InPlace(s)

Wraps ==
    /\ wrap \subseteq {N - 1}
    /\ nicOn \/ stk \in {"on", "attach"} => N - 1 \in wrap

(* Every mbuf is in one place at most.                                     *)
OneOwner ==
    /\ pool \cap up = {}
    /\ \A s \in Slots : rx_pkts[s] \notin pool \cup up
    /\ \A s, t \in Slots : rx_pkts[s] # None /\ rx_pkts[s] = rx_pkts[t] => s = t
    /\ \A m \in {rpkt, new} \ {None} :
          m \notin pool \cup up /\ \A s \in Slots : rx_pkts[s] # m
    /\ rpkt # None => rpkt # new

IInv == TypeOK /\ Turn /\ Holds /\ Filled /\ Wraps /\ OneOwner /\ NoMbufLost

(***************************************************************************)
(* ... and behind InOrder.                                                 *)
(***************************************************************************)

(* The descriptor holds a frame that mx6q_receive has not come to.         *)
Waiting(s) == s \notin empty /\ ~(job \in {"refill", "load", "give"} /\ s = this)

(* How far s is ahead of the consumer index, and how many frames wait.     *)
Ahead(s) == IF s < rx_cidx THEN s - rx_cidx + N ELSE s - rx_cidx
Behind == IF nic = rx_cidx /\ Waiting(nic) THEN N ELSE Ahead(nic)

(* The frames wait in the descriptors from the consumer index up to the    *)
(* NIC, one after the other in the order of their numbers.                 *)
Ordered ==
    /\ \A s \in Slots : Waiting(s) <=> Ahead(s) < Behind
    /\ IF Behind = 0 THEN seen = sent ELSE seen = frame[rx_pkts[rx_cidx]]
    /\ \A s \in Slots : Ahead(s) + 1 < Behind =>
          frame[rx_pkts[NEXT_RX(s)]] = NextFrame(frame[rx_pkts[s]])
    /\ \A s \in Slots : Ahead(s) + 1 = Behind => sent = NextFrame(frame[rx_pkts[s]])

(* The packet in the hands of mx6q_receive.                                *)
Taken ==
    /\ job = "take" => this = rx_cidx
    /\ job \in {"refill", "load", "give"} => rx_cidx = NEXT_RX(this)
    /\ rpkt # None => NextFrame(frame[rpkt]) = seen

(* The ring that mx6q_init makes.                                          *)
Fresh ==
    /\ stk \in {"detach", "ring", "on"} => nic = 0
    /\ stk = "ring" => \A s \in Slots : s < i => s \in empty
    /\ stk = "on" => empty = Slots /\ rx_cidx = 0 /\ sent = seen

OrderInv == (nicOn => Ordered) /\ Taken /\ Fresh
=============================================================================
