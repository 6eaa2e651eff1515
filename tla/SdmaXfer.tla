------------------------------ MODULE SdmaXfer ------------------------------
(***************************************************************************)
(* Transfers on one event-driven SDMA channel (api.c): sdma_channel_attach, *)
(* sdma_setup_xfer, sdma_xfer_start, sdma_xfer_abort, sdma_xfer_complete,  *)
(* sdma_bytes_left, sdma_channel_release and callback_reenable_descr, with *)
(* the ISR of irq.c and the engine that walks the buffer descriptors.      *)
(*                                                                         *)
(* The driver follows the user's guide (README.txt): attach, then set up,  *)
(* start and wait, or abort, then set up again or release; the audio       *)
(* driver also starts an aborted transfer again as it is.  The ISR may run *)
(* on another CPU than the driver.  A descriptor records which set-up      *)
(* wrote its command word and which its buffer address.                    *)
(***************************************************************************)
EXTENDS Integers, FiniteSets

CONSTANTS
    MaxFrags,    \* bound on the fragments of a transfer (MAX_DESCRIPTORS)
    MaxSetups,   \* bound on the number of set-ups in a behaviour
    Options,     \* the ways in which a driver may use the channel
    MaxPulses    \* bound on the events queued for the driver

ASSUME BoundsAssumption ==
    MaxFrags \in Nat \ {0} /\ MaxSetups \in Nat /\ MaxPulses \in Nat

(* notify: the attach flags, poll (0), complete                            *)
(* (DMA_ATTACH_EVENT_ON_COMPLETE) or segment (DMA_ATTACH_EVENT_PER_SEGMENT). *)
(* regen: the ISR re-enables the descriptors.  contloop: the ring repeats. *)
(* abort: the driver may abort a running transfer.                         *)
Option == [notify : {"poll", "complete", "segment"}, regen : BOOLEAN,
           contloop : BOOLEAN, abort : BOOLEAN]

ASSUME OptionsAssumption == Options \subseteq Option

VARIABLES
    opt,       \* the options of this driver
    dpc,       \* the driver's position
    i,         \* descriptor that sdma_setup_xfer is filling in
    n,         \* fragments of the transfer being set up
    gen,       \* number of the current set-up
    bd,        \* the channel's buffer descriptors
    n_frags,   \* chan_ptr->n_frags
    alive,     \* chan_ptr and chan_ptr_list[ch] are valid
    ovr,       \* the channel's bit in HOSTOVR
    current,   \* ccb[ch].current_bd_paddr, as an index
    busy,      \* the script is inside a descriptor
    eng,       \* command and buffer of the descriptor the script is inside
    intr,      \* the channel's bit in INTR
    listening, \* what irq.c has for the channel: mask, event, callback
    isr,       \* progress of irq_handler: none, cb, rmw, ev
    k,         \* descriptor the callback is re-enabling
    isrTmp,    \* command word the callback has read
    pulses,    \* events queued for the driver
    moved,     \* history: fragments moved since the last start, up to MaxFrags
    aborted,   \* history: some transfer was stopped before its end
    overlap    \* history: a transfer began before the one that was stopped
               \* had come to rest

xferVars == <<opt, dpc, i, n, gen, bd, n_frags, alive, ovr, current, busy, eng, intr,
              listening, isr, k, isrTmp, pulses, moved, aborted, overlap>>

Index == 0..(MaxFrags - 1)
Command == [cmd : 0..MaxSetups, done : BOOLEAN, wrap : BOOLEAN,
            cont : BOOLEAN, int : BOOLEAN]
Descriptor == [word : Command, buf : 0..MaxSetups]

NoCommand == [cmd |-> 0, done |-> FALSE, wrap |-> FALSE, cont |-> FALSE,
              int |-> FALSE]
NoWork == [word |-> NoCommand, buf |-> 0]

XferPCs == {"closed", "attached", "fillCmd", "fillBuf", "fillDone", "ready",
        "running", "signalled", "stopped", "reset", "failed",
        "relRegs", "relCallback", "relMask", "relEvent", "relDestroy"}

XferTypeOK ==
    /\ opt \in Options /\ dpc \in XferPCs /\ i \in Index /\ n \in 0..MaxFrags
    /\ gen \in 0..MaxSetups
    /\ bd \in [Index -> Descriptor]
    /\ n_frags \in 0..MaxFrags
    /\ alive \in BOOLEAN /\ ovr \in BOOLEAN /\ busy \in BOOLEAN /\ intr \in BOOLEAN
    /\ current \in Index
    /\ eng \in Descriptor
    /\ listening \subseteq {"mask", "event", "callback"}
    /\ isr \in {"none", "cb", "rmw", "ev"}
    /\ k \in 0..MaxFrags /\ isrTmp \in Command
    /\ pulses \in 0..MaxPulses
    /\ moved \in 0..MaxFrags /\ aborted \in BOOLEAN /\ overlap \in BOOLEAN

XferInit ==
    /\ opt \in Options /\ dpc = "closed" /\ i = 0 /\ n = 0 /\ gen = 0
    /\ bd = [x \in Index |-> NoWork]
    /\ n_frags = 0 /\ alive = FALSE /\ ovr = FALSE /\ current = 0
    /\ busy = FALSE /\ eng = NoWork
    /\ intr = FALSE /\ listening = {} /\ isr = "none" /\ k = 0
    /\ isrTmp = NoCommand /\ pulses = 0 /\ moved = 0
    /\ aborted = FALSE /\ overlap = FALSE

chanVars == <<i, n, gen, n_frags>>
engVars == <<busy, eng, moved>>
isrVars == <<isr, k, isrTmp>>
history == <<aborted, overlap>>
queue == <<pulses, history>>

Capped(x) == IF x < MaxFrags THEN x + 1 ELSE x

(***************************************************************************)
(* The driver                                                              *)
(***************************************************************************)

(* sdma_channel_attach: clear the interrupt, allocate zeroed descriptors,  *)
(* point the CCB at the first, load a fresh context, listen.               *)
Attach ==
    /\ dpc = "closed" /\ gen < MaxSetups
    /\ intr' = FALSE
    /\ bd' = [x \in Index |-> NoWork]
    /\ n_frags' = 0 /\ alive' = TRUE /\ current' = 0 /\ busy' = FALSE
    /\ listening' = {"mask", "event"} \cup (IF opt.regen THEN {"callback"} ELSE {})
    /\ dpc' = "attached"
    /\ UNCHANGED <<opt, i, n, gen, ovr, eng, isrVars, moved, queue>>

(* What may be left of a transfer that was stopped: the script, when its   *)
(* context was not loaded again, inside a descriptor or not at the head of *)
(* the ring, and the handler with its callback.                            *)
EngineLeft ==
    dpc = "failed" \/ (aborted /\ ~opt.contloop /\ (busy \/ current # 0))
CallbackLeft == aborted /\ opt.regen /\ (intr \/ isr # "none")

(* sdma_setup_xfer begins with some number of fragments.                   *)
Setup ==
    /\ dpc \in {"attached", "ready", "failed"} /\ gen < MaxSetups
    /\ \E m \in 1..MaxFrags : n' = m
    /\ gen' = gen + 1 /\ i' = 0
    /\ dpc' = "fillCmd"
    /\ overlap' = (overlap \/ EngineLeft \/ CallbackLeft)
    /\ UNCHANGED <<opt, bd, n_frags, alive, ovr, current, engVars, intr,
                   listening, isrVars, pulses, aborted>>

(* Mutant of CommandWord: every descriptor interrupts on completion.       *)
CommandWordEveryInt(x, last) ==
    [cmd  |-> x, done |-> FALSE, wrap |-> last,
     cont |-> ~last \/ opt.contloop, int |-> opt.notify # "poll"]

(* Its command word: all but the last continue; the last wraps, continues  *)
(* only with contloop, and interrupts unless the driver polls.  (CONT does *)
(* not matter to the engine below, which waits for the next request of the *)
(* peripheral after each descriptor anyway.)                               *)
CommandWord(x, last) ==
    [cmd  |-> x, done |-> FALSE, wrap |-> last,
     cont |-> ~last \/ opt.contloop,
     int  |-> opt.notify = "segment" \/ (last /\ opt.notify = "complete")]

FillCmd ==
    /\ dpc = "fillCmd"
    /\ bd' = [bd EXCEPT ![i].word = CommandWord(gen, i = n - 1)]
    /\ dpc' = "fillBuf"
    /\ UNCHANGED <<opt, chanVars, alive, ovr, current, engVars, intr,
                   listening, isrVars, queue>>

(* Mutant of FillBuf: the address of the last fragment is forgotten.       *)
FillBufMutant ==
    /\ dpc = "fillBuf"
    /\ bd' = IF i < n - 1 THEN [bd EXCEPT ![i].buf = gen] ELSE bd
    /\ dpc' = "fillDone"
    /\ UNCHANGED <<opt, chanVars, alive, ovr, current, engVars, intr,
                   listening, isrVars, queue>>

FillBuf ==
    /\ dpc = "fillBuf"
    /\ bd' = [bd EXCEPT ![i].buf = gen]
    /\ dpc' = "fillDone"
    /\ UNCHANGED <<opt, chanVars, alive, ovr, current, engVars, intr,
                   listening, isrVars, queue>>

(* Enable the descriptor last; after the last one remember how many.       *)
FillDone ==
    /\ dpc = "fillDone"
    /\ bd' = [bd EXCEPT ![i].word.done = TRUE]
    /\ IF i < n - 1
         THEN i' = i + 1 /\ dpc' = "fillCmd" /\ UNCHANGED n_frags
         ELSE n_frags' = n /\ dpc' = "ready" /\ i' = 0
    /\ UNCHANGED <<opt, n, gen, alive, ovr, current, engVars, intr,
                   listening, isrVars, queue>>

(* sdma_xfer_start: turn events on, after a set-up or, as the audio driver *)
(* does, after an abort.                                                   *)
Start ==
    /\ \/ dpc = "ready"
       \/ /\ dpc \in {"attached", "failed"} /\ aborted
          /\ opt.notify = "segment" /\ n_frags > 0
    /\ ovr' = TRUE /\ moved' = 0
    /\ dpc' = "running"
    /\ overlap' = (overlap \/ EngineLeft)
    /\ UNCHANGED <<opt, chanVars, bd, alive, current, busy, eng, intr,
                   listening, isrVars, pulses, aborted>>

(* sdma_bytes_left: the DONE bit of the last descriptor.                   *)
BytesLeft == IF bd[n_frags - 1].word.done THEN 1 ELSE 0

(* The driver waits for its event, or polls until nothing is left.         *)
Wait ==
    /\ dpc = "running"
    /\ IF opt.notify = "poll" THEN BytesLeft = 0 /\ UNCHANGED pulses
                          ELSE pulses > 0 /\ pulses' = pulses - 1
    /\ dpc' = "signalled"
    /\ UNCHANGED <<opt, chanVars, bd, alive, ovr, current, engVars, intr,
                   listening, isrVars, history>>

(* The driver of a ring that the ISR re-enables waits for its next round,  *)
(* and the one that has an event for each segment until nothing is left.   *)
Continue ==
    /\ dpc = "signalled"
    /\ opt.regen \/ (opt.notify = "segment" /\ BytesLeft # 0)
    /\ dpc' = "running"
    /\ UNCHANGED <<opt, chanVars, bd, alive, ovr, current, engVars, intr,
                   listening, isrVars, queue>>

(* sdma_xfer_complete: turn events off.  (A ring that the ISR re-enables   *)
(* has no end.)                                                            *)
Complete ==
    /\ dpc = "signalled" /\ ~opt.contloop /\ (opt.notify = "segment" => BytesLeft = 0)
    /\ ovr' = FALSE /\ aborted' = (aborted \/ opt.regen)
    /\ dpc' = "attached"
    /\ UNCHANGED <<opt, chanVars, bd, alive, current, engVars, intr, listening,
                   isrVars, pulses, overlap>>

(* sdma_xfer_abort: turn events off ...                                    *)
AbortStop ==
    /\ opt.abort /\ dpc \in {"running", "signalled"}
    /\ ovr' = FALSE /\ aborted' = TRUE
    /\ dpc' = IF opt.contloop THEN "stopped" ELSE "reset"
    /\ UNCHANGED <<opt, chanVars, bd, alive, current, engVars, intr, listening,
                   isrVars, pulses, overlap>>

(* Mutant of AbortReload: the context is not reloaded.                     *)
AbortReloadMutant ==
    /\ dpc = "stopped"
    /\ dpc' = "reset"
    /\ UNCHANGED <<opt, chanVars, bd, alive, ovr, current, engVars, intr,
                   listening, isrVars, queue>>

(* ... with contloop load the context again, which resets the script ...   *)
AbortReload ==
    /\ dpc = "stopped"
    /\ \/ busy' = FALSE /\ dpc' = "reset"
       \/ busy' = busy /\ dpc' = "failed"     \* sdmacmd_ctx_load: return -1
    /\ UNCHANGED <<opt, chanVars, bd, alive, ovr, current, eng, intr,
                   listening, isrVars, queue, moved>>

(* ... and point the channel at the head of the ring.                      *)
AbortReset ==
    /\ dpc = "reset"
    /\ current' = 0
    /\ dpc' = "attached"
    /\ UNCHANGED <<opt, chanVars, bd, alive, ovr, engVars, intr, listening,
                   isrVars, queue>>

(* sdma_channel_release: clear the interrupt, then the registers, the      *)
(* callback, the mask, the event, and free the channel.                    *)
XferRelease ==
    /\ dpc \in {"attached", "ready", "failed"}
    /\ intr' = FALSE
    /\ dpc' = "relRegs"
    /\ UNCHANGED <<opt, chanVars, bd, alive, ovr, current, engVars,
                   listening, isrVars, queue>>

ReleaseRegs ==
    /\ dpc = "relRegs"
    /\ ovr' = FALSE
    /\ dpc' = "relCallback"
    /\ UNCHANGED <<opt, chanVars, bd, alive, current, engVars, intr, listening,
                   isrVars, queue>>

ReleaseListening ==
    /\ \/ dpc = "relCallback" /\ dpc' = "relMask" /\ listening' = listening \ {"callback"}
       \/ dpc = "relMask" /\ dpc' = "relEvent" /\ listening' = listening \ {"mask"}
       \/ dpc = "relEvent" /\ dpc' = "relDestroy" /\ listening' = listening \ {"event"}
    /\ UNCHANGED <<opt, chanVars, bd, alive, ovr, current, engVars, intr,
                   isrVars, queue>>

ReleaseDestroy ==
    /\ dpc = "relDestroy"
    /\ alive' = FALSE
    /\ dpc' = "closed"
    /\ UNCHANGED <<opt, chanVars, bd, ovr, current, engVars, intr,
                   listening, isrVars, queue>>

(***************************************************************************)
(* irq_handler and callback_reenable_descr                                 *)
(***************************************************************************)

(* Read INTR, clear the bit; it stays set in between.                      *)
IsrTake ==
    /\ isr = "none" /\ intr /\ "mask" \in listening
    /\ intr' = FALSE
    /\ isr' = IF "callback" \in listening THEN "cb" ELSE "ev"
    /\ k' = 0
    /\ UNCHANGED <<opt, dpc, chanVars, bd, alive, ovr, current, engVars,
                   listening, isrTmp, queue>>

(* Mutant of IsrRead: the last descriptor is not re-enabled.               *)
IsrReadMutant ==
    /\ isr = "cb" /\ alive
    /\ IF k < n_frags - 1 THEN isr' = "rmw" /\ isrTmp' = bd[k].word
                          ELSE isr' = "ev" /\ UNCHANGED isrTmp
    /\ UNCHANGED <<opt, dpc, chanVars, bd, alive, ovr, current, engVars,
                   intr, listening, k, queue>>

(* bd_ptr[k].cmd_and_status |= DONE, for each of the n_frags descriptors:  *)
(* the read ...  (On a channel that has been freed it is a fault in the    *)
(* handler: nothing of the channel moves after it.)                        *)
IsrRead ==
    /\ isr = "cb" /\ alive
    /\ IF k < n_frags THEN isr' = "rmw" /\ isrTmp' = bd[k].word
                      ELSE isr' = "ev" /\ UNCHANGED isrTmp
    /\ UNCHANGED <<opt, dpc, chanVars, bd, alive, ovr, current, engVars,
                   intr, listening, k, queue>>

(* ... and the write.                                                      *)
IsrWrite ==
    /\ isr = "rmw"
    /\ bd' = [bd EXCEPT ![k].word = [isrTmp EXCEPT !.done = TRUE]]
    /\ isr' = "cb" /\ k' = k + 1 /\ isrTmp' = NoCommand
    /\ UNCHANGED <<opt, dpc, chanVars, alive, ovr, current, engVars, intr,
                   listening, queue>>

(* return event_array[ch]                                                  *)
IsrReturn ==
    /\ isr = "ev"
    /\ isr' = "none" /\ k' = 0
    /\ IF "event" \in listening
         THEN pulses < MaxPulses /\ pulses' = pulses + 1
         ELSE UNCHANGED pulses
    /\ UNCHANGED <<opt, dpc, chanVars, bd, alive, ovr, current, engVars,
                   intr, listening, isrTmp, history>>

(***************************************************************************)
(* External: the engine's script on this channel.                          *)
(***************************************************************************)

(* Events on and the current descriptor enabled: the script takes it.      *)
EngineFetch ==
    /\ ovr /\ ~busy /\ bd[current].word.done
    /\ busy' = TRUE /\ eng' = bd[current]
    /\ UNCHANGED <<opt, dpc, chanVars, bd, alive, ovr, current, intr,
                   listening, isrVars, queue, moved>>

(* It moves the fragment, returns the descriptor, interrupts if asked to   *)
(* and goes on to the next one.  A burst in progress ends even though      *)
(* events have been turned off meanwhile.                                  *)
EngineDone ==
    /\ busy
    /\ busy' = FALSE /\ eng' = NoWork
    /\ moved' = Capped(moved)
    /\ bd' = IF alive THEN [bd EXCEPT ![current].word.done = FALSE] ELSE bd
    /\ intr' = (intr \/ eng.word.int)
    /\ current' = IF eng.word.wrap \/ current = MaxFrags - 1 THEN 0 ELSE current + 1
    /\ UNCHANGED <<opt, dpc, chanVars, alive, ovr, listening, isrVars, queue>>

(***************************************************************************)

Driver ==
    \/ FillCmd \/ FillBuf \/ FillDone \/ AbortReload \/ AbortReset
    \/ ReleaseRegs \/ ReleaseListening \/ ReleaseDestroy
Calls ==
    \/ Attach \/ Setup \/ Start \/ Wait \/ Continue \/ Complete \/ AbortStop
    \/ XferRelease
Isr == IsrTake \/ IsrRead \/ IsrWrite \/ IsrReturn
Engine == EngineFetch \/ EngineDone

XferNext == Driver \/ Calls \/ Isr \/ Engine

XferSpec == XferInit /\ [][XferNext]_xferVars

(* The peripheral keeps requesting data, interrupts are delivered and a    *)
(* driver inside the library runs.                                         *)
XferFairSpec ==
    XferSpec /\ WF_xferVars(Driver) /\ WF_xferVars(Wait) /\ WF_xferVars(Isr) /\ WF_xferVars(Engine)

(***************************************************************************)
(* Properties                                                              *)
(***************************************************************************)

(* api.c:616, "enable the descriptor last": the engine never works with a  *)
(* command word and a buffer address that different set-ups wrote.  It can *)
(* when the callback of an aborted ring still runs during the next set-up. *)
NoTornDescriptor == busy => eng.word.cmd = eng.buf

(* The same as long as no transfer was begun over one that was stopped and *)
(* had not come to rest: whatever the driver, the engine and the ISR do in *)
(* between, with any number of aborts.                                     *)
NeverTornAtRest == ~overlap => NoTornDescriptor

(* README.txt:84: the event comes "after all segments have been            *)
(* processed", and bytes_left is 0 only then.  (Once a transfer has been   *)
(* aborted, its event may still be on the way.)                            *)
CompletionMeansAll ==
    /\ dpc = "signalled" /\ opt.notify # "segment"
    /\ (aborted => opt.notify = "poll") /\ ~overlap
    => moved >= n_frags

(* api.c:759, "reset buffer pointer to the head": after an abort and a new *)
(* set-up the engine works for the new set-up only; a contloop ring need   *)
(* not have come to rest before, because its script is reset.              *)
WorksOnCurrentSetup == dpc = "running" /\ busy /\ ~overlap => eng.buf = gen

(* README.txt:39, "automatically re-enable the descriptor ring": a regen   *)
(* ring that is running never runs dry, started again after an abort too.  *)
RingNeverStalls ==
    opt.regen /\ dpc = "running" /\ ~overlap ~> busy \/ dpc \notin {"running", "signalled"}

(***************************************************************************)
(* The inductive invariant                                                 *)
(***************************************************************************)

On == dpc \in {"running", "signalled"}
Filling == {"fillCmd", "fillBuf", "fillDone"}

(* Something is on its way to the driver.                                  *)
Token == intr \/ isr # "none" \/ pulses > 0

(* A command word of the current set-up, for descriptor x.                 *)
CurrentWord(w, x) ==
    /\ w.cmd = gen
    /\ w.wrap <=> x = n - 1
    /\ w.int <=> opt.notify = "segment" \/ (x = n - 1 /\ opt.notify = "complete")

(* Descriptor x is the one of the current set-up, enabled or not.          *)
Current(x) == bd[x].buf = gen /\ CurrentWord(bd[x].word, x)

(* A set-up is complete, and the channel has not been given up since.      *)
Loaded ==
    dpc = "ready" \/ On \/ (dpc \in {"attached", "stopped", "reset", "failed"} /\ n_frags > 0)

(* Events are on exactly while a transfer runs, which is then the one set  *)
(* up.  A channel is at rest between transfers, unless one was stopped and *)
(* the context was not loaded again.                                       *)
DriverInv ==
    /\ ovr <=> On
    /\ alive <=> dpc # "closed"
    /\ dpc \in Filling => i < n
    /\ Loaded => n_frags = n /\ n > 0
    /\ dpc = "attached" /\ (~aborted \/ opt.contloop) => current = 0 /\ ~busy
    /\ dpc = "reset" /\ opt.contloop => ~busy
    /\ dpc \in {"stopped", "failed"} => opt.contloop
    /\ dpc \in {"stopped", "reset", "failed"} => aborted
    /\ busy /\ ~aborted => On
    /\ opt.regen /\ ~aborted /\ Token => On
    /\ overlap => aborted
    /\ isr = "rmw" => k < MaxFrags
    /\ ~opt.regen => isr \notin {"cb", "rmw"} /\ "callback" \notin listening

(* What sdma_setup_xfer has filled in: the engine and, with a callback,    *)
(* the handler are at rest meanwhile.                                      *)
FillInv ==
    /\ dpc \in Filling \cup {"ready"} =>
          current = 0 /\ ~busy /\ (opt.regen => ~intr /\ isr = "none")
    /\ dpc \in Filling => \A x \in 0..(i - 1) : Current(x) /\ bd[x].word.done
    /\ dpc = "fillBuf" => CurrentWord(bd[i].word, i) /\ ~bd[i].word.done
    /\ dpc = "fillDone" => Current(i)
    /\ dpc = "ready" => \A x \in 0..(n - 1) : bd[x].word.done
    /\ Loaded => \A x \in 0..(n - 1) : Current(x)

(* The engine: in its first round it has moved the descriptors before the  *)
(* current one and finds the others enabled; without regen there is no     *)
(* second round.  (Not so for a transfer that was started again.)          *)
EngineInv ==
    /\ NoTornDescriptor
    /\ busy /\ opt.notify = "poll" => ~eng.word.int
    /\ On => current < n
    /\ On /\ busy => eng.buf = gen /\ CurrentWord(eng.word, current)
    /\ opt.notify # "segment" \/ ~aborted =>
        /\ On /\ moved < n => /\ current = moved
                              /\ \A x \in current..(n - 1) : bd[x].word.done
        /\ On /\ ~opt.regen =>
              /\ busy => moved < n
              /\ moved >= n => current = 0
              /\ \A x \in 0..(n - 1) : bd[x].word.done => moved < n /\ x >= current

(* The handler re-enables descriptors of the current set-up, and an event  *)
(* is on its way only after the whole transfer, once for each.             *)
IsrInv ==
    /\ Loaded /\ isr = "cb" => k <= n
    /\ Loaded /\ isr = "rmw" => k < n /\ CurrentWord(isrTmp, k)
    /\ opt.notify = "poll" => ~intr
    /\ opt.notify = "complete" /\ ~aborted =>
        /\ Token => On /\ moved >= n
        /\ dpc = "signalled" => moved >= n
        /\ ~opt.regen => /\ intr => isr = "none" /\ pulses = 0
                         /\ isr # "none" => pulses = 0
                         /\ pulses <= 1
                         /\ dpc = "signalled" => ~Token
    /\ opt.notify = "poll" /\ dpc = "signalled" => moved >= n

XferInv ==
    XferTypeOK /\ DriverInv /\ (~overlap => FillInv /\ EngineInv /\ IsrInv)
=============================================================================
