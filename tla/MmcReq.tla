------------------------------- MODULE MmcReq -------------------------------
(***************************************************************************)
(* Requests of the SD/MMC driver (devb/mmcsd): the driver thread that      *)
(* takes requests, interrupts and timer pulses, the control thread that    *)
(* has inserted cards identified, the main thread that has the card of the *)
(* boot identified, and the uSDHC controller with DMA.  The threads have   *)
(* no lock and may run on several CPUs: every interleaving is a behaviour. *)
(*                                                                         *)
(* An identification is a chain of IdentCmds commands here; MmcIdent has   *)
(* its stages.                                                             *)
(***************************************************************************)
EXTENDS Integers, Sequences

CONSTANTS
    Single, Multi, UnitRdy,  \* requests: one block, several blocks, SC_UNIT_RDY
    None,         \* no nexus
    IdentCmds,    \* commands of an identification
    MaxCards,     \* bound: insertions of a card
    MaxErrs,      \* bound: errors of a card that is in its slot
    MaxStops      \* bound of stops_retry (5)

Reqs == Single \cup Multi \cup UnitRdy

ASSUME MmcReqAssumption ==
    /\ None \notin Reqs /\ UnitRdy \cap (Single \cup Multi) = {}
    /\ IdentCmds \in Nat \ {0, 1}
    /\ MaxCards \in Nat /\ MaxErrs \in Nat /\ MaxStops \in Nat

VARIABLES
    card, cards, errs,    \* external: card in the slot (0: none); bounds
    addressed,            \* external: the card that the driver has addressed
    inserted, ready,      \* MMC_EFLAG_INSERTED, MMC_EFLAG_READY
    state, ident,         \* ext->state; ext->ident (0: NONE, 1: START)
    nexus, status,        \* ext->nexus; cam_status of every request
    check,                \* the nexus has cam_scsi_status SCS_CHECK
    stop, stops_retry,    \* ext->stop
    cmd, ien, sts,        \* controller: command, interrupts enabled, status
    pulses,               \* pulses for the driver thread
    ctl, cpc,             \* pulses for the control thread; its place
    boot,                 \* the place of the main thread in mmc_creat_threads
    done,                 \* ghost: what the card did for a request
    logged,               \* history: "unexpected interrupt" in this identification
    over,                 \* history: one was begun over another or over a request
    swapped               \* history: a card came before the threads were done with the last

world == <<card, cards, errs>>
flags == <<inserted, ready>>
hw == <<cmd, ien, sts>>
req == <<nexus, status, check, stop, stops_retry>>
history == <<logged, over, swapped>>
vars == <<world, addressed, flags, state, ident, req, hw, pulses, ctl, cpc, boot, done, history>>

BitsOK ==
    /\ inserted \in BOOLEAN /\ ready \in BOOLEAN /\ check \in BOOLEAN
    /\ ien \in BOOLEAN /\ logged \in BOOLEAN /\ over \in BOOLEAN
    /\ swapped \in BOOLEAN

ValuesOK ==
    /\ card \in 0..MaxCards /\ cards \in 0..MaxCards /\ errs \in 0..MaxErrs
    /\ addressed \in 0..MaxCards
    /\ state \in {"IDLE", "IDENT", "DATA"} /\ ident \in 0..IdentCmds
    /\ nexus \in Reqs \cup {None}
    /\ status \in [Reqs -> {"new", "INPROG", "CMP", "TIMEOUT", "NOT_RDY"}]
    /\ stop \in {"NONE", "PEND", "ISSUED"} /\ stops_retry \in 0..(MaxStops + 2)
    /\ cmd \in {"none", "ident", "data", "stop"}
    /\ sts \in {"none", "command", "data", "err", "crc"}
    /\ pulses \in Seq({"INTERRUPT", "TIMER"})
    /\ ctl \in Seq({"INSERTION", "REMOVAL", "READY"}) /\ cpc \in {"receive", "issued"}
    /\ boot \in {"detect", "ident", "issued", "up"}
    /\ done \in [Reqs -> {"none", "moved", "stopped"}]

TypeOK == BitsOK /\ ValuesOK

Init ==
    /\ card = 0 /\ cards = 0 /\ errs = 0 /\ addressed = 0
    /\ inserted = FALSE /\ ready = FALSE /\ state = "IDLE" /\ ident = 0
    /\ nexus = None /\ status = [r \in Reqs |-> "new"] /\ check = FALSE
    /\ stop = "NONE" /\ stops_retry = 0
    /\ cmd = "none" /\ ien = FALSE /\ sts = "none" /\ pulses = <<>>
    /\ ctl = <<>> /\ cpc = "receive" /\ boot = "detect"
    /\ done = [r \in Reqs |-> "none"] /\ logged = FALSE /\ over = FALSE /\ swapped = FALSE

(***************************************************************************)
(* Steps of the handlers                                                   *)
(***************************************************************************)

(* mx35_command.                                                           *)
Issue(c) == cmd' = c /\ ien' = TRUE /\ sts' = "none"

(* The end of mx35_interrupt: all interrupts off, status cleared.          *)
Quiet == ien' = FALSE /\ sts' = "none" /\ UNCHANGED cmd

(* simq_post_ccb and the assignments before it.                            *)
Post(r, s) ==
    /\ status' = [status EXCEPT ![r] = s]
    /\ nexus' = None

(* Mutant: the controller's interrupts stay enabled.                       *)
PowerdownMutant == UNCHANGED hw

(* mx35_powerdown.                                                         *)
Powerdown == ien' = FALSE /\ UNCHANGED <<cmd, sts>>

(* mmc_media_check without a card, and at a timer pulse.                   *)
CardGone ==
    /\ inserted' = FALSE
    /\ IF inserted THEN ready' = FALSE /\ ctl' = Append(ctl, "REMOVAL") /\ Powerdown
                   ELSE UNCHANGED <<ready, ctl, hw>>

MediaCheck ==
    IF card = 0 THEN CardGone
    ELSE /\ inserted' = TRUE
         /\ ctl' = IF inserted THEN ctl ELSE Append(ctl, "INSERTION")
         /\ UNCHANGED <<ready, hw>>

(* mmc_dma_initiate and mmc_send_rwcmd; the command may be refused.        *)
ReadWrite(r) ==
    \/ /\ Issue("data") /\ state' = "DATA"
       /\ stop' = IF r \in Multi THEN "PEND" ELSE "NONE"
       /\ done' = [done EXCEPT ![r] = "none"]
       /\ nexus' = r /\ status' = [status EXCEPT ![r] = "INPROG"]
    \/ Quiet /\ Post(r, "TIMEOUT") /\ state' = "IDLE" /\ UNCHANGED <<stop, done>>

(* mmc_start_ccb for a request in the queue, which is empty before the     *)
(* main thread has registered the bus.  During an identification the       *)
(* request waits as the nexus.                                             *)
StartCcb(r) ==
    /\ boot = "up" /\ nexus = None /\ status[r] = "new"
    /\ UNCHANGED <<world, addressed, ident, stops_retry, pulses, cpc, boot, history>>
    /\ check' = FALSE
    /\ \/ /\ state = "IDENT"
          /\ nexus' = r /\ status' = [status EXCEPT ![r] = "INPROG"]
          /\ UNCHANGED <<flags, state, stop, hw, ctl, done>>
       \/ /\ state # "IDENT" /\ ready /\ r \notin UnitRdy
          /\ ReadWrite(r)
          /\ UNCHANGED <<flags, ctl>>
       \/ /\ state # "IDENT" /\ ~ready
          /\ Post(r, "NOT_RDY")
          /\ UNCHANGED <<flags, state, stop, hw, ctl, done>>
       \/ /\ state # "IDENT" /\ ready /\ r \in UnitRdy
          /\ Post(r, IF card # 0 THEN "CMP" ELSE "NOT_RDY")
          /\ IF card # 0 THEN UNCHANGED <<flags, ctl, hw>> ELSE CardGone
          /\ UNCHANGED <<state, stop, done>>

(* mmc_pulse_handler takes the pulses in turn; all have one priority.      *)
Pulse(p) == pulses # <<>> /\ Head(pulses) = p /\ pulses' = Tail(pulses)

(* SIM_TIMER.                                                              *)
Timer ==
    /\ Pulse("TIMER")
    /\ MediaCheck
    /\ UNCHANGED <<world, addressed, state, ident, req, cpc, boot, done, history>>

(***************************************************************************)
(* Interrupts                                                              *)
(***************************************************************************)

(* mmc_ident_irq after the identification failed.                          *)
IdentFailed ==
    /\ state' = "IDLE"
    /\ IF card # 0 THEN Quiet /\ UNCHANGED <<flags, ctl>>
       ELSE /\ inserted' = FALSE /\ ready' = (ready /\ ~inserted) /\ Quiet
            /\ ctl' = IF inserted THEN Append(ctl, "REMOVAL") ELSE ctl
    /\ IF nexus # None THEN Post(nexus, "TIMEOUT") ELSE UNCHANGED <<nexus, status>>
    /\ UNCHANGED <<stop, done>>

(* mmc_io_cmds for a request that waited for the identification.           *)
RunNexus ==
    IF nexus \in Single \cup Multi THEN ReadWrite(nexus)
    ELSE /\ Quiet /\ state' = "IDLE"
         /\ IF nexus = None THEN UNCHANGED <<nexus, status>>
            ELSE Post(nexus, IF card # 0 THEN "CMP" ELSE "NOT_RDY")
         /\ UNCHANGED <<stop, done>>

(* mmc_ident_irq: the first command, the next one, or the end, after which *)
(* a waiting request is run.                                               *)
StartIdent ==
    /\ card # 0 /\ Issue("ident") /\ ident' = 2 /\ state' = "IDENT"
    /\ UNCHANGED <<flags, ctl, nexus, status, stop, done>>

IdentNext ==
    /\ ident \in 2..(IdentCmds - 1)
    /\ Issue("ident") /\ ident' = ident + 1 /\ UNCHANGED state
    /\ UNCHANGED <<flags, ctl, nexus, status, stop, done>>

EndIdent ==
    /\ ident = IdentCmds /\ ident' = 0
    /\ ready' = TRUE /\ ctl' = IF ready THEN ctl ELSE Append(ctl, "READY")
    /\ UNCHANGED inserted
    /\ RunNexus

(* Mutant: a stop command after an error ends the request as good.         *)
AfterStopMutant == "CMP"

(* The status of the request when its stop command is done.                *)
AfterStop == IF check THEN "TIMEOUT" ELSE "CMP"

(* Mutant: the repetitions are not counted.                                *)
NextRetryMutant == stops_retry

NextRetry == stops_retry + 1

RetriesAfterData == 0

(* mmc_data_irq after the stop command, which is repeated after errors.    *)
StopIrq(ok) ==
    \/ /\ ok /\ stops_retry' = 0 /\ stop' = "NONE"
       /\ Quiet /\ Post(nexus, AfterStop) /\ state' = "IDLE"
       /\ UNCHANGED check
    \/ /\ ~ok /\ stops_retry' = NextRetry
       /\ \/ /\ stops_retry <= MaxStops /\ Issue("stop")
             /\ UNCHANGED <<nexus, status, check, state, stop>>
          \/ Quiet /\ Post(nexus, "TIMEOUT") /\ state' = "IDLE" /\ stop' = "NONE" /\ UNCHANGED check

(* mmc_data_irq and mmc_dma_irq after good data.                           *)
DataOk ==
    IF stop = "PEND"
    THEN \/ Issue("stop") /\ stop' = "ISSUED" /\ UNCHANGED <<nexus, status, check, state>>
         \/ Quiet /\ Post(nexus, "TIMEOUT") /\ state' = "IDLE" /\ stop' = "NONE" /\ UNCHANGED check
    ELSE Quiet /\ Post(nexus, "CMP") /\ state' = "IDLE" /\ UNCHANGED <<check, stop>>

(* mmc_data_irq after an error: a stop command, and SCS_CHECK as a flag.   *)
DataError ==
    \/ Issue("stop") /\ stop' = "ISSUED" /\ check' = TRUE /\ UNCHANGED <<nexus, status, state>>
    \/ Quiet /\ Post(nexus, "TIMEOUT") /\ state' = "IDLE" /\ stop' = "NONE" /\ UNCHANGED check

(* Mutant: the interrupt of any command counts as the one of the data.     *)
DataIrqMutant(intr) ==
    \/ /\ stop = "ISSUED" /\ intr # "data" /\ StopIrq(intr = "command")
    \/ /\ stop # "ISSUED" /\ stops_retry' = RetriesAfterData
       /\ IF intr = "err" THEN DataError ELSE DataOk

(* mmc_data_irq: only the interrupt that is waited for counts.             *)
DataIrq(intr) ==
    \/ /\ stop = "ISSUED" /\ intr # "data" /\ StopIrq(intr = "command")
    \/ /\ stop # "ISSUED" /\ stops_retry' = RetriesAfterData
       /\ \/ intr = "data" /\ DataOk
          \/ intr = "err" /\ DataError
          \/ intr = "command" /\ Quiet /\ UNCHANGED <<nexus, status, check, state, stop>>

(* mmc_process_interrupt.  mx35_interrupt takes a CRC error of data as a   *)
(* reason to identify the card again.                                      *)
Interrupt ==
    /\ Pulse("INTERRUPT")
    /\ UNCHANGED <<world, addressed, cpc, boot>>
    /\ LET intr == IF ien THEN sts ELSE "none"
       IN  \/ /\ intr = "none"
              /\ Quiet /\ UNCHANGED <<flags, state, ident, req, ctl, done, history>>
           \/ /\ intr = "crc"
              /\ StartIdent \/ (IdentFailed /\ ident' = 1)
              /\ UNCHANGED <<check, stops_retry, history>>
           \/ /\ intr \in {"command", "data", "err"} /\ state = "IDENT"
              /\ \/ IdentFailed /\ UNCHANGED ident
                 \/ ident = 1 /\ StartIdent
                 \/ intr # "err" /\ (IdentNext \/ EndIdent)
              /\ UNCHANGED <<check, stops_retry, history>>
           \/ /\ intr \in {"command", "data", "err"} /\ state = "DATA"
              /\ DataIrq(intr)
              /\ UNCHANGED <<flags, ident, ctl, done, history>>
           \/ /\ intr \in {"command", "data", "err"} /\ state = "IDLE"
              /\ Quiet /\ logged' = TRUE /\ UNCHANGED <<over, swapped>>
              /\ UNCHANGED <<flags, state, ident, req, ctl, done>>

Driver == Interrupt \/ Timer \/ \E r \in Reqs : StartCcb(r)

(***************************************************************************)
(* The control thread                                                      *)
(***************************************************************************)

(* mmc_ident_start: the first command, which the controller takes because  *)
(* it was reset just before.                                               *)
FirstCommand ==
    /\ ident' = 2 /\ Issue("ident") /\ logged' = FALSE
    /\ over' = (over \/ ready \/ state # "IDLE" \/ cpc = "issued" \/ boot = "issued")
    /\ UNCHANGED swapped

(* MMCSD_PULSE_CARD_INSERTION: the first command, ...                      *)
CtlInsertion ==
    /\ cpc = "receive" /\ ctl # <<>> /\ Head(ctl) = "INSERTION"
    /\ ctl' = Tail(ctl) /\ inserted' = TRUE
    /\ \/ card = 0 /\ ident' = 1 /\ UNCHANGED <<hw, cpc, history>>
       \/ card # 0 /\ FirstCommand /\ cpc' = "issued"
    /\ UNCHANGED <<world, addressed, ready, state, req, pulses, boot, done>>

(* ... and then the state.                                                 *)
CtlIdent ==
    /\ cpc = "issued"
    /\ cpc' = "receive" /\ state' = "IDENT"
    /\ UNCHANGED <<world, addressed, flags, ident, req, hw, pulses, ctl, boot, done, history>>

(* MMCSD_PULSE_CARD_REMOVAL and MMCSD_PULSE_CARD_READY.                    *)
CtlOther ==
    /\ cpc = "receive" /\ ctl # <<>> /\ Head(ctl) # "INSERTION"
    /\ ctl' = Tail(ctl)
    /\ IF Head(ctl) = "REMOVAL"
       THEN inserted' = FALSE /\ ready' = FALSE /\ state' = "IDLE"
       ELSE UNCHANGED <<flags, state>>
    /\ UNCHANGED <<world, addressed, ident, req, hw, pulses, cpc, boot, done, history>>

Control == CtlInsertion \/ CtlIdent \/ CtlOther

(***************************************************************************)
(* The main thread: the end of mmc_creat_threads, when the other two run   *)
(***************************************************************************)

BootDetect ==
    /\ boot = "detect"
    /\ IF card = 0 THEN boot' = "up" /\ UNCHANGED inserted
                   ELSE boot' = "ident" /\ inserted' = TRUE
    /\ UNCHANGED <<world, addressed, ready, state, ident, req, hw, pulses, ctl, cpc, done, history>>

BootIdent ==
    /\ boot = "ident"
    /\ \/ card = 0 /\ ident' = 1 /\ boot' = "up" /\ UNCHANGED <<hw, history>>
       \/ card # 0 /\ FirstCommand /\ boot' = "issued"
    /\ UNCHANGED <<world, addressed, flags, state, req, pulses, ctl, cpc, done>>

BootState ==
    /\ boot = "issued"
    /\ boot' = "up" /\ state' = "IDENT"
    /\ UNCHANGED <<world, addressed, flags, ident, req, hw, pulses, ctl, cpc, done, history>>

Boot == BootDetect \/ BootIdent \/ BootState

(***************************************************************************)
(* External: the controller and the card                                   *)
(***************************************************************************)

Has(q, x) == \E j \in 1..Len(q) : q[j] = x

(* A command of the driver ends.  Its interrupt is masked as long as there *)
(* is a pulse that the driver thread has not taken.  Only a card that was  *)
(* addressed and not replaced since answers other commands than the first. *)
Complete(o) ==
    /\ cmd # "none"
    /\ LET first == cmd = "ident" /\ ident = 2
           able == card # 0 /\ (first \/ card = addressed)
       IN  /\ o = "ok" => able
           /\ o = "crc" => able /\ cmd = "data"
           /\ IF o = "ok" \/ ~able THEN UNCHANGED errs
              ELSE errs < MaxErrs /\ errs' = errs + 1
           /\ addressed' = IF o = "ok" /\ first THEN card ELSE addressed
    /\ done' = IF o # "ok" \/ nexus = None THEN done
               ELSE CASE cmd = "data" -> [done EXCEPT ![nexus] = "moved"]
                      [] cmd = "stop" /\ done[nexus] = "moved" -> [done EXCEPT ![nexus] = "stopped"]
                      [] OTHER -> done
    /\ cmd' = "none" /\ sts' = IF o # "ok" THEN o ELSE IF cmd = "data" THEN "data" ELSE "command"
    /\ pulses' = IF ien /\ ~Has(pulses, "INTERRUPT") THEN Append(pulses, "INTERRUPT") ELSE pulses
    /\ UNCHANGED <<card, cards, flags, state, ident, req, ien, ctl, cpc, boot, history>>

(* The timer; its period is long.                                          *)
Tick ==
    /\ ~Has(pulses, "TIMER")
    /\ pulses' = Append(pulses, "TIMER")
    /\ UNCHANGED <<world, addressed, flags, state, ident, req, hw, ctl, cpc, boot, done, history>>

(* No thread has anything in hand of the card that was in the slot.        *)
Calm ==
    /\ ctl = <<>> /\ cpc = "receive" /\ boot \in {"detect", "up"}
    /\ ~Has(pulses, "INTERRUPT")

Insert ==
    /\ card = 0 /\ cards < MaxCards
    /\ card' = cards + 1 /\ cards' = cards + 1 /\ swapped' = (swapped \/ ~Calm)
    /\ UNCHANGED <<errs, addressed, flags, state, ident, req, hw, pulses, ctl, cpc, boot, done>>
    /\ UNCHANGED <<logged, over>>

Remove ==
    /\ card # 0 /\ card' = 0
    /\ UNCHANGED <<cards, errs, addressed, flags, state, ident, req, hw, pulses, ctl, cpc, boot, done, history>>

Next ==
    \/ Driver \/ Control \/ Boot \/ Tick \/ Insert \/ Remove
    \/ \E o \in {"ok", "err", "crc"} : Complete(o)

Spec ==
    /\ Init /\ [][Next]_vars
    /\ WF_vars(Interrupt) /\ WF_vars(Timer) /\ WF_vars(Tick)
    /\ WF_vars(Control) /\ WF_vars(Boot) /\ WF_vars(\E o \in {"ok", "err", "crc"} : Complete(o))

(***************************************************************************)
(* Properties                                                              *)
(***************************************************************************)

(* A read or write that is reported complete was carried out by the card   *)
(* in full: its data went through after the last start of the request      *)
(* (which is repeated after a CRC error), and a transfer of several blocks *)
(* was stopped; unless an identification was begun over another one or     *)
(* over a request.                                                         *)
GoodMeansDone ==
    ~over => \A r \in Single \cup Multi :
        status[r] = "CMP" => done[r] = IF r \in Multi THEN "stopped" ELSE "moved"

(* However late the threads are and whatever they do at the same time, a   *)
(* read or write that is reported complete had its data moved since its    *)
(* last start.                                                             *)
GoodMeansMoved == \A r \in Single \cup Multi : status[r] = "CMP" => done[r] # "none"

(* A card that is said to be ready is said to be in the slot: when its     *)
(* removal was noticed, the interrupt of an identification that was under  *)
(* way makes no card ready any more; unless a card was replaced before the *)
(* threads were done with the one in the slot before.                      *)
ReadyIsInserted == ~swapped => (ready => inserted)

(* A request that the driver took is answered, a card that is removed      *)
(* under it or not, unless there is no card any more, an identification    *)
(* has lost its first interrupt or was begun over another one, or a card   *)
(* was replaced before the threads were done with the one before.          *)
Answered == nexus # None ~> (nexus = None \/ logged \/ over \/ swapped \/ [](card = 0))

(* sim_mmc.c:1217, "unexpected interrupt": an interrupt finds the driver   *)
(* in a state that knows what it is for.                                   *)
NoUnexpectedInterrupt == ~logged

(***************************************************************************)
(* The inductive invariant behind ReadyIsInserted                          *)
(***************************************************************************)

Retries == stop = "ISSUED" => stops_retry <= MaxStops + 1

(* No interrupt and no ready card while a removal is to be handled.        *)
Settled == ien \/ ready => inserted /\ ~Has(ctl, "REMOVAL")

(* No card is in the slot while a removal is to be handled, and none that  *)
(* is not known when the main thread begins its identification.            *)
OneCard ==
    /\ Has(ctl, "REMOVAL") => card = 0
    /\ boot = "ident" => inserted \/ card = 0

(* Both hold as long as no card came too soon.                             *)
PromptInv == TypeOK /\ Retries /\ (~swapped => Settled /\ OneCard)

(***************************************************************************)
(* The inductive invariant behind GoodMeansMoved and GoodMeansDone         *)
(***************************************************************************)

Beginning == cpc = "issued" \/ boot = "issued"

(* An identification that begins finds the driver idle, and keeps it idle  *)
(* until its thread has set the state.                                     *)
IdleFirst ==
    ~over /\ Beginning =>
        /\ state = "IDLE" /\ ~ready /\ cmd \in {"none", "ident"} /\ sts # "crc"
        /\ ~(cpc = "issued" /\ boot = "issued")

(* The nexus is the one request in progress, and the one of a transfer.    *)
Nexus ==
    /\ nexus # None => status[nexus] = "INPROG"
    /\ state = "DATA" => nexus \in Single \cup Multi

(* What was moved was moved for the nexus.                                 *)
Moved ==
    /\ cmd = "data" => nexus # None
    /\ sts # "none" => cmd = "none"
    /\ sts = "data" => nexus # None /\ done[nexus] # "none"
    /\ state = "DATA" /\ stop = "ISSUED" => check \/ done[nexus] # "none"

(* How a request ends that has met no error so far.                        *)
PendingStop == stop = IF nexus \in Multi THEN "PEND" ELSE "NONE"
Stopping(d) == stop = "ISSUED" /\ (check \/ (nexus \in Multi /\ done[nexus] = d))

(* The controller and the card are where the driver thinks they are.       *)
Transfer ==
    ~over /\ ien /\ state = "DATA" =>
        \/ cmd = "data" /\ sts = "none" /\ PendingStop
        \/ cmd = "none" /\ sts = "data" /\ PendingStop /\ done[nexus] = "moved"
        \/ cmd = "none" /\ sts \in {"err", "crc"} /\ PendingStop
        \/ cmd = "stop" /\ sts = "none" /\ Stopping("moved")
        \/ cmd = "none" /\ sts = "err" /\ Stopping("moved")
        \/ cmd = "none" /\ sts = "command" /\ Stopping("stopped")

IInv ==
    /\ TypeOK /\ Retries /\ IdleFirst /\ Nexus /\ Moved /\ Transfer
    /\ GoodMeansMoved /\ GoodMeansDone
=============================================================================
