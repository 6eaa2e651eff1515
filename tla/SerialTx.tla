------------------------------ MODULE SerialTx ------------------------------
(***************************************************************************)
(* The output side of the serial driver (devc/sermx1, without DMA): tto    *)
(* and ser_stty on the io-char thread, the interrupt handler ser_intr on   *)
(* the same CPU or on another, and the flow control of the peer.           *)
(*                                                                         *)
(* The thread and the handler both read, change and write control register *)
(* 1 without a lock.  A handler may start and go on at any time: on one    *)
(* CPU it runs to its end between two steps of the thread, and with option *)
(* isr=0, where interrupt_event_handler calls do_interrupt for a pulse, it *)
(* runs while the thread is idle; these are some of the interleavings on   *)
(* several CPUs.  libio-char (clients' writes, the event queue, the input  *)
(* functions tti and tx_inject) is external.  Of a received character only *)
(* its effect on the output is kept.                                       *)
(***************************************************************************)
EXTENDS Integers, Sequences

CONSTANTS
    MaxChars,   \* bound: characters that clients write
    MaxInject,  \* bound: flow-control characters injected into the output
    MaxStty,    \* bound: changes of the line settings, breaks included
    FifoLevel   \* TRDY: less than this many characters are in the FIFO

ASSUME SerialAssumption ==
    /\ MaxChars \in Nat /\ MaxInject \in Nat /\ MaxStty \in Nat /\ FifoLevel \in Nat \ {0}

Bits == {"UARTEN", "RRDYEN", "TRDYEN", "RTSDEN", "SNDBRK"}
Data == "data"
Control == "control"

VARIABLES
    stty,            \* number of changes of the settings that clients will make
    ohflow, irts,    \* OHFLOW of tty.c_cflag; IRTS of CR2: RTS is ignored
    obuf,            \* tty.obuf, the next character first
    fifo,            \* number of characters in the transmit FIFO
    cr1,             \* bits set in CR1
    rts, rtsd,       \* external: the RTS input; it has changed
    rxc,             \* external: a received character
    ohw, osw, over,  \* OHW_PAGED, OSW_PAGED, OSW_PAGED_OVERRIDE
    tto_event,       \* EVENT_TTO
    queued,          \* EVENT_QUEUED: the device is in ttyctrl.event_queue
    tpc, cr,         \* place in tto or ser_stty, and its copy of CR1
    ipc, icr, rtss, sts,   \* the same in ser_intr; RTSS as read; its status
    writes,          \* number of characters written
    injects,         \* number of characters that will be injected
    since,           \* history: Data sent since the output was stopped
    last             \* history: the character that tto has just sent

line == <<stty, ohflow, irts>>
flow == <<ohw, osw>>
events == <<tto_event, queued>>
thread == <<tpc, cr>>
isr == <<ipc, icr, rtss, sts>>
count == <<writes, injects>>
txVars == <<line, obuf, fifo, cr1, rts, rtsd, rxc, flow, over, events,
            thread, isr, count, since, last>>

TxTypeOK ==
    /\ stty \in 0..MaxStty /\ ohflow \in BOOLEAN /\ irts \in BOOLEAN
    /\ obuf \in Seq({Data, Control}) /\ fifo \in 0..FifoLevel
    /\ cr1 \subseteq Bits /\ cr \subseteq Bits /\ icr \subseteq Bits
    /\ rts \in BOOLEAN /\ rtsd \in BOOLEAN /\ rxc \in {"none", "xon", "xoff", "full"}
    /\ ohw \in BOOLEAN /\ osw \in BOOLEAN /\ over \in BOOLEAN
    /\ tto_event \in BOOLEAN /\ queued \in BOOLEAN
    /\ tpc \in {"idle", "loop", "char", "override", "enable", "write", "ctrl",
               "stty", "flow", "settings", "reset", "uarten", "rtsden"}
    /\ ipc \in {"idle", "tx", "trdyen", "event", "rtsd", "ms", "queue"}
    /\ rtss \in BOOLEAN /\ sts \in BOOLEAN
    /\ writes \in 0..MaxChars /\ injects \in 0..MaxInject
    /\ since \in Nat /\ last \in {"none", Data, Control}

(* After create_device, with or without hardware flow control; the peer is *)
(* ready.                                                                  *)
TxInit ==
    /\ stty \in 0..MaxStty /\ ohflow \in BOOLEAN /\ irts = ~ohflow
    /\ obuf = <<>> /\ fifo = 0
    /\ cr1 = {"UARTEN", "RRDYEN"} \cup (IF ohflow THEN {"RTSDEN"} ELSE {})
    /\ rts = TRUE /\ rtsd = FALSE /\ rxc = "none"
    /\ ohw = FALSE /\ osw = FALSE /\ over = FALSE
    /\ tto_event = FALSE /\ queued = FALSE
    /\ tpc = "idle" /\ cr = {} /\ ipc = "idle" /\ icr = {} /\ rtss = FALSE /\ sts = FALSE
    /\ writes = 0 /\ injects \in 0..MaxInject /\ since = 0 /\ last = "none"

TRDY == fifo < FifoLevel
Paged == ohw \/ osw

(***************************************************************************)
(* External: io-char calls tto                                             *)
(***************************************************************************)

Write ==
    /\ tpc = "idle" /\ writes < MaxChars
    /\ obuf' = Append(obuf, Data) /\ writes' = writes + 1
    /\ tpc' = "loop"
    /\ UNCHANGED <<line, fifo, cr1, rts, rtsd, rxc, flow, over, events, cr, isr, injects, since, last>>

(* The event queue: the device leaves it, then its flags are handled.      *)
EventQueue ==
    /\ tpc = "idle" /\ queued
    /\ queued' = FALSE /\ tto_event' = FALSE
    /\ tpc' = IF tto_event THEN "loop" ELSE "idle"
    /\ UNCHANGED <<line, obuf, fifo, cr1, rts, rtsd, rxc, flow, over, cr, isr, count, since, last>>

(***************************************************************************)
(* tto, TTO_DATA and TTO_EVENT                                             *)
(***************************************************************************)

(* Mutant: the test for suspended output is missing.                       *)
LoopTestMutant == obuf # <<>> /\ TRDY

LoopTest == obuf # <<>> /\ TRDY /\ (~Paged \/ over)

Loop ==
    /\ tpc = "loop"
    /\ tpc' = IF LoopTest THEN "char" ELSE "enable"
    /\ UNCHANGED <<line, obuf, fifo, cr1, rts, rtsd, rxc, flow, over, events, cr, isr, count,
                   since, last>>

(* tto_getchar, and the character goes into the FIFO.                      *)
Char ==
    /\ tpc = "char"
    /\ obuf' = Tail(obuf) /\ last' = Head(obuf) /\ fifo' = fifo + 1
    /\ since' = IF Paged /\ Head(obuf) = Data THEN since + 1 ELSE since
    /\ tpc' = "override"
    /\ UNCHANGED <<line, cr1, rts, rtsd, rxc, flow, over, events, cr, isr, count>>

(* The override is for one character.                                      *)
Override ==
    /\ tpc = "override"
    /\ over' = FALSE /\ last' = "none"
    /\ tpc' = IF over THEN "enable" ELSE "loop"
    /\ UNCHANGED <<line, obuf, fifo, cr1, rts, rtsd, rxc, flow, events, cr, isr, count, since>>

MoreToSend == ~Paged /\ obuf # <<>>

(* Read CR1 to enable the transmitter interrupt ...                        *)
Enable ==
    /\ tpc = "enable"
    /\ IF MoreToSend THEN cr' = cr1 /\ tpc' = "write" ELSE tpc' = "idle" /\ UNCHANGED cr
    /\ UNCHANGED <<line, obuf, fifo, cr1, rts, rtsd, rxc, flow, over, events, isr, count, since, last>>

(* ... and write it back.                                                  *)
EnableWrite ==
    /\ tpc = "write"
    /\ cr1' = cr \cup {"TRDYEN"}
    /\ cr' = {} /\ tpc' = "idle"
    /\ UNCHANGED <<line, obuf, fifo, rts, rtsd, rxc, flow, over, events, isr, count, since, last>>

(* tto, TTO_CTRL: break on or off; CR1 is read and then written.           *)
Ctrl ==
    /\ tpc = "idle" /\ stty > 0 /\ stty' = stty - 1
    /\ cr' = IF "SNDBRK" \in cr1 THEN cr1 \ {"SNDBRK"} ELSE cr1 \cup {"SNDBRK"}
    /\ tpc' = "ctrl"
    /\ UNCHANGED <<ohflow, irts, obuf, fifo, cr1, rts, rtsd, rxc, flow, over, events, isr, count, since, last>>

CtrlWrite ==
    /\ tpc = "ctrl"
    /\ cr1' = cr
    /\ cr' = {} /\ tpc' = "idle"
    /\ UNCHANGED <<line, obuf, fifo, rts, rtsd, rxc, flow, over, events, isr, count, since, last>>

(***************************************************************************)
(* ser_stty                                                                *)
(***************************************************************************)

(* External: io-char changes c_cflag and calls ser_stty.                   *)
Stty ==
    /\ tpc = "idle" /\ stty > 0 /\ stty' = stty - 1
    /\ ohflow' \in BOOLEAN
    /\ tpc' = "stty"
    /\ UNCHANGED <<irts, obuf, fifo, cr1, rts, rtsd, rxc, flow, over, events, cr, isr, count,
                   since, last>>

(* Hardware flow control goes on or off: change IRTS, and read CR1 to      *)
(* enable or disable the RTS delta interrupt ...                           *)
SttyRts ==
    /\ tpc = "stty"
    /\ irts' = ~ohflow
    /\ IF irts = ohflow
         THEN /\ cr' = IF ohflow THEN cr1 \cup {"RTSDEN"} ELSE cr1 \ {"RTSDEN"}
              /\ tpc' = "flow"
         ELSE tpc' = "settings" /\ UNCHANGED cr
    /\ UNCHANGED <<stty, ohflow, obuf, fifo, cr1, rts, rtsd, rxc, flow, over, events, isr, count,
                   since, last>>

(* ... and write it.                                                       *)
SttyFlow ==
    /\ tpc = "flow"
    /\ cr1' = cr
    /\ cr' = {} /\ tpc' = "settings"
    /\ UNCHANGED <<line, obuf, fifo, rts, rtsd, rxc, flow, over, events, isr, count, since, last>>

(* The other settings are as they were: return early.                      *)
SttySame ==
    /\ tpc = "settings" /\ tpc' = "idle"
    /\ UNCHANGED <<line, obuf, fifo, cr1, rts, rtsd, rxc, flow, over, events, cr, isr, count,
                   since, last>>

(* Wait for the transmitter, for a limited time, and disable the UART.     *)
SttyDisable ==
    /\ tpc = "settings"
    /\ cr1' = {}
    /\ tpc' = "reset"
    /\ UNCHANGED <<line, obuf, fifo, rts, rtsd, rxc, flow, over, events, cr, isr, count, since, last>>

(* Reset the UART, what is left in its FIFO included, and enable it again. *)
SttyReset ==
    /\ tpc = "reset"
    /\ fifo' = 0 /\ rtsd' = FALSE
    /\ cr1' = {"UARTEN", "RRDYEN"}
    /\ tpc' = IF ohflow THEN "uarten" ELSE "idle"
    /\ UNCHANGED <<line, obuf, rts, rxc, flow, over, events, cr, isr, count, since, last>>

(* With hardware flow control the RTS delta interrupt is enabled again.    *)
SttyRead ==
    /\ tpc = "uarten"
    /\ cr' = cr1 \cup {"RTSDEN"}
    /\ tpc' = "rtsden"
    /\ UNCHANGED <<line, obuf, fifo, cr1, rts, rtsd, rxc, flow, over, events, isr, count, since, last>>

SttyWrite ==
    /\ tpc = "rtsden"
    /\ cr1' = cr
    /\ cr' = {} /\ tpc' = "idle"
    /\ UNCHANGED <<line, obuf, fifo, rts, rtsd, rxc, flow, over, events, isr, count, since, last>>

(***************************************************************************)
(* ser_intr and do_interrupt                                               *)
(***************************************************************************)

(* External: tti on a received character.  XOFF suspends and XON resumes   *)
(* the output; when the input buffer is nearly full, tx_inject puts a      *)
(* flow-control character at the front of the output buffer.               *)
tti ==
    /\ osw' = CASE rxc = "xoff" -> TRUE [] rxc = "xon" -> FALSE [] OTHER -> osw
    /\ tto_event' = (tto_event \/ rxc \in {"xon", "full"})
    /\ sts' = (rxc \in {"xon", "full"})
    /\ IF rxc = "full" THEN obuf' = <<Control>> \o obuf /\ over' = TRUE
                       ELSE UNCHANGED <<obuf, over>>
    /\ since' = IF osw' \/ ohw THEN since ELSE 0

(* rx_interrupt.                                                           *)
IntrRx ==
    /\ ipc = "idle"
    /\ \/ rxc # "none" /\ "RRDYEN" \in cr1
       \/ TRDY /\ "TRDYEN" \in cr1
       \/ rtsd /\ "RTSDEN" \in cr1
    /\ tti /\ rxc' = "none"
    /\ ipc' = "tx"
    /\ UNCHANGED <<line, fifo, cr1, rts, rtsd, ohw, queued, thread, icr, rtss, count, last>>

(* tx_interrupt, whatever the cause of the interrupt: read CR1, ...        *)
IntrTx ==
    /\ ipc = "tx"
    /\ IF TRDY THEN icr' = cr1 /\ ipc' = "trdyen" ELSE ipc' = "rtsd" /\ UNCHANGED icr
    /\ UNCHANGED <<line, obuf, fifo, cr1, rts, rtsd, rxc, flow, over, events, thread, rtss, sts,
                   count, since, last>>

(* ... write it with the transmitter interrupt disabled, ...               *)
IntrTrdyen ==
    /\ ipc = "trdyen"
    /\ cr1' = icr \ {"TRDYEN"} /\ icr' = {}
    /\ ipc' = "event"
    /\ UNCHANGED <<line, obuf, fifo, rts, rtsd, rxc, flow, over, events, thread, rtss, sts,
                   count, since, last>>

(* Mutant: nobody is told.                                                 *)
TxEventMutant == UNCHANGED <<tto_event, sts>>

TxEvent == tto_event' = TRUE /\ sts' = TRUE

(* ... and have tto called.                                                *)
IntrEvent ==
    /\ ipc = "event"
    /\ TxEvent
    /\ ipc' = "rtsd"
    /\ UNCHANGED <<line, obuf, fifo, cr1, rts, rtsd, rxc, flow, over, queued, thread, icr, rtss,
                   count, since, last>>

(* ms_interrupt: read RTSS ...                                             *)
IntrRtsd ==
    /\ ipc = "rtsd"
    /\ IF rtsd THEN rtss' = rts /\ ipc' = "ms" ELSE ipc' = "queue" /\ UNCHANGED rtss
    /\ UNCHANGED <<line, obuf, fifo, cr1, rts, rtsd, rxc, flow, over, events, thread, icr, sts,
                   count, since, last>>

(* ... and clear RTSD, even if RTS has changed again; external: with       *)
(* hardware flow control tti stops or resumes the output (TTI_OHW_STOP,    *)
(* TTI_OHW_CONT).                                                          *)
IntrMs ==
    /\ ipc = "ms"
    /\ rtsd' = FALSE
    /\ ohw' = IF ohflow THEN ~rtss ELSE ohw
    /\ tto_event' = (tto_event \/ (ohflow /\ rtss)) /\ sts' = (sts \/ (ohflow /\ rtss))
    /\ since' = IF ohw' \/ osw THEN since ELSE 0
    /\ rtss' = FALSE /\ ipc' = "queue"
    /\ UNCHANGED <<line, obuf, fifo, cr1, rts, rxc, osw, over, queued, thread, icr, count, last>>

(* The device is put into the event queue unless it is there.              *)
IntrQueue ==
    /\ ipc = "queue"
    /\ queued' = (queued \/ sts) /\ sts' = FALSE
    /\ ipc' = "idle"
    /\ UNCHANGED <<line, obuf, fifo, cr1, rts, rtsd, rxc, flow, over, tto_event, thread, icr, rtss,
                   count, since, last>>

(***************************************************************************)
(* External: the line and the peer                                         *)
(***************************************************************************)

(* A character leaves the FIFO while the peer is ready, or is not asked.   *)
Shift ==
    /\ fifo > 0 /\ (rts \/ irts) /\ "UARTEN" \in cr1
    /\ fifo' = fifo - 1
    /\ UNCHANGED <<line, obuf, cr1, rts, rtsd, rxc, flow, over, events, thread, isr, count, since, last>>

Rts ==
    /\ rts' = ~rts /\ rtsd' = TRUE
    /\ UNCHANGED <<line, obuf, fifo, cr1, rxc, flow, over, events, thread, isr, count, since, last>>

Arrive(k) ==
    /\ rxc = "none" /\ (k = "full" => injects > 0)
    /\ rxc' = k /\ injects' = IF k = "full" THEN injects - 1 ELSE injects
    /\ UNCHANGED <<line, obuf, fifo, cr1, rts, rtsd, flow, over, events, thread, isr, writes, since, last>>

Tto == Loop \/ Char \/ Override \/ Enable \/ EnableWrite \/ CtrlWrite
SttySteps ==
    SttyRts \/ SttyFlow \/ SttySame \/ SttyDisable \/ SttyReset \/ SttyRead \/ SttyWrite
Intr == IntrRx \/ IntrTx \/ IntrTrdyen \/ IntrEvent \/ IntrRtsd \/ IntrMs \/ IntrQueue

TxNext ==
    \/ Write \/ EventQueue \/ Tto \/ Ctrl \/ Stty \/ SttySteps
    \/ Intr \/ Shift \/ Rts \/ \E k \in {"xon", "xoff", "full"} : Arrive(k)

TxFairness ==
    /\ WF_txVars(Tto) /\ WF_txVars(SttySteps) /\ WF_txVars(EventQueue) /\ WF_txVars(Intr)
    /\ WF_txVars(Shift)

TxSpec == TxInit /\ [][TxNext]_txVars /\ TxFairness

(***************************************************************************)
(* Properties                                                              *)
(***************************************************************************)

Quiet == tpc = "idle" /\ ipc = "idle"

(* After a stop, by the peer's RTS or by XOFF, at most one more character  *)
(* of data is sent, the one that tto has already tested for.               *)
StopObeyed == since <= 1

(* All output is sent if in the end the peer lets it be sent.  (ser_stty   *)
(* also resets TRDYEN, and output that waits then depends on the next call *)
(* of tto, which libio-char makes.)                                        *)
OutputDrains == stty = 0 /\ <>[](rts /\ ~ohw /\ ~osw) => []<>(obuf = <<>>)

(* tto.c:407, "Enable UART and Receiver Ready Interrupt": when ser_stty is *)
(* done both are enabled.  It fails: a handler that has read CR1 before    *)
(* ser_stty disabled the UART, or while it is disabled, writes its copy    *)
(* back after the enabling.                                                *)
UartEnabled == Quiet => {"UARTEN", "RRDYEN"} \subseteq cr1

(* The override is used up by a flow-control character and by no other.    *)
OverrideForControl == tpc = "override" /\ over => last = Control

(***************************************************************************)
(* The inductive invariant                                                 *)
(***************************************************************************)

(* No data counts as sent after a stop while the output is not stopped.    *)
CountedWhilePaged == Paged \/ since = 0

(* tto is about to send: there is a character and room for it, and either  *)
(* nothing was sent after the stop or the override is on.                  *)
AboutToSend == tpc = "char" => obuf # <<>> /\ TRDY /\ (since = 0 \/ over)

(* The override waits for the flow-control character at the front.         *)
OverrideAt == over /\ tpc # "override" => obuf # <<>> /\ Head(obuf) = Control

TxInv == TxTypeOK /\ CountedWhilePaged /\ AboutToSend /\ OverrideAt /\ StopObeyed
=============================================================================
