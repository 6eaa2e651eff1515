# Verification of the i.MX6 QNX BSP drivers

The repository is a board support package: drivers and libraries that run as
processes on QNX Neutrino, beside boot code and utilities.  This directory has
TLA+ models of its concurrent core, TLC configurations that check them on small
instances, and proofs that TLAPS checks for every size.  Source paths below are
relative to `src/`, the repository's own source directory.

Modelled: the SDMA library (`lib/dma/sdma`), which several driver processes
share; the Ethernet driver (`hardware/devnp/mx6x`), which io-pkt runs on several
threads; the SPI master framework and the ECSPI driver (`hardware/spi`); the I2C
driver (`hardware/i2c/mx35`); the output side of the serial driver
(`hardware/devc/sermx1`); and the SD/MMC driver (`hardware/devb/mmcsd`).  They
hold nearly all of the concurrency in the repository's own code: threads,
interrupt handlers, controllers and clients that work on one piece of state.

## 1. Inventory

### SDMA library (`lib/dma/sdma`)

A library that each driver process links.  Every process has its own copy of
the static variables; the instances meet in four places: a shared memory object
`/SDMA_MUTEX` (a process count and three process-shared mutexes), the SDMA
registers, physical memory that the first process allocates (the channel control
blocks, CCB, and the descriptor of command channel 0), and QNX's resource
database, which hands out channel numbers.

| part | state | operations | hard behaviour | what makes it correct |
|---|---|---|---|---|
| life cycle (`init.c`, `sync.c`, `api.c` `sdma_init`/`sdma_fini`) | `process_cnt`, `libinit_mutex`, MC0PTR, ccb[0], `n_users_in_process`, mappings | ctor, dtor, init, fini | processes start, fail, finish and die in any order; six failure labels | the count is exact; only a process that is alone resets the engine; all use one CCB; failure undoes everything; calls return |
| command channel (`cmd.c`, `irq.c`) | `command_mutex`, `cmd_bd_ptr`, `channel_mask`, `event_array`, INTR, pulses | `sdmacmd_ctx_load`, `irq_handler` | one descriptor and interrupt bit for all processes; a timeout races the completion | the waiting thread's process alone listens; its descriptor stays; success means loaded; calls return |
| channels and registers (`api.c`) | resource database, EVTOVR, HOSTOVR, CHNENBL, `register_mutex`, the channel structure | attach, release, xfer start / abort / complete | read-modify-write of shared registers; a channel number read from freed memory, which another thread may have been given | no lost update, no channel with two owners |
| transfers (`api.c`, `irq.c`) | buffer descriptors, `n_frags`, `current_bd_paddr`, callback table | set-up, start, abort, complete, bytes_left, release, `callback_reenable_descr` | the engine and the ISR work on descriptors while the driver writes them | the engine sees whole descriptors of the current set-up; completion means everything has moved; transfers end |
| scripts and options | tables, option strings | lookup, parsing | none | not modelled; failure is an outcome |

### Ethernet driver (`hardware/devnp/mx6x`)

A driver for io-pkt.  io-pkt calls `if_start` on any thread, with the exclusion
`if_snd_ex` held; timers, `if_init` and `if_stop` run on the stack thread; an
interrupt handler queues the driver's entry on io-pkt's list, and an io-pkt
thread then runs `mx6q_process_interrupt`.

| part | state | operations | hard behaviour | what makes it correct |
|---|---|---|---|---|
| transmit ring (`transmit.c`, `mii.c`, `detect.c`) | `tx_pidx`, `tx_cidx`, `tx_descr_inuse`, `tx_bd`, `tx_pkts`, IFF_OACTIVE, IFF_RUNNING, `tx_callout`, `tx_reaped` | start, transmit_complete, kick, PHY monitor, link up, stop, init | several threads, a timer and the NIC on one ring; a full ring | the count is exact; no mbuf is lost, freed twice or freed under the NIC; transmission resumes; mbufs come back |
| receive ring (`receive.c`, `event.c`, `mii.c`, `detect.c`) | `rx_cidx`, `rx_bd`, `rx_pkts`, IEVENT, IMASK, kernel mask, io-pkt's list | two ISRs and their enables, process_interrupt, receive, add_pkt, PHY accesses, stop, init, destroy | frames arriving while causes are acknowledged, by the job or by an access to the PHY; no free mbuf; a full ring; re-initialisation | no mbuf is lost; the NIC has exactly its own; packets go up in order; nothing stays behind; reception restarts |
| options, PHY, statistics, PTP, devctl, multicast | configuration, counters, timestamp buffers | | timestamp buffers shared with a devctl | planned (PTP) or sequential |

### SPI (`hardware/spi`)

`master` is a resource manager, one thread per interface, that loads a driver;
`mx51ecspi` is the driver for the i.MX6.  The interface's thread runs one handler
at a time, and the driver's transfer inside it.

| part | state | operations | hard behaviour | what makes it correct |
|---|---|---|---|---|
| locks and requests (`_spi_*.c`) | connections, `ocb->chip` (the default device), list of `SPIDEVLOCK` | open, close, read, write, SPI messages, devctls | long sequences of requests of several clients; a client dies with locks held | a locked device is used by its holder only; every lock has a living owner |
| ECSPI transfer (`mxecspi.c`, `intr.c`) | `pbuf`, `xlen`, `tlen`, `rlen`, `burst`, FIFOs, INTREG, pulses | `mx51_xfer`, `spi_intr`, `mx51_wait` | one buffer is sent from and received into; partial words; a timeout races the completion | every byte goes out and every answer is stored at its place; the controller is quiet afterwards |
| start and stop | threads, dlopen | | once per process | not modelled |

### I2C (`hardware/i2c/mx35`)

Called by QNX's I2C resource manager, one call at a time.

| part | state | operations | hard behaviour | what makes it correct |
|---|---|---|---|---|
| transfers (`send.c`, `recv.c`, `wait.c`) | I2CR, I2SR, I2DR, `dev->restart`, the interrupt's mask | send, recv, wait_bus_not_busy, wait_status, reset | byte protocol decided one byte ahead; arbitration loss; no answer; a time-out that races the interrupt | success means all bytes; the last byte read is refused; a failed call gives up the bus |
| options, clock, entry points | divider table | | none | not modelled |

### Serial driver (`hardware/devc/sermx1`)

Linked with libio-char, whose thread calls `tto` and `ser_stty`; the interrupt
handler runs on any CPU.

| part | state | operations | hard behaviour | what makes it correct |
|---|---|---|---|---|
| output (`tto.c`, `intr.c`) | `tty.obuf`, CR1, OHW_PAGED, OSW_PAGED, OSW_PAGED_OVERRIDE, EVENT_TTO, EVENT_QUEUED | tto (data, event, control), stty, ser_intr | both sides read, change and write CR1 without a lock; the peer stops the output at any time | nothing stays in the buffer; a stop is obeyed; a change of settings leaves the UART enabled (it may not: section 5) |
| input, DMA mode, options | libio-char's buffers | | planned (DMA mode) | not modelled |

### SD/MMC (`hardware/devb/mmcsd`)

A CAM SIM module with a driver thread (requests, interrupts, timer) and a control
thread per controller, and a main thread that has the card of the boot identified.
They have equal priorities and no lock, and the image boots an SMP kernel
(`images/sabresmart.build:49`).

| part | state | operations | hard behaviour | what makes it correct |
|---|---|---|---|---|
| identification (`mmcsd.c`) | `ext->ident`, `version`, `eflags`, `rca`, bus width, static counters | the stages of `mmc_card_ident` | a chain of about twenty commands, each may fail; cards are exchanged on the way | a card is known for what it is; controller and card agree |
| requests (`sim_mmc.c`, `sim.c`, `chipsets/sim_mx35.c`) | `ext->state`, `ext->nexus`, `ext->stop`, flags, pulses, interrupt enable | start_ccb, interrupt, data and stop completion, media check, control thread | a removal, an identification and a request at once, on several threads; repeated stop commands | "complete" means carried out; only an inserted card is ready; requests are answered |
| other chipsets, SCSI replies, options | tables | | none | not modelled |

### The rest

The audio controller is glue around a framework that is not in the repository,
and its DMA goes through the SDMA library.  The PCI server (`hardware/pci`) is one
thread over a list of devices; its attach counts are worth a model (section 6).
Flash, startup, IPL, display tables, PWM, watchdog kicker and test programs are
vendored, sequential or tables; prebuilt binaries and images are not source.
`PROJECT.json` lists every part with its status, and the hazards with their lines.

## 2. Modules

| module | models | composed with |
|---|---|---|
| `SdmaLib` (+ `MCSdmaLib`) | library life cycle in several processes | registers it resets are in `SdmaRegs` |
| `SdmaCmd` (+ `MCSdmaCmd`) | command channel 0, ISR of every process, timeouts | called by attach and abort (`SdmaRegs`, `SdmaXfer`), which see its result |
| `SdmaRegs` (+ `MCSdmaRegs`) | channel ownership and shared registers | |
| `SdmaXfer` (+ `MCSdmaXfer`) | one event-driven channel, its descriptors, ISR callback and engine | |
| `EnetTx` (+ `MCEnetTx`) | transmit ring | shares `mx6q_process_interrupt`, stop and init with `EnetRx` |
| `EnetRx` | receive ring | |
| `SpiMaster` | connections, locks and requests of an SPI interface | implements `SpiLockSpec`; its transfers are `EcSpi`'s |
| `SpiLockSpec` | abstract: what a device lock promises | |
| `EcSpi` | one transfer of the ECSPI driver after another | |
| `I2c` | send and recv against controller, slave and another master | |
| `SerialTx` (+ `MCSerialTx`) | output, line settings and interrupt handler of a UART | |
| `MmcIdent` | identification of cards, stage by stage | |
| `MmcReq` | requests, threads and interrupts of a controller | an identification is `IdentCmds` commands, whose contents are in `MmcIdent` |
| `SdmaLibProofs`, `SdmaCmdProofs`, `EnetTxProofs`, `EnetRxProofs` | the proofs about the module of that name | |
| `SdmaChannelProofs` | the proofs about `SdmaRegs` and `SdmaXfer` | extends both |
| `SpiProofs` | the proofs about `SpiMaster` and `EcSpi` | extends both |
| `I2cSerialProofs` | the proofs about `I2c` and `SerialTx` | extends both |
| `MmcProofs` | the proofs about `MmcReq` and `MmcIdent` | extends both |

A module has one action per step that another actor can interleave with: an
unlocked read and the write that follows it are two actions, code under a mutex
that only touches state of that mutex is one.  A definition that models code is
named after it; `PROJECT.json` maps it to its lines.  The two modules that a proof
module extends have no name in common: `SdmaXfer`, `EcSpi`, `SerialTx` and `MmcIdent`
put `Xfer`, `Ec`, `Tx` and `Id` before `Init`, `Next`, `Spec`, `TypeOK` and `Inv`, the
inductive invariant that is `IInv` elsewhere.  Definitions called
`...Mutant` (and the variants named in the comments as mutants) are wrong
versions of the definition that follows them; no specification uses them.  They
show that each property notices a plausible bug.

**SdmaLib.** `pc` is the place of a process in ctor, `sdma_init` or
`sdma_fini`; `processinit_mutex` is held from the first line to the last, so
there is one call at a time in a process.  A physical block is named by the
process that allocated it, and is `Stale` once that process has unmapped it or
died.  Failures: options, shared memory and register mapping (`InitOpen`), CCB
(`CcbCreate`), command channel (`CmdchCreate`, which then runs label fail5);
`InitFail` is the code from label fail4.  A failure of `CmdchCreate` in the first
process happens before or after ccb[0] was written, so both outcomes are there.
`Crash` kills a process anywhere; the kernel frees its memory, not its count or
its locks.  As `sync.c:27` asks, a process loads the library only while no other is
in its constructor (guard of `Ctor`).  When the first constructor fails after it has
created the object, the others run on with mutexes that nobody has initialised and
that keep nobody out; the properties about exclusion are stated for an object that
was initialised (`shm = "ready"`).

**SdmaCmd.** One thread's `sdmacmd_ctx_load` is ten steps, from the lock to the
unlock.  `mask` and `event` are the processes that have bit 0 set and an event
in their table: they are set and cleared in two steps because the handler may
run in between.  The handlers of all processes run one after the other on the
shared interrupt; a handler reads the status and clears the bit in two steps, with
`seen` in between, and a completion that comes between them is cleared too.  A job is a thread and the number of its call, so that the
model can say whose context was loaded; `expired` records that some wait has
timed out.  The descriptor is filled in one step (a comment at `SetDescriptor`
says what that leaves out).

**SdmaRegs.** A register is the set of channels whose bit is set; each read and
each write is an action, with the value read in `tmp`.  attach changes EVTOVR and
CHNENBL without the mutex, release, start, abort and complete change theirs with
it.  `Home` gives the process of each driver.  `Detach` reads the channel number from
freed memory: it is still there, or it names no channel, or it is the number of a
channel that another driver of the process has created since the structure was freed
(`stale`); the resource manager takes back whatever the process holds.  `misread`
records that the channel of another driver was given back.  Running out of memory in
`chan_create` dereferences NULL at label fail2; the drivers of that process are then
`dead`.

**SdmaXfer.** The driver is a client that follows the user's guide
(`README.txt` of the library).  A descriptor has a command word and a buffer and
records which set-up wrote each.  The constant `Options` is the set of ways of
using the channel; one is chosen initially.  The callback's `|= DONE` is a read
and a write.  The engine takes a descriptor that is DONE while events are on,
and finishes a burst even if they are turned off meanwhile.  Every use may be
aborted at any time, as the audio, serial and SD/MMC drivers do; a transfer that was
aborted is set up again or, as in the audio driver, started again as it is.  `overlap`
records that this happened before the engine had finished its burst (unless contloop
reset the script) or before the callback of a regen ring had ended.  Software-triggered
channels, the error bit and the UART byte count are left out.

**EnetTx.** `ready`, `bdu` and `pkts` are the descriptors with TXBD_R, with
BD_BDU and with an mbuf.  `MX6Q_MAX_FRAGS` is 1, so packets take one descriptor:
`mx6q_defrag` either makes one fragment or drops the packet (`Dequeue`).
`transmit_complete` is three steps per descriptor, because the timestamp
interrupt calls it without the lock; `ret` says to whom it returns.  The tx
callout and the PHY monitor run on the stack thread when it is idle.
PTP time values, zero-length fragments and verbose output are left out.

**EnetRx.** The job is the run of `mx6q_process_interrupt` on an io-pkt thread.
The NIC writes a frame number into the mbuf of the descriptor it fills; the
numbers, modulo `Frames`, start again when the ring is initialised.  `Kermask`
chooses the pair of interrupt handlers, as the driver's option does (default
TRUE).  `OneThread` says that jobs and calls of the stack are not on different
threads at once: the driver has no lock between them and its comment in
`mx6q_stop` relies on it; without it `NoMbufLost` fails.  An access to the PHY (the
two-second monitor, the media ioctls) is two steps, `MiiBegin` and `MiiEnd`, each a
read-modify-write of IEVENT that acknowledges every pending cause; `lost` records that
a receive cause was acknowledged in this way and none has come since.

**SpiMaster.** A handler is one action, as the interface has one thread.  `lock`
is the list of `SPIDEVLOCK` entries in its order; each has a device and the
connection that owns it.  `used` records what the last request did to which
device.  `LockSpecImplemented` maps the list to a function from devices to
holders and checks `SpiLockSpec!Spec`: a device is taken only when it is free,
given up only by its holder or its close, and used only by its holder while it is
locked.  `DefaultMsgs` adds messages that name no device: the code checks the
lock before it takes the connection's default device, and the property fails
(section 5); the run without them shows that everything else is right.

**EcSpi.** Bytes are numbers: the client's are 1, 2, ..., the answer to byte k is
-k.  `buf` is the one buffer, `tx` and `rx` are the FIFOs in words, `wire` what was
sent.  `Exchange` is the controller (external); it works burst by burst, with the
partial word first.  `Intr` is `spi_intr` as one action, because the
thread only waits meanwhile.  A
time-out may come at any time; `expired` records it, and the properties are about
transfers before the first one.  The copy that removes the padding is a memcpy
between areas that may overlap: it goes upwards (`Fix`) or downwards (`FixBackward`,
recorded in `backward`).

**I2c.** `pc` is the place in send, recv or one of the waits.  The interrupt is
attached as an event, so its delivery masks it; `masked`, `pend`, the cause in the
status register and the driver's unmasking are separate steps and a time-out may
come between any two.  The slave may refuse its address or a byte or be silent;
another master may win the arbitration.

**SerialTx.** CR1 is a set of bits, with the copies of the thread (`cr`) and of the
handler (`icr`).  The handler starts and goes on at any time, which covers one CPU,
several, and option isr=0.  Clients change the line settings and hardware flow control
`MaxStty` times (`SttyRts` to `SttyWrite`); RTS, XON, XOFF and a full input buffer come
at any time.  `since` counts the data characters sent since the output was stopped.

**MmcIdent.** A stage is one action that looks at the answer, issues the next
command and moves on, as the code does; `stage` is `ext->ident`, `sent` the command
under way, and `slot` the card that is in the slot, with its own idea of address, width and state.  A card may be removed at any stage and
another one inserted before the next identification; commands fail in any stage.  A
card may answer a switch of speed or bus width and refuse it in its status, which the
driver does not look at; `refused` is the set of switches it has refused.

**MmcReq.** Pulses of the driver thread and of the control thread are queues.  The
control thread (`cpc`), and at boot the main thread (`boot`), issue the first command
of an identification and set the state in two steps; the driver thread may run
between any two steps of theirs.  `logged` records an interrupt that came in between,
`over` that an identification was begun over another one or over a request.  `swapped`
that a card came in before the threads were done with the one in the slot before (`Calm`).  `done`
is what the card has really done for a request since it was last started.

## 3. Runs

Every run passes; each asks one module's question.

| run | instance | distinct states | shows |
|---|---|---|---|
| `SdmaLib_procs` | 3 processes, nesting 2, 1 death | 23 000 | `CountExact`, `ResetOnlyWhenAlone`, `SharedBlocks`, `AllOrNothing`, `CallsReturn` |
| `SdmaCmd_load` | threads t1, t2 in P1 and t3 in P2; t1 calls twice | 82 000 | `OnlyHolderListens`, `DescriptorOwned`, `LoadedInTime`, `CallsReturn` |
| `SdmaRegs_safety` | 2 drivers of one process, 2 channels, events 0 and 33 | 779 000 | `HostovrExact`, `ExclusiveUnlessMisread` |
| `SdmaXfer_uses` | up to 3 fragments, 2 set-ups, 6 ways of use, all aborted | 2 750 000 | `NeverTornAtRest`, `CompletionMeansAll`, `WorksOnCurrentSetup`, `RingNeverStalls` |
| `EnetTx_run` | ring of 16; stack thread and worker, or the stack thread with timestamp interrupts | 281 000 | `InUseExact`, `BufferAlive`, `NotWedged`, `MbufsReturned` |
| `EnetRx_run` | ring of 2, 3 mbufs | 194 000 | `NoMbufLost`, `NicHasOwnMbuf`, `InOrder`, `FramesTaken`, `ReceptionRestarts` |
| `SpiMaster_locks` | 2 clients, 2 devices | 19 000 | `LocksOwned`, `LockSpecImplemented` |
| `EcSpi_exact` | FIFO of 2 words, 9 lengths, 4 widths, 2 transfers | 438 000 | `BytesExact`, `QuietWhenDone` |
| `I2c_calls` | messages up to 3 bytes, another master | 12 500 | `DoneMeansAll`, `LastByteRefused`, `BusGivenUp` |
| `SerialTx_out` | 2 characters; 1 injected, or 1 change of the settings | 2 402 000 | `StopObeyed`, `OutputDrains` |
| `MmcIdent_cards` | 6 kinds of cards, all option values, 2 identifications | 113 000 | `KnownForWhatItIs`, `HostAndCardAgree` |
| `MmcReq_run` | 2 requests, 2 cards, 1 error, cards replaced at any time | 2 344 000 | `GoodMeansDone`, `GoodMeansMoved`, `ReadyIsInserted`, `Answered` |

Where a property excepts something (`~misread`, `~overlap`, `lost`, `backward`,
`refused`, `over`, `logged`, `swapped`), the exception is a behaviour of the code, most
of them shown by a configuration of section 5; it is recorded by a history variable at
the step where it happens and not excluded from the model.

The configurations of section 5 are beside the runs.  They make TLC end with a violation.

The modules define a few more properties that hold on the same instances and can be
added to the configurations: the type and inductive invariants, `TransferEnds`
(`EcSpi`), `CallsReturn` (`I2c`), `SpareDescriptors` and `FillsFreeSlot`
(`EnetTx`, both proved), `UnmaskedWhenDone` (`I2c`) and `IdentEnds` (`MmcIdent`).
`EnetTx_single.cfg` has one thread and re-initialisation at any moment.

### Bounds

* `SdmaLib`: three processes, because "first", "second" and "somebody tears down
  meanwhile" are the roles that differ; nesting 2 so that inner calls occur.  With an
  object that was never initialised `MCSdmaLib` lets two processes come, without
  nesting.
* `SdmaCmd`: two threads of one process share a pulse queue and a handler, a
  third is in another process; a thread that calls twice can meet its own late
  completion.
* `SdmaRegs`: two drivers are enough for a lost update, in one process they can get
  each other's freed memory, and all of the behaviours of two processes are there too
  (nothing else depends on the process, except that both die together); two channels let them
  work on different bits of one register, two events let them share a CHNENBL
  register or not; 0 is also the event number of a channel without events.
* `SdmaXfer`: three fragments have a first, a middle and a last; two set-ups
  let a stale one follow an abort; two queued events are more than a transfer
  of one event leaves behind (an ISR waits when the queue bound is reached).
* `EnetTx`: 16 is the smallest ring whose cleaning interval (N/8) is more than
  one; 8 is the smallest the formula allows.  The send queue holds 2
  packets, so a full queue and an empty one both occur, and the ring goes round.
  `MCEnetTx` chooses between two threads and timestamps initially; with timestamps
  packets come while fewer than `Light` are in the ring (the ring still goes round).
  `StopTries` is 10 in the code; each try is alike.
* `EnetRx`: two descriptors have a wrap and a non-wrap slot; three mbufs are one
  more than the ring needs, so that allocation succeeds and fails; three frame
  numbers exceed the frames that fit into the ring.

* `SpiMaster`: two clients, two devices: another client, another device and the
  default device differ.  The list of locks cannot outgrow the devices.
* `EcSpi`: a FIFO of two words makes a burst of 8 bytes; the lengths are below, at
  and above one word, one burst and two bursts, and one that needs four bursts
  and begins with a partial word.  Two transfers let one leave something behind.
* `I2c`: three bytes have a first, a last but one and a last, which the code treats
  differently.
* `SerialTx`: two characters and a FIFO of one make tto wait for the handler; one
  injected character is enough to overtake another.  `MCSerialTx` has an injected
  character or a change of the settings, not both; breaks count as changes.
* `MmcIdent`: `MaxStage` and `PwrRetry` shorten two polling loops (their
  iterations are alike); two rounds let one card follow another.
* `MmcReq`: an identification of three commands has a first, a middle and a last;
  two cards let a second follow the first; one error is enough to end every
  command; `MaxStops` is 5 in the code.  One request is a transfer of several blocks,
  the other a SC_UNIT_RDY; a transfer of one block, which ends without a stop command,
  is in `MmcReq_race` and in the theorems.

`CHECK_DEADLOCK FALSE` stands where the system may stop: a destroyed interface, a
dead process that held a lock, drivers that found no channel, or a client model
that has made its bounded number of calls or identifications.  `EnetTx_run`,
`SpiMaster_locks`, `I2c_calls`, `SerialTx_out` and `MmcReq_run` check deadlock.

### Fairness

* Library code and io-pkt jobs: weak fairness per thread; the scheduler runs
  every runnable thread.
* Waiting for a mutex, or for `if_snd_ex`: strong fairness; QNX queues
  the waiters of a mutex, so nobody is passed over for ever.
* The engine, the NIC's transmitter and interrupt delivery: weak fairness;
  hardware that has work does it, and a peripheral keeps requesting data.
* Timers (`Kick`, `Monitor`): strong fairness, as they expire again and again
  while the stack thread is busy at times.
* `EnetRx`: what is on io-pkt's list gets its turn between accesses to the PHY (strong
  fairness of `JobStart`), and an access ends (weak fairness of `MiiEnd`: the code's
  own time-out).
* `SdmaCmd`: once a wait has expired, a handler may clear the next completion together
  with a late one; that the timer then ends the wait is `LateTimeOut`, weakly fair.
  Before that, progress does not rely on timers.
* A thread that processes Ethernet interrupts finds no cause at some time (strong
  fairness): packets do not arrive faster than they are processed for ever.
* `SerialTx`: tto, the steps of stty, the event queue, the handler and the shift
  register: weak fairness; an interrupt is delivered, and the thread runs.
* `MmcReq`: the driver thread, the control thread, the main thread, the timer, and the
  end of a command that was issued (the controller has a time-out of its own): weak
  fairness, for each on its own.
* Nothing else obliges a timeout to expire, nor a client to call, a process to die, a
  frame to arrive or the stack to free a packet.

## 4. Proofs

All theorems but one have the form `Spec => []P`, for every value of the constants
that the modules' assumptions and the second column allow; `LockImplemented` is `Spec => LockSpec!Spec`, a
refinement.  Each rests on an inductive invariant that the model's module defines
beside its properties and that TLC has checked on the instances of section 3.

| theorem | assumes | property |
|---|---|---|
| `SdmaLibProofs`: `TypeCorrect`, `CountCorrect`, `ResetSafe`, `BlocksShared`, `CleanUp` | the shared object is in place (`Preloaded`) | `TypeOK`, `CountExact`, `ResetOnlyWhenAlone`, `SharedBlocks`, `AllOrNothing` |
| `SdmaCmdProofs`: `ListenersCorrect`, `DescriptorCorrect`, `LoadCorrect` | | `OnlyHolderListens`, `DescriptorOwned`, `LoadedInTime` |
| `SdmaChannelProofs`: `HostovrCorrect`, `ExclusiveCorrect` | | `HostovrExact`, `ExclusiveUnlessMisread` |
| `SdmaChannelProofs`: `SeparateCorrect` | every driver is a process of its own | `ChannelsExclusive` |
| `SdmaChannelProofs`: `XferTypeCorrect`, `TornCorrect`, `CompletionCorrect`, `CurrentCorrect` | | `XferTypeOK`, `NeverTornAtRest`, `CompletionMeansAll`, `WorksOnCurrentSetup` |
| `EnetTxProofs`: `RingCorrect` | no timestamp interrupts, or only the stack thread (`SafeThreads`) | `InUseExact`, `SpareDescriptors`, `FreedOnce`, `TypeOK` |
| `EnetTxProofs`: `BuffersCorrect` | `SafeThreads`, and one session (`~CanReinit`) | `BufferAlive`, `FillsFreeSlot` |
| `EnetRxProofs`: `NoMbufLostCorrect`, `NicMbufCorrect`, `OrderCorrect`, `TypeCorrect` | `OneThread` | `NoMbufLost`, `NicHasOwnMbuf`, `InOrder`, `TypeOK` |
| `SpiProofs`: `TypeCorrect`, `LocksCorrect` | | `TypeOK`, `LocksOwned` |
| `SpiProofs`: `LockImplemented` | every message names its device (`~DefaultMsgs`) | `LockSpecImplemented` |
| `SpiProofs`: `EcTypeCorrect`, `QuietCorrect`, `BytesCorrect` | | `EcTypeOK`, `QuietWhenDone`, `BytesExact` |
| `I2cSerialProofs`: `TypeCorrect`, `DoneCorrect`, `LastByteCorrect`, `BusCorrect` | | `TypeOK`, `DoneMeansAll`, `LastByteRefused`, `BusGivenUp` |
| `I2cSerialProofs`: `TxTypeCorrect`, `StopCorrect` | | `TxTypeOK`, `StopObeyed` |
| `MmcProofs`: `TypeCorrect`, `GoodCorrect`, `MovedCorrect`, `ReadyCorrect` | | `TypeOK`, `GoodMeansDone`, `GoodMeansMoved`, `ReadyIsInserted` |
| `MmcProofs`: `IdentTypeCorrect`, `KnownCorrect`, `AgreeCorrect` | | `IdTypeOK`, `KnownForWhatItIs`, `HostAndCardAgree` |

Section 5 shows behaviours that the second column excludes: `SdmaRegs_reuse` (two
drivers in one process), `EnetTx_ptp` (`SafeThreads`), `EnetTx_stop` and
`SpiMaster_default` (`DefaultMsgs`).

The arguments:

* `SdmaLib!IInv`: `libinit_mutex` is held wherever shared state changes
  (`LockHeld`); the count equals the number of counted processes plus the
  counted dead; which resources a process holds and which blocks it maps are
  functions of where it is (`ResourcesAt`, `BlocksAt`).  `CountExact` gives
  `ResetOnlyWhenAlone`: a count of one that includes the caller leaves nobody
  else.  The cardinality reasoning is confined to the lemmas `CountSame`,
  `CountAdd`, `CountRemove` and, for the reset, `FirstIsAlone`.  `SharedBlocks` alone is not inductive: it needs that both addresses
  are published whenever a process other than the first may read them.
* `SdmaCmd!Turns`: the mutex holder is the only thread past the lock, and `mask`
  and `event` are functions of its place.  `InTime` adds that a waiting thread's
  command is in exactly one place (`InFlight`: start bit, engine, interrupt bit,
  handler or pulse queue) and nothing is under way otherwise.  `LoadCorrect`
  carries `~expired => InTime` along `Turns`.
* `SdmaRegs!IInv`: the mutex holder's snapshot of HOSTOVR is current, the bit
  of a channel is a function of its owner's place, and a channel in use is reserved
  for the process of its one owner, all this until a driver gives back the channel of
  another (`~misread`).  `SeparateCorrect` adds that without a second driver in the
  process `stale` stays empty, so that `misread` stays FALSE.
* `SdmaXfer!XferInv`: events are on exactly while a transfer runs, and what a stopped
  transfer may leave behind is limited by its use (`DriverInv`, which holds in any
  case).  The rest holds until a transfer is begun over one that has not come to rest
  (`~overlap`).  `FillInv` says which descriptors `sdma_setup_xfer` has filled in, that
  an enabled one has command and buffer of one set-up, and that engine and callback rest
  meanwhile.  `EngineInv`: in its first round the engine has moved exactly the
  descriptors before the current one, and finds the others enabled; without regen there
  is no second round.  `IsrInv`: the command word that the callback has read is of the
  current set-up, and for a transfer with one event a `Token` (interrupt bit, handler or
  pulse) is on its way only after all fragments have been moved, and only one.  Hence a
  driver that takes the event is not told of an earlier transfer.
* `EnetTx!Turns`: whoever is in start or transmit_complete holds `if_snd_ex`, or
  is there for a timestamp interrupt and then the only thread, so the indices move
  one at a time; with `RoomAt` this keeps the count exact and the
  reserve.  `Occupied` adds that mbufs are only between the consumer and the
  producer index and that READY descriptors have one.
* `EnetRx!IInv`: jobs and calls take turns; what `mx6q_receive` holds is a
  function of its place; every mbuf is in one place (`OneOwner`), and while the
  MAC is on every descriptor has its mbuf except the one being exchanged.
* `EnetRx!OrderInv`, along `IInv`: while the MAC is on, exactly the `Behind`
  descriptors from the consumer index up to the NIC hold a frame that waits, and their
  numbers follow each other (`Ordered`).  A full ring and an empty one have the same
  indices; `Behind` tells them apart by the descriptor at the index.  `Taken` says
  the same of the packet in the hands of `mx6q_receive`, `Fresh` that `mx6q_init`
  hands over an empty ring with both indices at 0.  That an mbuf which is exchanged or
  passed up holds no waiting frame is `OneOwner` of `IInv`.
* `SpiMaster`: `TypeOK /\ LocksOwned` is inductive.  The lemmas are about the list:
  its entries when one is put in front (`Prepended`) or those of a connection are
  taken out (`Removed`, which counts the entries kept, as `_spi_close_ocb` walks the
  list), and what `islock` finds (`IsLock`, the first entry for the device, by
  `LeastNumber`).  The refinement maps the list to the function from devices to
  holders; `CheckedStep` shows that a request that passes `_spi_lock_check` is a use or
  a lock by the holder or of a free device.  It needs that nothing is locked under
  the number that means "no device" (`NoneUnlocked`) and that a connection without a
  device has no flags (`NoFlags`).
* `EcSpi!EcInv`: without a time-out the controller and its handler are in one of four
  states (`Still`, `Sending`, `Sent`, `Over`), and the burst under way begins at
  `rlen`, with exactly its words in one of the FIFOs (`BurstInv`).  `BytesInv` follows
  the one buffer: what is before `rlen` has been answered, what is behind has not been
  sent and is the client's (`Unsent`, `Answered`), and the bytes of the burst are in
  the FIFO in order behind the padding of a partial word.  After the last burst, the
  answers of the incomplete burst are `Pad(xlen)` bytes too far, until `Fix` moves
  them.  The arithmetic is in the lemmas on `Fill` (`Filled`, how many words;
  `FilledExact`, which bytes) and on whole bursts (`WholeBursts`); words are functions
  of positions and no recursion is needed.  `PulsesInv` holds after time-outs too and
  bounds the pulses for `EcTypeOK`.
* `I2c!IInv`: the properties say what holds when a call is over, so the invariant
  follows it through its phases (`Addressing`, `Sending`, `Receiving`): where it may be
  in each (`Place`), which way a byte goes and what the status can say of it
  (`Direction`), that a byte moves only while somebody waits for it (`ByteAwaited`), and
  how acknowledged bytes, the counter and the buffer are related (`SendCount`,
  `RecvCount`).  A time-out can come between the byte and its interrupt; `Moved` are
  the places where a byte has moved that the driver has not counted.
* `SerialTx!TxInv`: `StopObeyed` needs that tto sends a character only with nothing
  sent since the stop or under the override (`AboutToSend`), and that the override is
  on only while the flow-control character is in front (`OverrideAt`), which does not
  count as data.
* `MmcReq!PromptInv`: no interrupt is enabled and no card ready while the control
  thread has yet to handle a removal (`Settled`).  This needs that no card is in the
  slot meanwhile, and that the main thread has no other card in hand than the one it
  has noticed (`OneCard`), and both hold as long as no card came too soon (`~swapped`).  `Retries` bounds the repeated
  stop commands for `TypeOK`.
* `MmcReq!IInv` needs no assumption on the threads.  `Nexus`: the nexus is the one
  request in progress.  `Moved`: a data status, and a stop command without an error
  before it, come only after the data of the nexus was moved.  As long as no identification was begun over another one
  or over a request (`~over`), an insertion finds the driver idle (`IdleFirst`), and
  `Transfer` says what controller and card have done for the request that the driver
  works on, in six combinations of command, status and stop state.
* `MmcIdent!IdInv`: the properties only speak of the end of an identification, so the
  invariant says of every stage what the driver knows by then.  `OwnCommand`: the
  command under way is the one whose outcome the stage looks at, so an answer is never
  taken for that of another command.  `Flags`: the flags of the card before are gone
  when the new one is powered (`count` tells the repeated power-ups from the first),
  and MMC_EFLAG_HS comes in the last stages only, after the SD_SWITCH that would turn
  the mode of the card off.  `Version`: what IF_COND and APP_CMD answered, or not,
  determines the kind; that a card which did not answer APP_CMD is an MMC card needs
  `Address`, that it still has address 0.  `Lines`: who has changed the number of data
  lines, card or controller, at each stage.  The proof has the failure of a stage once
  for all of them (`FailIdent`) and the card's answers in two lemmas (`AnswersMade`,
  `AnswersNot`).

Every invariant that a passing run checks, and the refinement of `SpiLockSpec`, is
proved.  Only model-checked are the liveness properties, as fairness and ENABLED are out
of the prover's reach: `CallsReturn`, `RingNeverStalls`, `NotWedged`, `MbufsReturned`,
`FramesTaken`, `ReceptionRestarts`, `OutputDrains` and `Answered`.

## 5. Seen while modelling

Where the code does something else than a line of the repository says.  Each
configuration makes TLC show a behaviour of the code that violates the property:

| configuration (module) | property | what happens | the line |
|---|---|---|---|
| `SdmaRegs_reuse` (`MCSdmaRegs`) | `ChannelsExclusive` | release reads the channel number from the structure it has freed, which another thread's attach has been given, and gives that channel back | `api.c:472` "get free channel from resource database manager" |
| `SdmaRegs_evtovr` (`MCSdmaRegs`) | `DefaultSoftware` | attach reads EVTOVR without the mutex, release sets its bit, attach writes the old value back | `api.c:557` "deactivate dma-events, default to software triggered" |
| `SdmaXfer_torn` (`MCSdmaXfer`) | `NoTornDescriptor` | the callback of an aborted regen ring sets DONE in a descriptor that the next set-up has half written | `api.c:616` "enable the descriptor last" |
| `EnetTx_ptp` (`EnetTx`) | `FreedOnce` | the timestamp interrupt cleans the ring without `if_snd_ex`, beside a transmitting thread | `transmit.c:400` "call with if_snd_ex" |
| `EnetTx_stop` (`EnetTx`) | `InitRepeatable` | the quiesce path of `mx6q_stop` keeps `if_snd_ex`, `mx6q_init` waits for it | `detect.c:869` "REALLY ok to call over and over again" |
| `EnetRx_mask` (`EnetRx`) | `MaskedOnList` | with kermask=0 the handler writes ones to IMASK, which lets every cause through | `event.c:44` |
| `EnetRx_mii` (`EnetRx`) | `ReceptionGoesOn` | an access to the PHY writes back all causes of IEVENT and so acknowledges the frame that filled the ring; nobody empties it | `receive.c:174` "restart receive" |
| `SpiMaster_default` (`SpiMaster`) | `LockRespected` | the lock is checked for the device in the message, and only then is the default device taken | `spi-master.h:81` |
| `SpiMaster_flag` (`SpiMaster`) | `LockedFlagRight` | the reply of GET_DEVINFO describes the next device and has the lock flag of the named one | `spi-master.h:71` |
| `EcSpi_late` (`EcSpi`) | `WaitsForExchange` | after a time-out the interrupt stays enabled; its pulse ends the next transfer | `mxecspi.c:693` |
| `EcSpi_copy` (`EcSpi`) | `AnswersInPlace` | the memcpy that removes the padding has overlapping areas; one that copies downwards loses answers | `mxecspi.c:712` "ignore first 3 bytes in RXFIFO" |
| `I2c_restart` (`I2c`) | `OwnerForRestart` | recv without stop ignores a failed wait, which gave up the bus, and sets `restart` | `i2c.h:172` |
| `SerialTx_smp` (`SerialTx`) | `UartEnabled` | the handler on another CPU writes an old copy of CR1 over the enable bits of ser_stty | `tto.c:407` "Enable UART and Receiver Ready Interrupt" |
| `SerialTx_inject` (`SerialTx`) | `OverrideForControl` | a character injected between the two tests of the override finds it used up by ordinary data | `tto.c:230` |
| `MmcIdent_trim` (`MmcIdent`) | `TrimRight` | MMC_EFLAG_TRIM is set and never cleared: the next card inherits it | `sim_mmc.h:136` "card support TRIM" |
| `MmcIdent_nohs` (`MmcIdent`) | `NoHighSpeed` | the option nohs is tested on one of three paths only | `devb-mmcsd.use:19` |
| `MmcIdent_refuse` (`MmcIdent`) | `InHighSpeedNow` | the card refuses the switch in its status, which the driver does not look at | `mmcsd.c:709` "we are in HS now" |
| `MmcReq_race` (`MmcReq`) | `NoUnexpectedInterrupt` | the control thread, and at boot the main thread, set the state after they have issued the command whose interrupt needs it; the identification then hangs, and a request that waits for it | `sim_mmc.c:1217` |

Behaviour of the code that the models contain or leave out and that no line of the
repository contradicts:

* `ccb_destroy` unmaps the creator's CCB while other processes use it and MC0PTR
  points at it; `cmd_bd_ptr` likewise (`Stale` in `SdmaLib`).
* A process that dies while counted leaves `process_cnt` too high: no later
  process is ever the first (`leaked`).
* The constructor publishes the shared object before it initialises it
  (`init.c:49`); `sync.c:27` excludes the race by rule.  If it then fails, the mutexes
  of the object are never initialised and nothing keeps the processes apart.
* After a timeout, the late pulse of the old command completes the next one of
  the same process (`cmd.c:343`): hence `LoadedInTime`, not `LoadedOnSuccess`.
* `cmd.c:298`: event 32 is in neither event word.
* `api.c:539` reads through the NULL that `chan_create` returned.
* Without contloop, an abort leaves the script inside its descriptor, and an
  event of the aborted transfer may be taken for the next one's.
* A callback that is running on another CPU while its channel is released works
  on freed memory (`api.c:327`); the models end a channel's life when it is released.
* `detect.c:908`: re-initialising keeps TXBD_R of the last transmit descriptor,
  while its mbuf is freed: hence one session in `BuffersCorrect`.
* `_spi_devctl.c:67`: a client may change the mode of a device that another has
  locked.  `_spi_iomsg_cmdread.c:67`: a command-read of zero bytes waits for ever.
* `mx51ecspi/intr.c:120`: characters of 24 bits are never stored; the transfer ends
  by its time-out.
* `bus_speed.c:37`: the divider table is not sorted, the first match is taken.
* `sermx1/intr.c:135`: RTS may change between the reading of its state and the
  clearing of its change, which is then lost.  ser_stty clears such a change and
  TRDYEN too; output that waits then depends on the next call of tto.
* `sim_mmc.c:1087`: a request that waited for an identification is run on the next
  card that is identified.  `mmcsd.c:804` counts LUNs up and never back.
  `sim_mmc.c:1188`: a request in progress when its card is removed is answered only
  when another card comes in, or by simq's time-out (hence `Answered` says "unless").  `sim.c:257`: the control threads of two
  controllers share one channel.
* `receive.c:165`: the PTP timestamp is read from a descriptor that the NIC owns
  again.

## 6. Plan

Done in this order: `SdmaLib`, `SdmaCmd`, `SdmaRegs`, `SdmaXfer`, `EnetTx`, `EnetRx`,
`SpiMaster` with `SpiLockSpec`, `EcSpi`, `I2c`, `SerialTx`, `MmcIdent`, `MmcReq`; theorems
about all of them.  Next:

1. An abstract command channel ("a call loads its context or fails") that
   `SdmaCmd` implements as long as no wait times out.
2. The PCI server (`hardware/pci/server.c`): attach, lock and persistence counts of
   devices against clients that attach several devices, detach and die.
3. The DMA mode of the serial driver (two receive buffers, RTS), and the PTP
   timestamp buffers of the Ethernet driver.

### Not modelled

* Start-up code, option parsing and tables: sequential, run once, before the other
  actors start.  The exception is the SD/MMC driver, whose main thread has a card
  identified beside the threads it has created (`sim.c:340`); that is in `MmcReq`.
* Closed parts (io-pkt, libio-char, the CAM library, io-audio): external; what the
  drivers see of them is in the models.
* Data: packet contents, clock dividers, CID and CSD fields, partition tables.
* Flash and startup libraries, other chipsets, prebuilt files: vendored or for other
  boards.
