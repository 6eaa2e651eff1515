------------------------------ MODULE SdmaRegs ------------------------------
(***************************************************************************)
(* Channels and trigger registers of the SDMA library (api.c):             *)
(* sdma_channel_attach, sdma_channel_release, sdma_xfer_start,             *)
(* sdma_xfer_abort and sdma_xfer_complete, called by drivers in several    *)
(* processes.                                                              *)
(*                                                                         *)
(* The registers EVTOVR, HOSTOVR and CHNENBL(e) hold one bit per channel   *)
(* and are shared by all drivers; the library changes its own bit by       *)
(* reading the register, changing the bit and writing the register back.   *)
(* A register is the set of channels whose bit is set, and each read and   *)
(* each write is a step.  A shared register_mutex guards those of release, *)
(* start, abort and complete.                                              *)
(*                                                                         *)
(* sdma_channel_release and a failing attach read ch_num from the channel  *)
(* structure after they have freed it.  Another thread of the same process *)
(* may have been given the memory for its own structure by then.           *)
(***************************************************************************)
EXTENDS Integers, FiniteSets

CONSTANTS
    Clients,    \* drivers; each owns at most one channel at a time
    Home,       \* Home[c] is the process of driver c
    Channels,   \* channels SDMA_CH_LO..SDMA_CH_HI
    Events      \* DMA request lines a driver may ask for, 0..MAX_DMA_EVENT-1

ASSUME EventsAssumption == Events \subseteq 0..47 /\ 0 \in Events

None == "none"
Procs == {Home[c] : c \in Clients}
ASSUME NoneAssumption == None \notin Channels \cup Clients \cup Procs

VARIABLES
    rsrcdb,     \* resource database: the process that has reserved a channel
    evtovr,     \* EVTOVR: channels that run without waiting for an event
    hostovr,    \* HOSTOVR: event-driven channels that may run
    chnenbl,    \* CHNENBL(e): channels triggered by event e
    regmutex,   \* holder of shmem->register_mutex
    pc,         \* position of each driver in the library
    op,         \* the call a driver is in
    chan,       \* chan_ptr->ch_num of each driver, or None
    event,      \* chan_ptr->eventnum: 0 (calloc) when not event driven
    driven,     \* chan_ptr->is_event_driven
    tmp,        \* register value a driver has read
    stale,      \* numbers of channels created where a freed structure was
    started,    \* history: the driver's last completed call was xfer_start
    misread     \* history: a driver has given back the channel of another

vars == <<rsrcdb, evtovr, hostovr, chnenbl, regmutex, pc, op, chan, event,
          driven, tmp, stale, started, misread>>

PCs == {"idle", "attached", "dead", "create", "config", "evRead", "evWrite",
        "enRead", "enWrite", "lock", "hostRead", "hostWrite", "unlock",
        "destroy", "detach"}

Ops == {"none", "attach", "release", "start", "stop"}

TypeOK ==
    /\ rsrcdb \in [Channels -> Procs \cup {None}]
    /\ evtovr \subseteq Channels /\ hostovr \subseteq Channels
    /\ chnenbl \in [Events -> SUBSET Channels]
    /\ regmutex \in Clients \cup {None}
    /\ pc \in [Clients -> PCs] /\ op \in [Clients -> Ops]
    /\ chan \in [Clients -> Channels \cup {None}]
    /\ event \in [Clients -> Events] /\ driven \in [Clients -> BOOLEAN]
    /\ tmp \in [Clients -> SUBSET Channels]
    /\ stale \in [Clients -> SUBSET Channels]
    /\ started \in [Clients -> BOOLEAN] /\ misread \in BOOLEAN

(* After register_init of the first process.                               *)
Init ==
    /\ rsrcdb = [ch \in Channels |-> None] /\ evtovr = Channels /\ hostovr = {}
    /\ chnenbl = [e \in Events |-> {}]
    /\ regmutex = None
    /\ pc = [c \in Clients |-> "idle"] /\ op = [c \in Clients |-> "none"]
    /\ chan = [c \in Clients |-> None]
    /\ event = [c \in Clients |-> 0] /\ driven = [c \in Clients |-> FALSE]
    /\ tmp = [c \in Clients |-> {}]
    /\ stale = [c \in Clients |-> {}]
    /\ started = [c \in Clients |-> FALSE] /\ misread = FALSE

Goto(c, l) == pc' = [pc EXCEPT ![c] = l]

registers == <<evtovr, hostovr, chnenbl>>
config == <<chan, event, driven>>
freed == <<stale, misread>>

(***************************************************************************)
(* sdma_channel_attach                                                     *)
(***************************************************************************)

(* rsrcdbmgr_attach reserves a free channel for the caller.                *)
AttachReserve(c) ==
    /\ pc[c] = "idle"
    /\ \E ch \in Channels :
         /\ rsrcdb[ch] = None
         /\ rsrcdb' = [rsrcdb EXCEPT ![ch] = Home[c]]
         /\ chan' = [chan EXCEPT ![c] = ch]
    /\ op' = [op EXCEPT ![c] = "attach"]
    /\ Goto(c, "create")
    /\ UNCHANGED <<registers, regmutex, event, driven, tmp, started, freed>>

(* chan_create failed: label fail2 reads chan_ptr->ch_num through the NULL *)
(* it returned, and the process is gone with all its drivers.              *)
AttachNoMemory(c) ==
    /\ pc[c] = "create"
    /\ pc' = [d \in Clients |-> IF Home[d] = Home[c] THEN "dead" ELSE pc[d]]
    /\ UNCHANGED <<rsrcdb, registers, regmutex, op, config, tmp, started, freed>>

(* chan_create allocated the structure, perhaps where another thread of    *)
(* the process has just freed one, and ch_num is stored in it.             *)
AttachCreate(c) ==
    /\ pc[c] = "create"
    /\ stale' = [d \in Clients |->
                   IF pc[d] = "detach" /\ Home[d] = Home[c]
                     THEN stale[d] \cup {chan[c]} ELSE stale[d]]
    /\ Goto(c, "config")
    /\ UNCHANGED <<rsrcdb, registers, regmutex, op, config, tmp, started, misread>>

(* rsrcdbmgr_detach of the ch_num read from the freed structure: the own   *)
(* number is still there, or another structure's number, or a word that    *)
(* names no channel.  The manager takes back only what the process holds.  *)
Detach(c) ==
    /\ pc[c] = "detach"
    /\ \E n \in {None, chan[c]} \cup stale[c] :
         IF n # None /\ rsrcdb[n] = Home[c]
           THEN /\ rsrcdb' = [rsrcdb EXCEPT ![n] = None]
                /\ misread' = (misread \/ n # chan[c])
           ELSE UNCHANGED <<rsrcdb, misread>>
    /\ chan' = [chan EXCEPT ![c] = None]
    /\ event' = [event EXCEPT ![c] = 0]
    /\ driven' = [driven EXCEPT ![c] = FALSE]
    /\ stale' = [stale EXCEPT ![c] = {}]
    /\ op' = [op EXCEPT ![c] = "none"]
    /\ Goto(c, "idle")
    /\ UNCHANGED <<registers, regmutex, tmp, started>>

(* parse_channel_options or sdmacmd_ctx_load failed: label fail3 frees the *)
(* structure.                                                              *)
AttachFail(c) ==
    /\ pc[c] = "config"
    /\ Goto(c, "detach")
    /\ UNCHANGED <<rsrcdb, registers, regmutex, op, config, tmp, started, freed>>

(* The options are parsed and the context is loaded (SdmaCmd).             *)
AttachConfig(c) ==
    /\ pc[c] = "config"
    /\ \/ /\ Goto(c, "attached")
          /\ op' = [op EXCEPT ![c] = "none"]
          /\ UNCHANGED <<event, driven>>
       \/ \E e \in Events :
            /\ event' = [event EXCEPT ![c] = e]
            /\ driven' = [driven EXCEPT ![c] = TRUE]
            /\ Goto(c, "evRead")
            /\ UNCHANGED op
    /\ UNCHANGED <<rsrcdb, registers, regmutex, chan, tmp, started, freed>>

(***************************************************************************)
(* Read-modify-write of the registers, shared by attach and release.       *)
(***************************************************************************)

EvtovrRead(c) ==
    /\ pc[c] = "evRead"
    /\ tmp' = [tmp EXCEPT ![c] = evtovr]
    /\ Goto(c, "evWrite")
    /\ UNCHANGED <<rsrcdb, registers, regmutex, op, config, started, freed>>

EvtovrWrite(c) ==
    /\ pc[c] = "evWrite"
    /\ evtovr' = IF op[c] = "attach" THEN tmp[c] \ {chan[c]}
                                     ELSE tmp[c] \cup {chan[c]}
    /\ Goto(c, IF op[c] = "attach" THEN "enRead" ELSE "hostRead")
    /\ tmp' = [tmp EXCEPT ![c] = {}]
    /\ UNCHANGED <<rsrcdb, hostovr, chnenbl, regmutex, op, config, started, freed>>

ChnenblRead(c) ==
    /\ pc[c] = "enRead"
    /\ tmp' = [tmp EXCEPT ![c] = chnenbl[event[c]]]
    /\ Goto(c, "enWrite")
    /\ UNCHANGED <<rsrcdb, registers, regmutex, op, config, started, freed>>

(* The last register of attach and of release; attach then adds the OS     *)
(* event (and the regen callback) and returns.                             *)
ChnenblWrite(c) ==
    /\ pc[c] = "enWrite"
    /\ chnenbl' = [chnenbl EXCEPT ![event[c]] =
                     IF op[c] = "attach" THEN tmp[c] \cup {chan[c]}
                                         ELSE tmp[c] \ {chan[c]}]
    /\ IF op[c] = "attach"
         THEN op' = [op EXCEPT ![c] = "none"] /\ Goto(c, "attached")
         ELSE UNCHANGED op /\ Goto(c, "unlock")
    /\ tmp' = [tmp EXCEPT ![c] = {}]
    /\ UNCHANGED <<rsrcdb, evtovr, hostovr, regmutex, config, started, freed>>

HostovrRead(c) ==
    /\ pc[c] = "hostRead"
    /\ tmp' = [tmp EXCEPT ![c] = hostovr]
    /\ Goto(c, "hostWrite")
    /\ UNCHANGED <<rsrcdb, registers, regmutex, op, config, started, freed>>

HostovrWrite(c) ==
    /\ pc[c] = "hostWrite"
    /\ hostovr' = IF op[c] = "start" THEN tmp[c] \cup {chan[c]}
                                     ELSE tmp[c] \ {chan[c]}
    /\ Goto(c, IF op[c] = "release" THEN "enRead" ELSE "unlock")
    /\ tmp' = [tmp EXCEPT ![c] = {}]
    /\ UNCHANGED <<rsrcdb, evtovr, chnenbl, regmutex, op, config, started, freed>>

(***************************************************************************)
(* sdma_xfer_start, sdma_xfer_abort / sdma_xfer_complete, and              *)
(* sdma_channel_release.  A software-driven channel is started by a write  *)
(* to HSTART and has nothing to stop.                                      *)
(***************************************************************************)

XferCall(c) ==
    /\ pc[c] = "attached" /\ driven[c]
    /\ op' \in {[op EXCEPT ![c] = o] : o \in {"start", "stop"}}
    /\ Goto(c, "lock")
    /\ UNCHANGED <<rsrcdb, registers, regmutex, config, tmp, started, freed>>

(* Mutant of Release: rsrcdbmgr_detach is the first thing it does.         *)
ReleaseDetachFirst(c) ==
    /\ pc[c] = "attached"
    /\ op' = [op EXCEPT ![c] = "release"]
    /\ rsrcdb' = [rsrcdb EXCEPT ![chan[c]] = None]
    /\ Goto(c, "lock")
    /\ UNCHANGED <<registers, regmutex, config, tmp, started, freed>>

Release(c) ==
    /\ pc[c] = "attached"
    /\ op' = [op EXCEPT ![c] = "release"]
    /\ Goto(c, "lock")
    /\ UNCHANGED <<rsrcdb, registers, regmutex, config, tmp, started, freed>>

(* Mutant of Lock: start does not take the mutex.                          *)
LockMutant(c) ==
    /\ pc[c] = "lock"
    /\ IF op[c] = "start" THEN UNCHANGED regmutex
                          ELSE regmutex = None /\ regmutex' = c
    /\ Goto(c, IF op[c] = "release" THEN "evRead" ELSE "hostRead")
    /\ UNCHANGED <<rsrcdb, registers, op, config, tmp, started, freed>>

Lock(c) ==
    /\ pc[c] = "lock"
    /\ regmutex = None /\ regmutex' = c
    /\ Goto(c, IF op[c] = "release" THEN "evRead" ELSE "hostRead")
    /\ UNCHANGED <<rsrcdb, registers, op, config, tmp, started, freed>>

(* The end of the calls; abort may still fail to reload the context of a   *)
(* looping channel, which changes no register.                             *)
Unlock(c) ==
    /\ pc[c] = "unlock"
    /\ regmutex' = None
    /\ started' = [started EXCEPT ![c] = op[c] = "start"]
    /\ IF op[c] = "release" THEN Goto(c, "destroy") /\ UNCHANGED op
         ELSE Goto(c, "attached") /\ op' = [op EXCEPT ![c] = "none"]
    /\ UNCHANGED <<rsrcdb, registers, config, tmp, freed>>

(* callback_remove, event_remove, chan_destroy.                            *)
Destroy(c) ==
    /\ pc[c] = "destroy"
    /\ Goto(c, "detach")
    /\ UNCHANGED <<rsrcdb, registers, regmutex, op, config, tmp, started, freed>>

(***************************************************************************)

Step(c) ==
    \/ AttachNoMemory(c) \/ AttachCreate(c) \/ AttachFail(c) \/ AttachConfig(c)
    \/ EvtovrRead(c) \/ EvtovrWrite(c) \/ ChnenblRead(c) \/ ChnenblWrite(c)
    \/ HostovrRead(c) \/ HostovrWrite(c) \/ Lock(c) \/ Unlock(c)
    \/ Destroy(c) \/ Detach(c)

Next == \E c \in Clients : AttachReserve(c) \/ XferCall(c) \/ Release(c) \/ Step(c)

Spec == Init /\ [][Next]_vars

(***************************************************************************)
(* Properties                                                              *)
(***************************************************************************)

(* No update of HOSTOVR is lost: between calls, a driver's channel may run *)
(* exactly if its last call was xfer_start, whatever the other drivers did *)
(* to the register meanwhile; and a channel nobody holds never runs.  (As  *)
(* long as no driver has given back the channel of another.)               *)
HostovrExact ==
    ~misread =>
        /\ \A c \in Clients :
              pc[c] = "attached" => (chan[c] \in hostovr <=> started[c])
        /\ \A ch \in hostovr : \E c \in Clients : chan[c] = ch

(* No two drivers drive the same channel, and a channel in use is reserved. *)
(* api.c:472 takes a "free channel from resource database manager": it is  *)
(* free as long as nobody but its driver gives it back.                    *)
ChannelsExclusive ==
    \A c, d \in Clients : chan[c] # None =>
        rsrcdb[chan[c]] = Home[c] /\ (chan[d] = chan[c] => d = c)

(* The same in every interleaving of the drivers, of one or of several     *)
(* processes, in which no sdma_channel_release has taken the number of     *)
(* another driver's channel from memory it had already freed (api.c:580).  *)
ExclusiveUnlessMisread == ~misread => ChannelsExclusive

(* api.c:557, "deactivate dma-events, default to software triggered": a    *)
(* channel that nobody holds has its EVTOVR bit set.                       *)
DefaultSoftware ==
    \A ch \in Channels : (\A c \in Clients : chan[c] # ch) => ch \in evtovr

(***************************************************************************)
(* The inductive invariant behind HostovrExact and ExclusiveUnlessMisread:   *)
(* it holds until a driver gives back the channel of another.              *)
(***************************************************************************)

Locked(c) ==
    \/ pc[c] \in {"hostRead", "hostWrite", "unlock"}
    \/ pc[c] \in {"evRead", "evWrite", "enRead", "enWrite"} /\ op[c] = "release"

OpAt ==
    \A c \in Clients :
        /\ pc[c] \in {"idle", "attached"} => op[c] = "none"
        /\ pc[c] \in {"create", "config"} => op[c] = "attach"
        /\ pc[c] \in {"evRead", "evWrite", "enRead", "enWrite"} =>
              op[c] \in {"attach", "release"}
        /\ pc[c] \in {"lock", "hostRead", "hostWrite", "unlock"} =>
              op[c] \in {"start", "stop", "release"}
        /\ pc[c] = "destroy" => op[c] = "release"
        /\ pc[c] = "detach" => op[c] \in {"attach", "release"}
        /\ pc[c] = "idle" => chan[c] = None
        /\ chan[c] = None => pc[c] \in {"idle", "dead"}

RegMutexAt == \A c \in Clients : Locked(c) => regmutex = c

HostSnapshot == \A c \in Clients : pc[c] = "hostWrite" => tmp[c] = hostovr

(* What the HOSTOVR bit of a driver's channel must be at each point.       *)
HostBit(c) ==
    /\ (\/ pc[c] \in {"attached", "lock", "hostRead", "hostWrite"}
        \/ pc[c] \in {"evRead", "evWrite"} /\ op[c] = "release") =>
          (chan[c] \in hostovr <=> started[c])
    /\ pc[c] \in {"enRead", "enWrite"} /\ op[c] = "release" => chan[c] \notin hostovr
    /\ pc[c] = "unlock" => (chan[c] \in hostovr <=> op[c] = "start")
    /\ pc[c] \in {"idle", "create", "config", "destroy", "detach"} =>
          ~started[c] /\ chan[c] \notin hostovr
    /\ pc[c] # "dead" /\ op[c] = "attach" => ~started[c] /\ chan[c] \notin hostovr

IInv ==
    /\ TypeOK /\ OpAt /\ RegMutexAt /\ HostSnapshot /\ ChannelsExclusive
    /\ \A c \in Clients : HostBit(c)
    /\ \A ch \in hostovr : \E c \in Clients : chan[c] = ch

=============================================================================
