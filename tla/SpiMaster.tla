----------------------------- MODULE SpiMaster ------------------------------
(***************************************************************************)
(* The resource manager of an SPI interface (spi/master): connections      *)
(* (ocb), the default device of each, the list of device locks, and the    *)
(* handlers of read, write, devctl, SPI messages and close.                *)
(*                                                                         *)
(* An interface has one thread (_spi_driver_thread), so a handler is one   *)
(* step; what is hard is the sequence of requests of several clients.  The *)
(* transfer itself is EcSpi's.                                             *)
(***************************************************************************)
EXTENDS SequencesExt

CONSTANTS
    Clients,      \* connections that may be open
    NDev,         \* the driver knows the devices 0..NDev - 1
    Nobody,
    DefaultMsgs   \* clients send SPI messages to SPI_DEV_ID_NONE

ASSUME SpiAssumption ==
    /\ NDev \in Nat \ {0} /\ DefaultMsgs \in BOOLEAN
    /\ Nobody \notin Clients \cup Int

Devices == 0..(NDev - 1)
NONE == NDev               \* SPI_DEV_ID_NONE: the driver has no such device
Ids == Devices \cup {NONE}

VARIABLES
    open,    \* connections that are open
    chip,    \* ocb->chip: the default device with its flag bits
    lock,    \* drvhdl->lock: the list of locks, newest first
    used     \* history: the last transfer, and who held its device

vars == <<open, chip, lock, used>>

(* A device number with the bits SPI_DEV_LOCK and SPI_DEV_UNLOCK.          *)
Device == [id : Ids, flags : SUBSET {"lock", "unlock"}]
Lock == [owner : Clients, device : Ids]

TypeOK ==
    /\ open \subseteq Clients
    /\ chip \in [Clients -> Device]
    /\ lock \in Seq(Lock)
    /\ used \in [by : Clients \cup {Nobody}, dev : Ids \cup {Nobody}, n : {0, 1},
                 held : Clients \cup {Nobody}]

Init ==
    /\ open = {}
    /\ chip = [c \in Clients |-> [id |-> NONE, flags |-> {}]]
    /\ lock = <<>>
    /\ used = [by |-> Nobody, dev |-> Nobody, n |-> 0, held |-> Nobody]

(***************************************************************************)
(* _spi_devlock.c                                                          *)
(***************************************************************************)

(* The owner of the first lock of device d in list l, or Nobody.           *)
islock(l, d) ==
    LET at == {k \in DOMAIN l : l[k].device = d}
    IN  IF at = {} THEN Nobody ELSE l[Min(at)].owner

(* Mutant: lock->owner is not set.                                         *)
lock_dev_mutant(l, d, c) ==
    {[err |-> "EOK", list |-> <<[owner |-> Nobody, device |-> d]>> \o l]}

(* Locking can fail for want of memory: the set of the possible results.   *)
lock_dev(l, d, c) ==
    {[err |-> "EOK", list |-> <<[owner |-> c, device |-> d]>> \o l],
     [err |-> "ENOMEM", list |-> l]}

(* The owner's newest lock of d, or its newest of any device if d is NONE. *)
unlock_dev(l, d, c) ==
    LET at == {k \in DOMAIN l : (l[k].device = d \/ d = NONE) /\ l[k].owner = c}
    IN  IF at = {} THEN [err |-> "ENODEV", list |-> l]
        ELSE [err |-> "EOK", list |-> RemoveAt(l, Min(at))]

lock_check(l, dev, c) ==
    LET owner == islock(l, dev.id)
        same(e) == {[err |-> e, list |-> l]}
    IN  CASE owner = c /\ "unlock" \in dev.flags -> {unlock_dev(l, dev.id, c)}
          [] owner = c /\ "unlock" \notin dev.flags -> same("EOK")
          [] owner \notin {c, Nobody} -> same("EPERM")
          [] owner = Nobody /\ "lock" \in dev.flags -> lock_dev(l, dev.id, c)
          [] owner = Nobody /\ "lock" \notin dev.flags ->
                 same(IF "unlock" \in dev.flags THEN "EINVAL" ELSE "EOK")

(***************************************************************************)
(* Requests                                                                *)
(***************************************************************************)

(* What xfer on device d leaves in used; the driver refuses an unknown d.  *)
Transfer(c, d, l) ==
    IF d \notin Devices THEN used
    ELSE [by |-> c, dev |-> d, n |-> 1 - used.n, held |-> islock(l, d)]

(* After the lock check: no data, no memory or unreadable data end the     *)
(* request without a transfer, but with what the check did to the locks.   *)
Checked(c, dev, d) ==
    \E r \in lock_check(lock, dev, c) :
        /\ lock' = r.list
        /\ \/ r.err = "EOK" /\ used' = Transfer(c, d, r.list)
           \/ UNCHANGED used
        /\ UNCHANGED <<open, chip>>

(* _spi_iomsg: the lock of the device named in the message is checked;     *)
(* read, write, xchange, cmdread and dmaxchange then take the default      *)
(* device if the message names none.                                       *)
iomsg(c, dev) ==
    /\ c \in open /\ (dev.id = NONE => DefaultMsgs)
    /\ Checked(c, dev, IF dev.id = NONE THEN chip[c].id ELSE dev.id)

(* _spi_read and _spi_write: the default device, whose lock is checked.    *)
read_write(c) == c \in open /\ Checked(c, chip[c], chip[c].id)

(* _spi_devctl, DCMD_SPI_SET_CONFIG with SPI_DEV_DEFAULT: the new default  *)
(* device is kept even if the driver then refuses the configuration.       *)
set_config(c, dev) ==
    /\ c \in open /\ dev.id # NONE
    /\ chip' = [chip EXCEPT ![c] = dev]
    /\ UNCHANGED <<open, lock, used>>

LockedByOther(c, d) == islock(lock, d) \notin {Nobody, c}

(* The device that mx51_devinfo describes: the one asked for, if it is     *)
(* marked SPI_DEV_DEFAULT, or else the next one.                           *)
devinfo(id, default) ==
    IF default THEN id ELSE IF id = NONE THEN 0 ELSE id + 1

(* The reply to DCMD_SPI_GET_DEVINFO: a description and SPI_MODE_LOCKED.   *)
get_devinfo(c, id, default) ==
    [dev |-> devinfo(id, default), locked |-> LockedByOther(c, id)]

(* _spi_ocb_calloc: the connection is fresh, with no default device.       *)
Open(c) ==
    /\ c \notin open
    /\ open' = open \cup {c}
    /\ UNCHANGED <<chip, lock, used>>

(* Mutants: one call instead of the loop; locks of others go, too.         *)
OneLockGone(l, c) == unlock_dev(l, NONE, c).list
AllLocksGone(l, c) == <<>>

(* _spi_close_ocb: unlock NONE until there is nothing left to unlock.  The *)
(* other locks stay, in their order.                                       *)
OwnLocksGone(l, c) ==
    LET kept == {k \in DOMAIN l : l[k].owner # c}
        at(j) == CHOOSE k \in kept : Cardinality({m \in kept : m <= k}) = j
    IN  [j \in 1..Cardinality(kept) |-> l[at(j)]]

close_ocb(c) ==
    /\ c \in open
    /\ open' = open \ {c}
    /\ lock' = OwnLocksGone(lock, c)
    /\ chip' = [chip EXCEPT ![c] = [id |-> NONE, flags |-> {}]]
    /\ UNCHANGED used

Next ==
    \E c \in Clients :
        \/ Open(c)
        \/ close_ocb(c)
        \/ read_write(c)
        \/ \E dev \in Device : iomsg(c, dev) \/ set_config(c, dev)

Spec == Init /\ [][Next]_vars

(***************************************************************************)
(* Properties                                                              *)
(***************************************************************************)

(* The list holds one lock per device at most, and every lock belongs to   *)
(* an open connection: _spi_lock_check never adds a second one, and        *)
(* _spi_close_ocb leaves none behind, so that no device is locked for ever *)
(* by a client that is gone.                                               *)
LocksOwned ==
    /\ \A j, k \in DOMAIN lock : j # k => lock[j].device # lock[k].device
    /\ \A k \in DOMAIN lock : lock[k].owner \in open

Holder == [d \in Ids |-> islock(lock, d)]

LockSpec == INSTANCE SpiLockSpec
            WITH Devices <- Ids, holder <- Holder,
                 used <- [by |-> used.by, dev |-> used.dev, n |-> used.n]

(* The list of locks implements the abstract lock: a request gets at a     *)
(* device only if nobody else holds it, and only the holder or its close   *)
(* gives it up (_spi_devlock.c).                                           *)
LockSpecImplemented == LockSpec!Spec

(* No transfer is made on a device that another client has locked          *)
(* (SPI_DEV_LOCK), the ones to the default device included.                *)
LockRespected == used.held \in {Nobody, used.by}

(* SPI_MODE_LOCKED in the reply of a devctl says of the device that the    *)
(* reply describes whether another client has locked it.                   *)
LockedFlagRight ==
    \A c \in open, id \in Ids, default \in BOOLEAN :
        LET reply == get_devinfo(c, id, default)
        IN  reply.dev \in Devices => reply.locked = LockedByOther(c, reply.dev)
=============================================================================
