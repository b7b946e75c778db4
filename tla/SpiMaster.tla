----------------------------- MODULE SpiMaster ------------------------------
(***************************************************************************)
(* The SPI resource manager (spi/master) with the configuration table of   *)
(* the AM335x controller driver (spi/dm816x).                              *)
(*                                                                         *)
(* Clients open the device file of the bus and send messages that name a   *)
(* device on it, or no device, which means their default device.  A list   *)
(* of records says which client has locked which device.  One thread       *)
(* handles all messages, so that a handler is one step; only the loop that *)
(* unlocks a closing client's devices is taken record by record.           *)
(*                                                                         *)
(* The driver divides by numbers that clients configure.  The division     *)
(* routine it is linked with (__aeabi_idiv0 of the built spi-dm816x.so)    *)
(* answers a divisor of zero with an undefined instruction, which ends the *)
(* manager.                                                                *)
(***************************************************************************)
EXTENDS Integers, Sequences, SequencesExt

CONSTANTS
  Clients,    \* open control blocks
  Devices,    \* device numbers a message can name
  NumCs,      \* dev->num_cs: the devices the controller has
  None,       \* SPI_DEV_ID_NONE
  Configs,    \* configurations that clients can ask for
  FirstCfg,   \* the one of devlist[] at start
  MaxXlen,    \* bound on the length of a transfer in bytes
  XferMax,    \* 64 * 1024: programmed transfers are shorter
  MsgMax,     \* msg_max_size: longer transfers need the manager's buffer
  Nil

Flags     == SUBSET {"LOCK", "UNLOCK"}
Ids       == Devices \cup {None}
Present   == {d \in Devices : d < NumCs}
Records   == [owner : Clients, device : Ids]
Addresses == [id : Ids, flags : Flags]
Transfers == [client : Clients, named : BOOLEAN, device : Present,
              len : 0 .. MaxXlen]

\* A configuration, as far as anything depends on it: the character length in
\* the mode word, and whether the clock rate is not zero.  omap3_cfg replaces a
\* rate by one it can make, which is not zero either.
Configurations == [len : Nat, clocked : BOOLEAN]

\* (len + 7) >> 3: bytes of a word.
Bytes(len) == (len + 7) \div 8

\* omap3_cfg returns a control word for these word lengths.
Accepted(len) == len - 1 >= 4 /\ len - 1 <= 32
Programmable  == {len \in {cfg.len : cfg \in Configs} : Accepted(len)}

ASSUME SpiAssumption ==
  /\ Devices \subseteq Nat
  /\ NumCs \in Nat
  /\ None \notin Nat
  /\ Configs \subseteq Configurations
  /\ FirstCfg \in Configs /\ Accepted(FirstCfg.len) /\ FirstCfg.clocked
  /\ MaxXlen \in Nat /\ XferMax \in Nat /\ MsgMax \in Nat
  /\ Nil \notin Clients \cup Addresses \cup Transfers

VARIABLES
  locks,     \* drvhdl->lock: the list of lock records, newest first
  chip,      \* ocb->chip of each client, Nil while it has no control block
  closing,   \* the client whose devices are being unlocked, or Nil
  mode,      \* devlist[].cfg: the configuration last asked for
  ctrl,      \* devctrl[]: the word length as programmed into the controller
  buflen,    \* dev->buflen
  room,      \* the size of the allocation dev->buf points to
  bus,       \* the transfer the last message led to, or Nil
  down       \* a division by zero has ended the manager

config == <<mode, ctrl>>
buffer == <<buflen, room>>
vars   == <<locks, chip, closing, config, buffer, bus, down>>

Init ==
  /\ locks = <<>>
  /\ chip = [c \in Clients |-> Nil]
  /\ closing = Nil
  /\ mode = [d \in Present |-> FirstCfg]
  /\ ctrl = [d \in Present |-> FirstCfg.len]
  /\ buflen = 0 /\ room = 0
  /\ bus = Nil /\ down = FALSE

-----------------------------------------------------------------------------
(* The lock list.                                                           *)

\* _spi_islock: the records that lock a device.
RecordsOf(id) == {i \in DOMAIN locks : locks[i].device = id}
Locked(id)    == RecordsOf(id) # {}
OwnedBy(c, id) == \E i \in RecordsOf(id) : locks[i].owner = c

\* Mutant: the owner is not compared.
ReleasableByAll(c, id) ==
  {i \in DOMAIN locks : id = None \/ locks[i].device = id}

\* _spi_unlock_dev looks for these records; the device number None stands
\* for any device.
Releasable(c, id) ==
  {i \in DOMAIN locks : locks[i].owner = c /\ (id = None \/ locks[i].device = id)}

Unlock(c, id) ==
  \E i \in Releasable(c, id) :
    /\ \A j \in Releasable(c, id) : i <= j
    /\ locks' = RemoveAt(locks, i)

LockDev(c, id) == locks' = <<[owner |-> c, device |-> id]>> \o locks

\* Mutants: the owner of a locked device is not compared; a lock request is
\* granted without looking for a record.
GrantedToAll(c, a) ==
  IF Locked(a.id)
  THEN IF "UNLOCK" \in a.flags THEN Unlock(c, a.id) ELSE UNCHANGED locks
  ELSE IF "LOCK" \in a.flags THEN LockDev(c, a.id)
  ELSE "UNLOCK" \notin a.flags /\ UNCHANGED locks

GrantedAgain(c, a) ==
  IF "LOCK" \in a.flags THEN LockDev(c, a.id)
  ELSE IF Locked(a.id)
  THEN /\ OwnedBy(c, a.id)
       /\ IF "UNLOCK" \in a.flags THEN Unlock(c, a.id) ELSE UNCHANGED locks
  ELSE "UNLOCK" \notin a.flags /\ UNCHANGED locks

\* _spi_lock_check when it returns EOK.
Granted(c, a) ==
  IF Locked(a.id)
  THEN /\ OwnedBy(c, a.id)
       /\ IF "UNLOCK" \in a.flags THEN Unlock(c, a.id) ELSE UNCHANGED locks
  ELSE IF "LOCK" \in a.flags THEN LockDev(c, a.id)
  ELSE "UNLOCK" \notin a.flags /\ UNCHANGED locks

\* _spi_lock_check when it returns EPERM, EINVAL or, if there is no memory for
\* a record, ENOMEM.
Refused(c, a) ==
  /\ IF Locked(a.id) THEN ~OwnedBy(c, a.id) ELSE a.flags # {}
  /\ UNCHANGED locks

-----------------------------------------------------------------------------
(* Opening and closing.                                                     *)

Serving(c) == closing = Nil /\ chip[c] # Nil

\* The message leads to no transfer; the manager divides by zero.
NoUse == bus' = Nil /\ UNCHANGED down
Dies  == bus' = Nil /\ down' = TRUE

\* _spi_ocb_calloc
Open(c) ==
  /\ closing = Nil /\ chip[c] = Nil
  /\ chip' = [chip EXCEPT ![c] = [id |-> None, flags |-> {}]]
  /\ NoUse
  /\ UNCHANGED <<locks, closing, config, buffer>>

\* _spi_close_ocb: unlock until there is nothing left to unlock.
Close(c) ==
  /\ Serving(c)
  /\ closing' = c /\ NoUse
  /\ UNCHANGED <<locks, chip, config, buffer>>

CloseUnlock(c) ==
  /\ closing = c
  /\ Unlock(c, None)
  /\ NoUse
  /\ UNCHANGED <<chip, closing, config, buffer>>

\* Mutant: one device is unlocked and not the others.
CloseDoneAfterOne(c) ==
  /\ closing = c
  /\ chip' = [chip EXCEPT ![c] = Nil]
  /\ closing' = Nil /\ NoUse
  /\ UNCHANGED <<locks, config, buffer>>

CloseDone(c) ==
  /\ closing = c
  /\ Releasable(c, None) = {}
  /\ chip' = [chip EXCEPT ![c] = Nil]
  /\ closing' = Nil /\ NoUse
  /\ UNCHANGED <<locks, config, buffer>>

-----------------------------------------------------------------------------
(* Transfers.                                                               *)

\* Mutant: the device number is not compared with num_cs.
XferAnyDevice(c, named, d, n) ==
  /\ bus' = [client |-> c, named |-> named, device |-> d, len |-> n]
  /\ UNCHANGED down

\* The length is a whole number of words as configured.
Divides(d, n) == Bytes(mode[d].len) # 0 /\ n % Bytes(mode[d].len) = 0

\* By the bytes of a word, which the configuration may give as none, and for a
\* length that they divide by the clock rate.
DividesByZero(d, n) ==
  Bytes(mode[d].len) = 0 \/ (Divides(d, n) /\ ~mode[d].clocked)

\* omap3_xfer: a device the controller does not have and a length that is no
\* multiple of the word as configured are rejected.
Xfer(c, named, d, n) ==
  \/ d \notin Present /\ NoUse
  \/ d \in Present /\ DividesByZero(d, n) /\ Dies
  \/ d \in Present /\ ~DividesByZero(d, n) /\ ~Divides(d, n) /\ NoUse
  \/ /\ d \in Present /\ ~DividesByZero(d, n) /\ Divides(d, n)
     /\ bus' = [client |-> c, named |-> named, device |-> d, len |-> n]
     /\ UNCHANGED down

\* A transfer longer than the message buffer takes dev->buf, which grows; when
\* there is no memory, there is no transfer and no buffer.
NeedsBuffer(n) == n > MsgMax

Grow(n) ==
  IF NeedsBuffer(n) /\ buflen < n
  THEN buflen' = n /\ room' = n
  ELSE UNCHANGED buffer

\* Mutant: buflen is not reset.
NoMemoryStale(n) ==
  /\ NeedsBuffer(n) /\ buflen < n
  /\ buflen' = n /\ room' = 0

NoMemory(n) ==
  /\ NeedsBuffer(n) /\ buflen < n
  /\ buflen' = 0 /\ room' = 0

NoTransfer == NoUse /\ UNCHANGED buffer

\* _spi_read, _spi_write and the messages of _spi_iomsg after the lock check.
\* An empty one is answered at once, except for the combined write and read;
\* data may fail to arrive when the buffer is there already (EFAULT), and the
\* driver refuses what its word counter cannot hold.
Transfer(c, named, d, least) ==
  \/ NoTransfer
  \/ \E n \in least .. MaxXlen :
       \/ NoMemory(n) /\ NoUse
       \/ Grow(n) /\ (NoUse \/ (n < XferMax /\ Xfer(c, named, d, n)))

\* DMA transfers use the client's memory.  There is none while EDMA is off, and
\* an empty one is answered at once if it names an address.
DmaTransfer(c, named, d) ==
  \/ NoTransfer
  \/ \E n \in 0 .. MaxXlen : Xfer(c, named, d, n) /\ UNCHANGED buffer

\* _spi_read and _spi_write: the lock of the default device is checked, with
\* the flags it was set with, and the default device is used.
ReadWrite(c) ==
  /\ Serving(c)
  /\ \/ Refused(c, chip[c]) /\ NoTransfer
     \/ Granted(c, chip[c]) /\ Transfer(c, TRUE, chip[c].id, 1)
  /\ UNCHANGED <<chip, closing, config>>

\* The device a message means: ocb->chip when it names none.
Target(c, a) == IF a.id = None THEN chip[c].id ELSE a.id

\* _spi_iomsg: the lock of the device as named is checked.
IoMsg(c, a) ==
  /\ Serving(c)
  /\ \/ Refused(c, a) /\ NoTransfer
     \/ /\ Granted(c, a)
        /\ \/ Transfer(c, a.id # None, Target(c, a), 0)
           \/ DmaTransfer(c, a.id # None, Target(c, a))
  /\ UNCHANGED <<chip, closing, config>>

-----------------------------------------------------------------------------
(* DCMD_SPI_SET_CONFIG: no lock is checked.                                 *)

\* omap3_setcfg: the table is written before omap3_cfg judges the length, and
\* divides by the rate if it accepts it.
SetCfg(d, cfg) ==
  \/ d \notin Present /\ UNCHANGED <<config, down>>
  \/ /\ d \in Present
     /\ mode' = [mode EXCEPT ![d] = cfg]
     /\ \/ ~Accepted(cfg.len) /\ UNCHANGED <<ctrl, down>>
        \/ Accepted(cfg.len) /\ ~cfg.clocked /\ down' = TRUE /\ UNCHANGED ctrl
        \/ /\ Accepted(cfg.len) /\ cfg.clocked
           /\ ctrl' = [ctrl EXCEPT ![d] = cfg.len] /\ UNCHANGED down

\* A mode word of zero leaves the configuration alone; one with flags and no
\* character length does not.
Devctl(c, a, default) ==
  /\ Serving(c)
  /\ a.id # None
  /\ chip' = IF default THEN [chip EXCEPT ![c] = a] ELSE chip
  /\ UNCHANGED <<config, down>> \/ \E cfg \in Configs : SetCfg(a.id, cfg)
  /\ bus' = Nil
  /\ UNCHANGED <<locks, closing, buffer>>

-----------------------------------------------------------------------------
Next == ~down /\ \E c \in Clients :
  \/ Open(c) \/ Close(c) \/ CloseUnlock(c) \/ CloseDone(c)
  \/ ReadWrite(c)
  \/ \E a \in Addresses :
       IoMsg(c, a) \/ \E default \in BOOLEAN : Devctl(c, a, default)

Spec == Init /\ [][Next]_vars

-----------------------------------------------------------------------------
(* Properties.                                                              *)

\* The type invariant.  What the controller is programmed with has been
\* accepted; what devlist holds need not have been.
TypeOK ==
  /\ locks \in Seq(Records)
  /\ chip \in [Clients -> Addresses \cup {Nil}]
  /\ closing \in Clients \cup {Nil}
  /\ mode \in [Present -> Configs]
  /\ ctrl \in [Present -> Programmable]
  /\ buflen \in 0 .. MaxXlen /\ room \in 0 .. MaxXlen
  /\ bus \in Transfers \cup {Nil}
  /\ down \in BOOLEAN

\* The list never holds two records for one device, so that the first one
\* _spi_islock finds is the only one: every path that adds a record has
\* looked for one.
OneRecordPerDevice ==
  \A i, j \in DOMAIN locks : locks[i].device = locks[j].device => i = j

\* No lock outlives its client: the owner of every record is connected (its
\* pointer is compared with those of later clients).
OwnersAreConnected == \A i \in DOMAIN locks : chip[locks[i].owner] # Nil

\* dev->buflen is the size of what dev->buf points to, also after an
\* allocation has failed: a later transfer trusts it.
BufferIsBacked == buflen = room

\* A client that reads, writes or names the device in its message uses it only
\* while no other client has it locked.  (A message that names no device is
\* checked against the lock of device None and then uses the default device.)
LockedOutStaysOut ==
  [][bus' # Nil /\ bus'.named
       => \A i \in DOMAIN locks' :
            locks'[i].device = bus'.device => locks'[i].owner = bus'.client]_vars

\* The invariant of the proofs.
IInv == TypeOK /\ OneRecordPerDevice /\ OwnersAreConnected

-----------------------------------------------------------------------------
(* The list implements the abstract locks.                                  *)

OwnerIn(list, id) ==
  IF \E i \in DOMAIN list : list[i].device = id
  THEN list[CHOOSE i \in DOMAIN list : list[i].device = id].owner
  ELSE Nil

Abs == INSTANCE DeviceLocks WITH
  Devices <- Ids,
  open  <- {c \in Clients : chip[c] # Nil},
  owner <- [id \in Ids |-> OwnerIn(locks, id)],
  use   <- IF bus = Nil THEN Nil
           ELSE [client |-> bus.client, device |-> bus.device, named |-> bus.named]

\* The promise of DeviceLocks: locks change hands only through their owner,
\* and a message changes at most one of them.
ImplementsLocks == Abs!Spec
=============================================================================
