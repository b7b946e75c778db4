# Verification of the BeagleBone Black BSP drivers

The repository is a QNX board support package: startup code, a dozen device
drivers and their prebuilt images. This directory holds TLA+ models of the
drivers' concurrent logic, the TLC configurations that check them, and TLAPS
proofs about them. It covers the parts in which the concurrency is: the two rings
of the Ethernet driver (`devnp/dm814x`: CPSW switch with its CPDMA engine), the SPI
resource manager and the SPI controller below it (`spi`), the I2C controller
(`i2c/omap35xx`) and the requests of the MMC/SD block driver (`devb/mmcsd`). All
paths below are relative to `src/src/hardware` unless they start with `src/`.

## 1. Inventory

| component | state it keeps | operations | interacts with | hard behaviour | correct when |
|---|---|---|---|---|---|
| **CPSW transmit** `devnp/dm814x/transmit.c`, `event.c` | ring of 16 descriptors per queue (`tx_desc`), `tx_mbuf`, `tx_pidx`, `tx_cidx`, `tx_q_len`, `if_snd`, `IFF_OACTIVE`, `tx_reaped` | `ti814x_start`, `ti814x_output`, `ti814x_tx`, `ti814x_reap_pkts`, `ti814x_process_tx_interrupt` | io-pkt calls it under `if_snd_ex`; shares descriptors and `TXn_HDP` with the DMA engine; link callback and timer call into it | appending to a chain the engine is reading (misqueue); interrupt races; unlocked reads | order kept, nothing lost, nothing freed early, no stall |
| **CPSW receive** `receive.c`, `event.c` | ring of 96 descriptors per channel, `rx_cidx`, `rx_tail`, `rx_queue`, `rx_running`, `rx_full` | `ti814x_isr`, `ti814x_receive`, `ti814x_process_interrupt`, `ti814x_enable_interrupt` | DMA engine, a pulse to the receive thread, `rx_queue` and `rx_mutex` to the stack thread | extending a chain under a running engine; flow control; retiring stack thread | order kept, engine never overruns, no frame forgotten |
| CPSW lifecycle `ti814x.c`, `timer.c` | `if_flags`, `cfg`, the descriptors' initial contents | attach, init, stop, reset, detach | everything above | `ti814x_stop` reaps without the lock | rings usable after stop and init |
| CPSW link `mii.c`, `bsd_media.c`, `emu_phy.c` | `linkup`, `cfg.flags` | link callback, three-second timer | calls `ti814x_start`, `ti814x_reap_pkts` | reads `tx_q_len`, `tx_reaped` without the lock | transmission goes on after the link comes back |
| CPSW address table `ale.c` | hardware table | add, search, delete | ioctl | none (register I/O) | table matches the requests |
| CPSW PTP `ptp.c` | `upper_ptp_time`, `half_rollover`, three timestamp buffers | interrupt handler, get/set time, get timestamps | interrupt handler and ioctl threads | 32-bit rollover against set-time; buffers shared without a lock | time is monotone between settings, a timestamp goes to its requester |
| CPSW devctl `devctl.c` | none | read counters and PHY registers | ioctl | none | - |
| **SPI manager** `spi/master` | list of device locks, default device of each client, `devlist`, one message buffer | open, close, read, write, five messages, devctls | clients through the resource manager; calls the controller driver in its only thread | a lock outliving its client, calls that do not check, allocation that fails, configurations that divide by zero | one owner per device, which is connected; only the owner uses it; `buflen` is what was allocated |
| **SPI controller** `spi/dm816x` | exchange in progress (`rlen`, `tlen`, `xlen`), status bits, pulses | `omap3_xfer`, `omap3_dmaxfer`, `omap3_wait`, `spi_intr`, EDMA event | SPI manager, EDMA engine | handler and thread read one FIFO; completion against timeout; EDMA pulse of an earlier exchange; a timeout that reads EDMA registers | each word stored once; one completion per exchange; every call ends |
| **I2C** `i2c/omap35xx` | `xlen`, `status`, `intexpected`, `re_start`, pulses | `omap_send`, `omap_recv`, `i2c_intr`, waits, resets | i2c manager, other masters and devices on the bus | late completion pulse after a timeout; the last bytes below the threshold; faults | a transfer reported done is whole; a wait ends with its own transfer |
| **MMC/SD** `devb/mmcsd` | CAM queue and nexus, `state`, identification, stop and retry counts, offsets | driver thread, control thread, host interrupt | CAM (not in the tree), controller, card | a reset of the control thread against the driver thread; stops that fail; waits that take pulses of others | each request answered once, truthfully; the card is ready for each command |
| Serial `devc/seromap` | output buffer, interrupt enables, event queue | interrupt, `tto` | io-char (not in the tree) | output restart after flow control (`tto.c:94`, `:121`); LCR with DLAB set and IER read-modify-write against the handler | output never stops with data pending |
| Audio, USB device, LEDs, board id, watchdog, RTC, startup | see `PROJECT.json` | | | sequential, or the state is in a library outside the tree | - |

`src/images`, `src/install` and `src/prebuilt` hold build products and the vendor's
headers, and nothing to model.

## 2. Modules

| module | models | extends |
|---|---|---|
| `PacketPipe` | what a direction of the driver promises: packets wait in order, are committed or dropped from the front, committed packets are delivered in order and never dropped | - |
| `CpswTx` | one transmit channel: software, interrupt, link callback, timer, DMA engine | refines `PacketPipe` |
| `CpswRx` | one receive channel and its interface: interrupt, receive thread, stack thread, DMA engine | refines `PacketPipe` |
| `DeviceLocks` | what the SPI manager promises: a device has one owner, which is connected; who names a device uses it only while no other client owns it | - |
| `SpiMaster` | the SPI resource manager and the configuration table of the controller driver | refines `DeviceLocks` |
| `SpiXfer` | one exchange at a time on the AM335x SPI controller: thread, handler, EDMA, timeouts | - |
| `I2cTransfer` | one I2C transfer at a time: thread, handler, bus, faults, resets | - |
| `MmcRequest` | the requests of the MMC/SD driver: driver thread, control thread, controller, card | - |
| `CpswTxProofs`, `CpswRxProofs`, `SpiMasterProofs`, `SpiXferProofs`, `I2cTransferProofs`, `MmcRequestProofs` | TLAPS proofs about the module they are named after | that module |
| `DataLemmas` | lemmas about least numbers, and about a queue with a packet in hand before it | used by the proofs of `CpswTx` and `CpswRx` |
| `MCCpswTx`, `MCCpswRx`, `MCSpiMaster`, `MCSpiXfer`, `MCI2cTransfer`, `MCMmcRequest` | sets, symmetry and views for TLC | that module |

`SpiMaster` and `SpiXfer` meet at the call of the controller driver: the manager
has one thread, so that a transfer is one step of `SpiMaster`, and `SpiXfer` shows
what happens inside it.

`map` in `PROJECT.json` names the lines each definition translates.

### CpswTx and the code

The driver has 8 transmit channels, 4 queues for each of two interfaces; they share no
state but the lock, so that one channel is modelled and `Queue` selects how it is
fed: queue 0 by the stack through `if_snd` and `ti814x_start`, queues 1 to 3 by
`ti814x_output`. Descriptor addresses are slot numbers; a descriptor keeps its
flags OWN, SOP, EOP and EOQ and its `next` pointer. Lengths, ports, statistics,
padding and BPF taps are left out. A packet is a model value that becomes 1 to
`DefragLimit` descriptors.

All software but the unlocked reads runs under `if_snd_ex`, so `owner` and `pc`
are one program counter for its holder. `ti814x_tx` takes three steps: build and
append (`TxBuild`; the engine can observe nothing of it before the append),
read the register (`TxReadHdp`), test EOQ and write the register (`TxKick`). The
interrupt handler takes: lock, acknowledge, test of the register, scan, restart,
unlock, unmask. `Goto` and `Unlock` carry the control flow between them; the
interrupt is unmasked after the handler has returned, as io-pkt does.

The DMA engine is external. It is modelled as the driver relies on it and as
CPDMA is documented: it walks a packet's descriptors, latches the `next` pointer
at the end of the packet, writes the flags of the packet back (OWN off at its
start; EOQ at its end when the latched pointer was null), then moves HDP and
raises the interrupt. These are separate steps because every misqueue lies
between them.

For the refinement, the packets of the ring are read as a sequence: `Ranked(S, c, i)`
is slot number `i` of the set `S` counted in ring order from slot `c`, and `Committed` is
what the slots of unsent packets hold in that order.

### CpswRx and the code

One channel and one interface. `pc` is the receive thread inside
`ti814x_receive`, `stack` the stack thread. A descriptor has OWN, EOQ, `next` and
the frame it holds. `RxDivert` stands for both ways a frame leaves without
`rx_queue`: no replacement buffer (the old one is re-armed) and an AVB frame
that goes straight up. The shuffle is two steps (`RxCut`, `RxLink`), each visible
to the engine. `mutex` says that the stack thread kept `rx_mutex` from the empty
queue to `ti814x_enable_interrupt`, the only place where it is held between
steps. The engine latches `next` before it writes back, and writes flags, HDP and CP in
one step: the driver takes EOQ in the flags for an engine that has stopped, and
restarts it without reading HDP. `Filled` counts the slots that hold a frame, from
`rx_cidx` on; `Waiting` is the frame in hand and what those slots hold.

### SpiMaster and the code

One thread handles all messages (`_spi_main.c`), so that a handler is one step.
Only the loop that unlocks a closing client's devices is taken record by record
(`CloseUnlock`, `CloseDone`): that no step of it leaves a lock to a client that is
gone is then part of what is checked. `locks` is the list `drvhdl->lock`, newest
record first, as `_spi_lock` inserts it; the model keeps the list although
`DeviceLocks` needs a function only, because the code's walks stop at the first
record. A message that names no device is checked against the lock of device
None and then uses the client's default device: this is the code's
(`_spi_iomsg.c:37`), and the abstract specification excepts it (`named`).
Reads and writes on a device the controller does not have fail.

DCMD_SPI_SET_CONFIG checks no lock, and a configuration the controller rejects
stays in `devlist` (`mode` against `ctrl`: `omap3spi.c:438`). A configuration is its
word length and whether its clock rate is zero, the two things anything depends on.
The length may be 0, since `_spi_devctl.c:63` tests the whole mode word; the next
transfer then divides by it (`omap3spi.c:507`, `:631`), and by the rate if it gets so
far (`:522`). So does an accepted configuration with rate 0 (`config.c:76`). The
processor has no integer division; the library routine the built driver contains
(`__aeabi_idiv0` of `arm/dll.le.v7/spi-dm816x.so`) is an undefined instruction, which
ends the manager: `Dies` sets `down`, after which nothing happens.

### SpiXfer and the code

The unit is the word. The thread goes from `wait` to `last` (the words still in
the FIFO after the pulse: polled for once), `drain` (one word at a time) and `finish`. The handler is one step: it takes the channel with the lowest number
whose status bits are set, which need not be the one in use. `stored` keeps which
word of the wire went to which place of the buffer, so that a word stored twice,
skipped or read from an empty FIFO shows. Two variables are history: `clean`
says that the exchange began with nothing left over and did not time out, `late`
that some wait has timed out. The controller raises its interrupts, or fails
to, when it likes; a wait of a length other than 0 may time out at any moment.

`mapped` says that EDMA is on. While it is off, `omap3_dmaxfer` returns at once, and a
timeout is in danger: to report it, `omap3_wait` reads the counts of the EDMA channel
through `edmavbase` (`wait.c:39`), which is 0 then, or an address unmapped again by
`omap3_init_edma`. `Timeout` is the wait that returns -1 (EDMA on, or something else
happens to be mapped there), `TimeoutFault` the one that ends the manager (`pc = "dead"`).
An EDMA exchange of length 0 gets past all checks; `CountsFor` is what
`omap3_setup_edma` programs for it, which one request brings to zero.

### I2cTransfer and the code

Bytes are counted and not named: they are in the caller's buffer (`xlen`), in the
FIFO, or still to come on the bus (`cnt`). `i2c_intr` is one step: the thread
shares its processor, it clears the status bits it has read, and what rises
meanwhile raises the next interrupt. `bus` is the phase of the wire: moving, refused, stopping, held
between two transfers, free, in another master's hands, or stuck. The controller
refuses an address, loses arbitration, overruns or stalls when it likes. `clean`
is as above; `cut` says that a client has reset the bus since the last transfer.
A transfer may find pulses of earlier ones on the channel.

The count register has 16 bits, and 0 in it means 65536 bytes (`CntMax`): `Count` is what
the controller moves of a length, and `beyond`, which is history, the bytes it was not
told of. The handler counts with the whole length. A prefill longer than the count leaves
bytes in the transmit FIFO.

### MmcRequest and the code

The model is of the board's soldered card: option `nocd` (no removal), one
unprotected partition, DMA into one contiguous buffer. The driver thread takes one
pulse at a time and looks at the queue after each; the control thread (`starter`)
boots the card and resets it when asked, and stores the state it needs after it
has sent the first command (`StoreIdent`, `sim.c:487`). The queue of requests is
the CAM library's, the controller and the card are the hardware's: `hw` is the
command under way and how it ended, `open` whether the card is inside a
multi-block transfer. `moved` is history: which block of the card each block of a
request went to or came from, in order. So are `earlier` (the reads and writes
accepted before a request and not yet answered) and `overtaken` (the state of an
identification was stored too late: its first interrupt had been thrown away, or it
had ended).
`MaxDma` bounds the blocks of one command: the setup of `sim_omap3.c` takes all
it is given, `mmc_dma_rw` is written to go on if a host takes less.

## 3. Runs

| run | checks | bounds |
|---|---|---|
| `tx_queue0` | all safety properties, the inductive invariant and the refinement of `PacketPipe`, queue 0, link drops | 4 descriptors, packets of 1 or 2, 3 packets, 1 in `if_snd` |
| `tx_fair` | restart and delivery, link up | 3 descriptors, packets of 1, 3 packets |
| `tx_output` | a priority queue, delivery | 4 descriptors, packets of 1 or 2, 3 packets |
| `tx_link_flap` | violated: `StartWillRun` with link drops | as `tx_queue0` |
| `rx_ring` | all safety properties, the inductive invariant and the refinement, with flow control | 4 descriptors, `rx_queue` of 2, 2 pulses, 6 frames |
| `rx_fair` | delivery without flow control | 3 descriptors, `rx_queue` of 2, 5 frames |
| `rx_flow_stall` | violated: `FramesAreNoticed` with flow control | 3 descriptors, 1 pulse |
| `rx_flow_overflow` | violated: `QueueNeverOverflows` with flow control | 3 descriptors, 2 pulses |
| `spi_master` | locks, buffer and the refinement of `DeviceLocks` | 2 clients, 2 devices of which the controller has 1, word lengths 0, 4 and 16, with and without a clock rate, transfers of up to 2 bytes, buffer needed above 1 |
| `spi_xfer` | exchanges by programmed I/O and EDMA, timeouts, end of every call | FIFO of 2 words, 2 chip selects, lengths 0, 3 and 4, EDMA on and off, 1 pulse left over |
| `i2c_transfer` | transfers with faults, timeouts and resets | threshold 2 (FIFO of 4), a count of up to 7, lengths 1, 2, 5, 7, 8 and 10, 2 pulses left over |
| `mmc_request` | truth of answers, no request forgotten, with failing commands, stops, identifications and resets | 2 requests, transfers of 2 and 3 blocks, commands of up to 2, 1 retry of an identification, none of a stop |

Why the bounds suffice. With 4 descriptors and packets of up to 2 the ring wraps
at every alignment, fills to its margin, and holds a multi-descriptor packet in
the engine's hands, a finished one and one just appended at once: all the
situations the invariant distinguishes. Packets come back after they were
freed, so runs are unbounded in length. Three packets are one more than the ring and
`if_snd` need for a full ring with another packet waiting. On receive, one more frame than
ring and queue hold makes each of them overrun; `MaxPulses` bounds the pulses
waiting on the receive thread's channel (the interrupt is masked between pulses
except through the `rx_full` path, where two suffice to show the overflow).

`tx_queue0` uses a view that hides what descriptors outside the ring's used part
still hold from the last lap: `ti814x_tx` overwrites all of it before it can be
read, except for the EOQ flag before the next packet, which the view keeps. It
makes the run eight times smaller. The runs with fairness use neither view nor symmetry.

`rx_ring` and `rx_flow_overflow` set `CHECK_DEADLOCK FALSE`: with flow control
the receive path really can stop for good (that is `rx_flow_stall`).

In `spi_master` two clients are enough for every disagreement about an owner; the
second device is one the controller does not have, which the manager locks but
does not transfer on. Of the word lengths the controller rejects 0 and 4 and accepts
16 (all with a clock rate, 4 and 16 also without); a word of 4 bits is one byte, one of 16 two, so that lengths of 1 divide by one and
not by the other. No transfer reaches the 64 KB the word counter holds; what its refusal
does is among the cases of `Transfer`. The view hides `bus`, which records the last transfer and is read
by no handler; clients are symmetric. The run sets
`CHECK_DEADLOCK FALSE`, since a division by zero ends the manager. 99,404 states.

In `spi_xfer` a length of 3 ends with a FIFO partly filled and one of 4 with a full
FIFO, where the end of count and the last full FIFO meet; both need the refill.
A length of 0 arms no timeout, which is why the run sets `CHECK_DEADLOCK FALSE`:
the manager's thread may then wait for ever, and `EveryCallEnds` says so by its
guard; and after `TimeoutFault` there is no manager. 1.5 million states.

In `i2c_transfer` 1 and 2 stay within the prefill, 5 and 7 cross the threshold with
an even and an odd rest, 7 is the longest the register can say, 8 and 10 are told as 1
(less than the prefill) and 3 (more); a timeout leaves at most one pulse, so that two queued
pulses show a transfer ended by a pulse two transfers old. 137,263 states.

In `mmc_request` a read or write of 3 blocks needs two commands, one with a partial
last block ends in an error, and the second request covers all that can wait
behind it or hold it up. One retry of an identification shows a further try and
the last one; a stop's first try is already the last, since those in between only
repeat the command (the proofs hold for any numbers). The run
sets `CHECK_DEADLOCK FALSE`, since an overtaken identification may leave every
request waiting. 306,528 states.

### Properties

* `RingConsistent`: indices and count agree, the ring never fills, an mbuf is
  attached exactly to the start of each packet in use.
* `DmaMemoryKept`: no memory the engine works on is released ("Don't free memory
  owned by DMA").
* `StallIsNoticed`: a stopped engine with a packet waiting is about to be looked
  at, by `ti814x_tx` or by an interrupt. This is the argument why the pair
  "append, then test HDP and EOQ" and "acknowledge, then test HDP" loses nothing.
* `KickIsSafe` (both modules): software writes HDP only to a stopped engine, and
  to the right descriptor, although it tested the register steps before.
* `StartWillRun`: an interface marked IFF_OACTIVE has a restart coming (while the
  link stays up: `tx_link_flap` refutes it otherwise).
* `EngineBehindFrames`, `StopIsNoticed`: the receive engine neither overruns nor
  skips a descriptor, and its stop is recorded where a pass will find it.
* `QueueIsServed`, `FramesAreNoticed`, `QueueNeverOverflows`: the hand-over to
  the stack thread, the wake-up of the receive thread, and what flow control is
  for.
* `ImplementsPipe`, `ImplementsFairPipe`: the refinement of `PacketPipe`. On
  transmit a packet waits in `if_snd` or in hand, and is committed while its
  start descriptor is OWNed by the engine; on receive it waits on the ring or in
  hand, and is committed in `rx_queue`. Order, no duplication, no loss after the commit
  and, under fairness, progress.
* `SpiMaster`: `OneRecordPerDevice` (the first record found is the only one),
  `OwnersAreConnected` (no lock is inherited by a later client at the same
  address), `BufferIsBacked` (`buflen` after a failed allocation),
  `LockedOutStaysOut` (who names a device uses it only while no other client has
  it locked), `ImplementsLocks` (the refinement of `DeviceLocks`).
* `SpiXfer`: `ExchangeIsExact` (the whole length, each word once and at its
  place), `BufferFollowsWire` (the same while the exchange runs),
  `NothingLeftOver` (no completion is left for the next exchange unless some wait
  timed out), `EveryCallEnds` (a wait of a length other than 0 ends although
  everything else is dead: the call returns, or, with EDMA off, the manager ends with it).
* `I2cTransfer`: `TransferIsWhole` (DONE alone means that every byte the count register
  was told of was moved, up to 65536 the whole transfer), `CallerOwnsBuffer` (after the return nothing is left that would touch the
  buffer or end the next wait), `RestartMeansHeld` (`re_start` is set exactly
  while the driver holds the bus), `WaitIsAnswered` (while interrupts are enabled a wait always
  has something to come: a timeout means a slow or dead bus, not lost bytes. A reset that
  fails leaves interrupts off, and a repeated start does not turn them on again: that wait is excepted).
* `MmcRequest`: `GoodIsTrue` (success means that all blocks were moved in
  order, and a sync's that all before it were), `CardReadyForCommand` (no command
  over another, no transfer to a card still inside one), `NoRequestForgotten`
  (as long as a request is in progress, the driver thread is about to look at the
  queue, or a pulse, an interrupt, a command of the controller or a reset is to
  come: no wait that takes pulses of others off the channel, no failed
  identification and no reset leaves it standing), `EveryRequestIsAnswered`.

The properties of `SpiXfer` and `I2cTransfer` are about transfers that began with
nothing left over and did not time out. The code gives no more: after a
timeout a late pulse ends the next wait (`spi/dm816x/wait.c:37`,
`i2c/omap35xx/wait.c:184`), and the models contain these behaviours. The guards `clean`,
`late`, `cut` and, in `SpiMaster`, `named` except what the code does not prevent, so that these
properties would not notice it becoming worse; the notes of the hazards in `PROJECT.json` say
which. What they do show is that nothing else has the same effect.
`NoRequestForgotten` and `EveryRequestIsAnswered` except `overtaken` for the same reason. The control thread
stores MMCSD_STATE_IDENT after it has sent the first command (`devb/mmcsd/sim.c:487`), and
without the exception TLC finds two ways to lose an identification: the driver thread takes the first
interrupt of the first identification while the state is still idle, and throws it away; or a reset's
identification, whose state is right from the start, ends before the store, which then sets the
state of a card that is ready back to IDENT. Either way every later request is kept for an
identification that stands still. What the properties do say is that these are the only
two: the interrupts of a reset may be handled before the store without harm, as long as the identification
is still under way, or failed or was followed by another reset, when the state is stored. No document or comment of the repository says otherwise, so that
these are hazards and no findings.

### What the violated runs show

* `tx_link_flap`. The ring fills, IFF_OACTIVE is set, the link goes down. The
  interrupts of the last packets call `ti814x_start`, which returns early because
  `linkup` is 0. The timer reaps the ring. The link comes up: `tx_q_len` is 0, so
  `bsd_mii_linkstate` does not call `ti814x_start` (`mii.c:372`). IFF_OACTIVE stays
  set and nothing is due. The comment at that line says it is there to "ensure
  things keep running".
* `rx_flow_stall`. `receive.c:201` reads the queue length without the mutex; the
  stack thread drains the queue and retires before `rx_full` is recorded; the
  channel stays masked. Comment: "stop reading and wait for process_interrupt to
  drain it".
* `rx_flow_overflow`. `rx_full` is never cleared, so the channel is unmasked in the
  middle of a pass, further pulses arrive, and a pass enqueues before it tests.
  Comment: "If flow control is enabled then don't overflow the queue". The first stall
  above can only happen before the bit is first recorded, for the same reason.

### What the passing runs of the SPI and I2C drivers contain

Three behaviours are in the models and end what a user would expect; the properties
are stated around them, since the code does not prevent them.

* A client asks for words of 4 bits; `omap3_cfg` rejects that, but `omap3_setcfg` has
  copied it (`omap3spi.c:438`). A transfer of 1 byte is then let through by a check on
  words of 1 byte, to a controller that is programmed for words of 2, although the comment at the
  check asks for an "integer multiple of the word width". A kept word length of 0, or a clock
  rate of 0, ends the manager by a division. `LockedOutStaysOut`, `ImplementsLocks` and the
  other properties of `SpiMaster` hold up to that step.
* With `edma=0`, the default, an exchange by programmed I/O that times out makes
  `wait.c:39` read through `edmavbase` and may end the manager. `EveryCallEnds`
  admits this end while `mapped` is false, and no other.
* An I2C transfer of more than 65536 bytes is reported DONE when the low 16 bits of
  its length have been moved. `TransferIsWhole` bounds what is missing by `beyond`. Whether
  the i2c manager's library, which is not in the tree, lets such a length through is not known.

### Fairness

`CpswTx!FairSpec`: weak fairness of the lock holder's steps, of the DMA engine
(the link is up; in `FairSpec` runs it does not drop), of interrupt delivery and
of the interrupt handler's steps once it has the lock; strong fairness of its
acquisition of the lock, since the stack may take and release it for ever and QNX
queues mutex waiters. The stack need not send, the timer and the link callback
need not run: no property relies on them. `CpswRx!FairSpec`: weak fairness of the
interrupt, the two threads, and the completion of a frame once begun; nothing makes
the network send.

`SpiXfer!FairSpec`: weak fairness of the thread, with the kernel's timer among its
steps. Nothing is assumed of the controller, the EDMA or the interrupts: a call
must end although they are dead. `MmcRequest!FairSpec`: weak fairness of the
driver thread, the control thread and the controller, which ends every command of a
powered card by its own command and data timeouts; how it ends it is open, and no
client has to ask for anything. `SpiMaster` and `I2cTransfer` are checked for safety only.

## 4. Proofs

Every safety property that a passing run checks is a theorem, for every value of the
constants, as far as the property holds for every value: `StartWillRun` needs
that the link does not drop, `FramesAreNoticed` that flow control is off, and the runs that
violate them show why. The refinements of the abstract specifications are proved as
well. What liveness there is stays with TLC (see "Only model-checked").

### CpswTxProofs

`CpswTxProofs` proves, for every ring size, defragmentation limit, queue length, queue and
packet set satisfying `TxAssumption` (a packet's descriptors leave one free, Nil
is none of the values):

| theorem | statement |
|---|---|
| `Invariance` | `Spec => []IInv` |
| `TypeCorrect` | `Spec => []TypeOK` |
| `RingCorrect` | `Spec => []RingConsistent` |
| `MemoryKept` | `Spec => []DmaMemoryKept` |
| `NoStall` | `Spec => []StallIsNoticed` |
| `SafeKick` | `Spec => KickIsSafe` |
| `StartComes` | `~LinkDrops` implies `Spec => []StartWillRun` |
| `Refinement` | `Spec => ImplementsPipe` |

No property is inductive by itself: that a finished packet can be freed depends on
the engine releasing packets in order, which depends on the chain having ring order, which depends
on where the engine is. `IInv` (at the end of `CpswTx`, checked by `tx_queue0`)
adds to `TypeOK`, `RingConsistent` and `StallIsNoticed`:

* `LockInv`: who holds the lock, what is in hand at each point, that the ring has room,
  that the queues other than 0 use neither `if_snd` nor the link callback;
* `ChainInv`: descriptors in use are linked in ring order, packets end and
  begin where flags say, and only a start descriptor carries OWN;
* `OrderInv`: if a packet is unsent, so are all behind it;
* `EngineInv`: the engine is on the oldest unsent packet, between its start and
  its end; what it latched is null or the true successor;
* `AppendInv`: when `ti814x_tx` sees EOQ before the packet it appended, that
  packet is the oldest unsent one and the engine has stopped or is about to;
  where the code has seen HDP zero, HDP is still zero;
* `EoqInv`: the last descriptor appended carries EOQ exactly if all is sent.

The proof of `InvStep` has a step for each action. Actions that touch neither
ring nor engine go through `QuietStep`; those that only reap through `ReapOnly`;
`TxBuild` through `BuildShape`, `BuildOwn`, `BuildRing`, `BuildEngine`; the engine's steps through `DmaWalk`,
`DmaRelease`, `DmaFinish`. They rest on lemmas about offsets on the ring
(`OffsetShift`, `OffsetNext`, ...), proved from the definition of `Advance`.

`StartWillRun` is not inductive: `StartInv` adds that the link is up with no callback
under way, and that only queue 0 sets IFF_OACTIVE. The step that matters is
`ti814x_start` giving up on a full ring. `FullRingIsBusy` finds the interrupt
then: what the reap left fills the ring, so that the slot it stopped at is an unsent
packet, and `StallIsNoticed` says that an unsent packet has an engine at work on it
or an interrupt pending.

`Refinement` has to turn a set of slots into a sequence. `Rank` counts the members of a
set up to a slot; `RankGrows`, `RankInjective` and `RankOnto` show that ranks go from 1 to the set's
size, one each, so that `Ranked` is their inverse. Then `InOrderAdd` (a slot
behind all others appends its packet) and `InOrderRemove` (the first slot gone is the
tail) are the two facts the steps need. `CommittedSame` serves the actions that release and
append nothing. Of the others, `TxBuild` is a commit: its slot is behind all
unsent ones; the engine's release is a delivery: `OrderInv` makes the released slot
the first. A reap, by whichever of its three callers, is a stutter, because it frees only
packets that were sent; this is where losing a packet would show.

### CpswRxProofs

Under `RxAssumption` (two descriptors at least, Nil is none of the values), for
every ring and queue size, bound on pulses and set of frames:

| theorem | statement | flow control |
|---|---|---|
| `Invariance` | `Spec => []IInv` | either |
| `TypeCorrect` | `Spec => []TypeOK` | either |
| `EngineNeverOverruns` | `Spec => []EngineBehindFrames` | either |
| `StopsAreNoticed` | `Spec => []StopIsNoticed` | either |
| `QueueServed` | `Spec => []QueueIsServed` | either |
| `KicksAreSafe` | `Spec => KickIsSafe` | either |
| `FramesNoticed` | `Spec => []FramesAreNoticed` | off only (`rx_flow_stall` refutes it otherwise) |
| `Refinement` | `Spec => ImplementsPipe` | either |

That the engine does not run into frames not yet consumed holds because the chain
is null at `rx_tail` and the tail is never behind the engine; that the chain may
be extended to `eidx` holds because nothing but the slot before `rx_cidx` is ever
`eidx` at the end of a pass. `IInv` (at the end of `CpswRx`, checked by `rx_ring`) says so:

* `OwnInv`: OWN is off exactly on frames that wait and on the slot in hand;
* `NextInv`: `next` goes round the ring, cut at the tail and, between `RxCut` and
  `RxLink`, at `eidx`;
* `PassInv`: `eidx` is null or the slot before `rx_cidx`; while a slot is in
  hand that is the tail, the engine stands still;
* `EngineInv`: the engine is between `rx_cidx` and the tail, and what it latched
  is null or the true successor of a descriptor that is not the tail;
* `EoqInv`: EOQ, on the ring or collected by the pass, means that the engine
  stands still behind the last frame;
* `PendInv`: RXn_CP names the last frame that waits, so that the interrupt stays
  pending over the acknowledgement of an earlier one;
* `FrameInv`: the frame the engine is receiving is nowhere else;
* `WorkInv`, `PulseInv`: who runs for `rx_queue`, and (without flow control) that
  the channel is masked exactly while a pulse or a pass is under way.

The ring's conjuncts are proved together (`RingStep`), with a lemma for each action that
touches the ring or its engine; `Consumed` holds what `RxDivert` and `RxTake`
have in common. The thread conjuncts are independent (`WorkStep`, `PulseStep`).

`Refinement` reads the ring as the sequence of frames from `rx_cidx` to the first slot
without one (`Frames`, whose length is the least element of a set: `FirstGap`).
`FramesConsume` says that a pass takes its head, `FramesWrite` that the engine's
write-back appends. That the engine writes exactly behind the waiting frames is
`OwnInv` with `EngineInv`; that what it writes is not already in the pipe is `FrameInv`, which was
added for this proof. With flow control an overflow of `rx_queue` drops the frame
before it is committed, which `PacketPipe` allows (`Divert`); `QueueNeverOverflows` is the stronger claim, and fails.

### SpiMasterProofs

For any clients, devices and configurations (word length 0 and clock rate 0 included),
under `SpiAssumption` (device numbers are naturals and None is not, the first
configuration is one the controller accepts, Nil is none of the values): `Invariance` (`StrongInv`), `TypeCorrect`, `LocksExclusive`,
`LocksReleased`, `BufferBacked`, `AccessRespectsLocks` (`Spec => LockedOutStaysOut`)
and `Refinement` (`Spec => ImplementsLocks`). `StrongInv` is `TypeOK`,
`OneRecordPerDevice`, `OwnersAreConnected` and `BufferIsBacked`. Every handler changes the list by at
most one of `LockDev` and `Unlock`; `PrependedElements` and `RemovedElements` say
what each does to a list without repeated devices, `ListStepKeeps` that the invariant
survives, `ListStepIsLockStep` that the owner function of the refinement mapping
changes as `DeviceLocks` allows. That an unlock frees the device needs
`OneRecordPerDevice`, since the code removes the first record only.

### SpiXferProofs

Under `XferAssumption`, for any FIFO size, lengths and number of chip selects:
`Invariance`, `TypeCorrect`, `ExchangesAreExact`, `BufferAndWireAgree`,
`CompletionsAreConsumed`, and `OneDeviceIsExact` (with one chip select nothing of
another channel is ever left over, so that only a timeout disturbs an exchange). No property is
inductive: what a return of the whole length means depends on who of handler and thread has
read what, and on exactly one completion being on its way. `IInv` adds

* `Armed`: the controller works only for an exchange that has been programmed;
* `Completions`: an exchange, if nothing was left over and nothing timed out, has
  exactly one completion ahead of it, as an interrupt, a pulse or an end of count to come;
* `InStep`: the words the wire returned are those stored plus those in the FIFO,
  and what was written is at most a FIFO ahead of what was read.

There is a lemma for each kind of step (`Calls`, `Waits`, `Drains`, `Reads`,
`Interrupts`, `Shifts`, ...).

### I2cTransferProofs

Under `I2cAssumption`, for any threshold, lengths and width of the count register: `Invariance`, `TypeCorrect`,
`TransfersAreWhole`, `BufferReturned`, `RestartIsHeld`, `WaitsAreAnswered`. `IInv` says
of a clean transfer that waits (`Waiting`) that every byte is in one place, in the buffer, the
FIFO, on the bus or beyond the count (`CountType` bounds what the register keeps), that the one
pulse is either still expected or queued, and that the transfer is in one of seven
phases: moving, refused, arbitration lost, ended on the bus, stopping after a
fault, stopped, over. `IntrPhase` and `WireInv` prove how handler and wire move between them.

### MmcRequestProofs

Under `MmcAssumption`, for any requests and uses, any limit of the DMA and any numbers
of retries: `Invariance`, `TypeCorrect`, `GoodAnswersAreTrue` (`Spec => []GoodIsTrue`),
`CardReady` (`Spec => CardReadyForCommand`) and `NothingForgotten`
(`Spec => []NoRequestForgotten`). That a good answer is true depends on the offsets
agreeing with what the card has done through every stop, retry and reset. `IInv` adds
to `TypeOK` and `GoodIsTrue`:

* `Served`: the requests in progress are the nexus and those in the queue, each once;
* `Ordered`: what was accepted earlier is ahead (a sync needs no more);
* `Quiet`: outside a transfer the controller has none of its commands and the
  card is not inside one;
* `InTransfer`: what was moved, what is being moved, `offset` and `blkno` agree.

`Answered`, `HeadAnswered`, `HeadKept` and `RequestsKept` say what a step does to the
requests, `Moves` what `mmc_dma_rw` does to the transfer; each action has a lemma
from these. `IInv` was checked by TLC on the instance of `mmc_request` and is
not among that run's properties, since it is proved.

`NoRequestForgotten` is an invariant of a second layer, `Driven` (end of
`MmcRequest`), proved with `IInv` in hand. Where the property has one disjunction,
`Driven` says which of its ways is open in which situation: a sleeping driver with a queue has
SIM_ENQUEUE; a transfer has a command in the controller or its interrupt latched; an
identification too, or the card is about to be reset; a reset is asked for only of a card that
is ready, because `mmc_control_thread` looks at nothing else; and a card that is ready is
powered, without which a command of the controller would never end. `AfterInterrupt` shows
it for all that may follow one interrupt, with the look at the queue at its end, and
`DrivenServes` that it gives the property: it needs `Served`, that a request
in progress is the nexus or on the queue, and that a nexus means `state # "idle"`.

### Lemmas about data

`DataLemmas` states what no module of the driver is needed for. The library's induction theorems
take their hypothesis as an operator, which no installed prover can instantiate; its
theorem on well-founded relations (`WFMin`) takes a set. `LeastNatural` is
that theorem for the naturals, and an argument by induction becomes one about the least
counterexample; `MinLeast` and `MinIs` carry it over to `Min`. The `Hand...`
lemmas are about the packet that was taken off a queue and is still in somebody's hands:
`HandAppend`, `HandHead` and `HandTake` are what the steps of both refinements have in common.

### Only model-checked

Liveness under fairness: `ImplementsFairPipe` (three runs), `EveryCallEnds`,
`EveryRequestIsAnswered`. The installed provers do not reason about ENABLED, on
which weak fairness rests. The safety halves are proved: `Refinement` for the pipes,
`NothingForgotten` for the requests.

## 5. Not modelled

* CPSW: `ti814x_stop`, reset and detach; `ti814x_set_tx_bw`; the quiesce pulse;
  several receive channels sharing one `rx_queue` (they make the overflow easier and can hide
  the stall); mbuf allocation and its failures, except as the choice to drop; caches and
  memory barriers (descriptors are in uncached CPPI memory); SWITCHMODE builds, in
  which `linkup` is not tested. The address table is register I/O.
* CPSW precision time: `ptp.c` is compiled out on the AM335x (`devctl.c:308`,
  `ti814x.c:1376`).
* SPI: start-up and loading of the driver library, clock dividers, EDMA transfers of more
  than one block.
* I2C: addresses, the command line option by which an overrun is no error, clocks
  and bus speed (`bus_speed.c:101`, `init.c:62`), the pulses of the bus recovery.
* MMC/SD: removal and insertion of the card, aborted requests, programmed I/O, scatter lists,
  partition switches, RPMB, devctls that send commands; a failing `dma_done`
  (`sim_mmc.c:1990`, other chipsets); `mmc_wait_card_ready`, which only hosts with the
  option NOCD_BUSY use; background operations of the card (`MMC_BKOPS_SUP`, compiled out in
  `sim_mmc.h:66`) and the look at the card's status after a read of one block
  (option AC13, `sim_mmc.c:2048`), which is off by default; the chipsets of other boards.
* Serial: the property that matters (output never stops with data pending) lies
  between the driver's handler, `tto.c` and the io-char library, which is not in
  the tree: whether and under which lock it calls `tto` again cannot be translated from this source.
* Audio, USB device, utilities, startup: sequential set-up, or a framework that is
  not in the tree; see the notes in `PROJECT.json`.

## 6. Plan

1. `CpswStop`: `CpswTx` with `ti814x_stop` and `ti814x_init`, whose flags and reaping
   are not under the lock. One run.
2. Removal and insertion of the card in `MmcRequest`, with aborted requests. One run.
3. `CpswPtp` for the builds that have it: rollover of a small counter against set-time.
4. Serial output, if the library's contract becomes available.
