# Verification of the AMD PCnet driver (maxxuss_driver_AMDPCNET)

The program is a network driver for Darwin/x86 and the AMD PCnet-II (Am79C970A)
Ethernet chip: an IOKit shell (`src/Source/PCNet.cpp`, `PCNet_Private.cpp`,
`PCNet_PHY.cpp`) around a port of FreeBSD's `if_lnc.c` (`PCNet_lnc.cpp`).
This directory models its concurrent core, its activation layer and the life of a
driver instance in TLA+, checks them with TLC and proves, with TLAPS, the safety
invariants of both rings, of their composition, of the activation layer and of the
instance's life, and the refinements between them.
Of the drivers kept beside it as reading matter (`src/Useful Stuff/Sources`) the
Linux one, `pcnet32-linux.c`, is modelled, checked and proved about in the same way.

## 1. Inventory

All code of the kernel extension runs under the gate of one work loop (the comment in
`createOutputQueue`, PCNet.cpp:643-647), so it is one sequential process.  What
runs beside it is the **chip**: it fetches descriptors, writes their status and
sets interrupt bits in CSR0 between any two instructions of the driver.  The
hard behaviour of the system is this interleaving.

| Component | State | Operations | Interacts by | What makes it correct |
|---|---|---|---|---|
| Transmit ring (PCNet_lnc.cpp) | `trans_ring`, `trans_next`, `next_to_send`, `pending_transmits` | `lnc_output_packet`, `lnc_tint`, `lnc_watchdog` | descriptors' OWN bit and TINT with the chip; stall and `service()` with the output queue | counters agree with the ring; `lnc_tint` only reclaims finished packets; a full ring is always woken; packets are finished in order |
| Receive ring (PCNet_lnc.cpp) | `recv_ring`, `recv_next` | `lnc_rint`, `mbuf_packet` | OWN and RINT with the chip; `inputPacket` and `flushInputQueue` with the stack | no descriptor is lost; frames are consumed once and in order; what is queued is flushed; a long frame does not put the ring out of step |
| Interrupt dispatch (`lnc_intr`, `handleInterrupt`) | a local copy of CSR0, two flags | read, acknowledge, dispatch, loop | calls both ring handlers and `lnc_reset` | no cause is lost; it returns; a reset by one handler does not mislead the next |
| Chip initialisation (`lnc_init`, `lnc_reset`) | the whole ring memory, init block, CSRs | stop, lay out, INIT, poll IDON, STRT | called from the handler, from promiscuous mode and from enabling | both rings and both chip pointers start again together; failure leaves nothing half on |
| Activation levels (`setActivationLevel`, `enable`, `disable`, `initAdapter`) | `currentLevel`, `enabledByBSD`, `enabledByKDP`, `interruptEnabled` | level up, level down | provider open/close, timer, queue start/stop | a level is fully reached or fully left |
| Media and link (`phySetMedium`, `phyReportLinkStatus`, `selectMedium`) | `currentMediumIndex`, `mediumIndexLastReported`, BCR9 | select, report | `lnc_init` also writes BCR9 | the chip's duplex setting is the selected one |
| Start-up and release (`start`, `free`) | owned objects | acquire, release | IOKit | every path releases what it acquired |
| Ring memory (`lnc_pci_attach`, `lnc_init`) | one contiguous buffer | size, layout | physical addresses to the chip | what is laid out fits the size; alignment |
| Multicast filter (`lnc_setladrf`, CRC) | `ladrb` | set, write CSR8-11 | stop and start the chip | each address hashes to its bit |
| Linux reference driver, bus side (`probe1` and its callers, `remove_one`) | ports, device structure, shared memory | acquire in order, unwind by labels | bus, kernel | each failure gives back exactly what was acquired |
| Linux reference driver, interface side (`open` .. `close`) | `cur_tx`, `dirty_tx`, `tx_full`, `cur_rx`, both rings with their buffers | `start_xmit`, `interrupt`, `rx`, `restart`, `tx_timeout`, `set_multicast_list`, self-test | OWN bits and CSR0 with the chip; start, stop and wake of the queue with the stack | counters in step with the chip through restarts; no overwritten packet; no lost buffer; a stopped queue is woken; memory shortage does not wedge the receiver |
| Power, debugger, packaging | none | none | | nothing to state |

### Hard behaviours

* TINT and RINT are cleared twice: once for the value read by `lnc_intr`, and
  again at the end of `lnc_tint` and `lnc_rint`, after their last look at the ring.
* `lnc_intr` acts on TINT in a value read before `lnc_rint` ran.
* `lnc_init` can be called from inside either ring handler and it can fail.
* `lnc_set_multicast` stops and restarts the chip with packets in flight.
* A packet may span descriptors, of which the chip has given up only some.
* The output queue sleeps until somebody calls `service()`.
* `allocatePacket` may fail in the middle of the receive loop.
* Enabling may fail half-way, and interrupts arrive while a call is on its way
  between levels and the handler still turns them away.
* Every `lnc_init` changes the duplex mode behind the media layer's back, probes the
  access mode anew and brings filter and promiscuous mode to the chip.
* `start` may fail anywhere, and `free` then meets what was acquired until there.
* The Linux driver's handler restarts the chip from inside its loop, runs out of
  memory inside its receive loop and re-enables interrupts only at its end.

The full list, with lines and the properties aimed at them, is "hazards" in
PROJECT.json.

## 2. Plan

Done: `PCNetCsr0`, `PCNetIntr`, `PCNetRing`, `PCNetTx` with its abstract
specification `TxPath` and `PCNetTxProofs`, `PCNetRx` with `RxPath` and
`PCNetRxProofs`, the composition `PCNetDriver` with `PCNetDriverProofs`; `PCNetMedia`
and `PCNetActivation` with `PCNetActivationProofs`; `PCNetFilter`, `PCNetMemory` and
`PCNetLifecycle`, which implements `PCNetActivation`, with `PCNetLifecycleProofs`;
`PCNetLinuxProbe` and `PCNetLinux` with `PCNetLinuxProofs`.

Every safety invariant and every refinement that a passing run checks is also proved.
Next: the queue's start and stop composed with `PCNetTx`, and what can be said of
`FullRingWakes` once a STOP may clear TINT.

## 3. Modules

**PCNetCsr0.** CSR0 as a set of bits: write-one-to-clear for the latched ones,
IENA taken from the value written, STOP clears all, STRT sets TXON and RXON if
the chip has been initialised.  INTR is computed, as in the chip.  BABL and CERR
only reach counters and the log and are left out.

**PCNetIntr.** The state both halves share: CSR0, the driver's place `pc` in the
interrupt handler, `lnc_intr`'s local `lcsr`, whether the chip has read the
initialisation block.  Actions for the loop test (`IntrRead`, `IntrReturn`), the
acknowledge and dispatch (`IntrAck`), `lnc_reset`, promiscuous and multicast
changes.  The order of the tests in `lnc_intr` is `Dispatch` and `AfterRint`:
MERR resets and starts the loop again; TINT is tested in the value read before
`lnc_rint` ran.

**PCNetRing.** Index arithmetic on a ring, instantiated for each ring.

**PCNetTx.** `OutputPacket`/`OutputStall` are `lnc_output_packet`; `TintPacket`
is one turn of `lnc_tint`'s do-while, `TintTest` its condition, `TintEnd` what
follows it; `InitRing` is the transmit part of `lnc_init`.  A turn of the loop
is one step because what it touches has been given up by the chip (`TintSync`),
so chip steps in between commute with it; the reads of CSR0, the loop test and
the last write are steps of their own because chip steps between them matter.
The search loops are written as the nearest position where they stop
(`PacketEnd`, `NextStart`); a search that finds no such position is `pc = "hang"`.
`trans` also carries the packet's number, which the program does not have, so
that order can be stated.

**TxPath** is what the transmit path promises: accept in order, finish the oldest
first and once, discard only in `lnc_init`.

**PCNetRx.** `RintPacket` is one turn of `lnc_rint`'s loop including
`mbuf_packet`, `RintDone` its failing test, `RintEnd` the final write.  The chip
may chain a long frame over two descriptors.  **RxPath** is its promise.

Each half sees the other as an environment: in PCNetTx `RintEnd` and
`RintOutOfSync` stand for `lnc_rint`, in PCNetRx `TintEnd` and `TintResets` for
`lnc_tint`.

**PCNetDriver** puts both together without these stand-ins; `lnc_init`,
`lnc_set_multicast`, entry and return of the handler act on both rings at once.
`ImplementsTx` says that the result is a behaviour of PCNetTx, so that the
environment PCNetTx assumes is the real one and what is proved of PCNetTx holds
of the driver.  Its refinement mapping folds `lnc_rint`'s last stage into the
stage PCNetTx knows and counts the receiver's interrupts as its environment's.

**PCNetMedia** holds the media table, the selected and the last reported medium,
BCR9's full duplex bit and the link bit.  `LncSetMedium`, `PhySetMedium`,
`PhyReportLinkStatus` and `SelectMedium` are the functions of those names;
`Told` is what `setLinkStatus` is given.  A table without a medium is a state
of the program: `phyProbeMediaCapability` ignores a failed `addMedium`.

**PCNetActivation.** A call of `enable` or `disable` runs with the gate held and
goes through `enableAdapter` or `disableAdapter` level by level: `goal` is where
it is going, each level is one action (`EnableLevel1`, `EnableLevel2`,
`DisableLevel2`, `DisableLevel1`), each early `break` an action of its own
(`OpenRefused`, `MediumRefused`).  Between these only the chip and the cable act;
between calls also the interrupt handler, the timer, promiscuous mode and the
user.  The rings are left out here and the levels in PCNetTx and PCNetRx, which
describe level 2.  `HandleInterrupt` abstracts `lnc_intr` to its effect on CSR0 and
BCR9: it leaves no cause behind, as it only returns when INTR reads as zero, and it may
have reset the adapter on the way.  IOKit is external: opening an open
provider is refused, `cancelTimeout` leaves no timeout behind, a medium may be
selected whatever the level, the interrupt comes again for as long as the pin
is asserted.  The software reset leaves the BCRs alone.

**PCNetFilter.** The multicast hash as `lnc_setladrf` computes it, four bits at a
time with the table of the source, and as the chip does, bit by bit; a word is the
set of its one bits.  `LncSetMulticast` is `lnc_set_multicast` with the bytes it
really writes (`LafWritten`), `LncInitFilter` the part of `lnc_init` that gives the
chip its mode and filter.  That the two ways to compute the hash (`Index`, `ChipIndex`)
agree is an assumption TLC evaluates in `MCLifecycle` (`HashesAgree`) for the address
zero and the 48 addresses with a single one bit; both are affine in the bits of the
address, so they agree on all of them.  What the client asked for is kept in `listed` and
`promWanted`, which the program does not have, so that it can be compared.

**PCNetMemory.** The size `lnc_pci_attach` asks for and the addresses `lnc_init`
works out, as functions of the buffer's address.

**PCNetLifecycle** composes these with PCNetActivation.  `Start` is `start` to the point
where it closes the provider: the number of things acquired before the first failure
is chosen, as nothing can see the middle.  `AttachInterface` is the rest of it,
`Free` is `free`; its early dereference of `memDescr` is the phase "trap".  In between
the steps of PCNetActivation are taken as they are, those that run `lnc_init` (`Inits`)
with its effect on filter, mode and access width (`LncInit`).  `ImplementsActivation`
says that nothing else is added to the activation layer.  IOKit disables an interface
before it stops its driver (`Idle`), and a client exists only when `start` has
succeeded.

**PCNetLinuxProbe** is the bus side of `pcnet32-linux.c`: one action per acquisition
of `probe_pci`, `probe_vlbus` and `probe1`, `Fail` for the labels at its end, whose
sets of things fall into each other as the labels do.

**PCNetLinux** is its interface side.  All entries but the probe take `lp->lock`, so
each call of the stack is one action that waits for the handler (`LockFree`);
`pcnet32_close`, which takes the lock twice and works without it in between, is three
(`CloseQueue`, `CloseStop`, `CloseFree`).  The handler is cut wherever the chip can
get in between to some effect: the read and acknowledge of CSR0 (`IrqRead`), each
turn of `pcnet32_rx` (`RxFrame`, `RxSqueeze`, `RxEmpty`) and of the loop over sent
entries (`TxReap`), the end of that loop (`TxReaped`), the restart after an underflow
and the exit, which alone sets the interrupt enable again.  `Restart` is
`pcnet32_restart` with `purge_tx_ring` and `init_ring`, which may find memory for a part
of the receive ring only.  `cur_tx` and `dirty_tx` are counted modulo twice the ring,
which is all the code looks at; `dirty_tx` is written per entry and not at the end, as
nobody else reads it without the lock.  An entry of `tx` knows whether its packet is
the stack's or the self-test's.  The kernel is external: `rtnl_lock` keeps open,
close, self-test and removal apart, `start_xmit` is called while the queue is awake,
the transmit watchdog fires while it is stopped.  IDON, BABL and MERR are acknowledged
and no more, so they are left out, and calls of the handler on a shared line without a
cause change nothing.

Operators whose comment begins with "Mutant of" are small errors a programmer
might make in the definition after them.  No specification uses them: each
replaces its definition to confirm that a property would notice.

### The chip

The chip is not part of the source.  It is modelled from the way the driver uses
it and from the data sheet kept with the source:

* it processes its current descriptor when it owns it, writes the status with OWN
  clear, moves on, and sets TINT or RINT, in the same step or (`TintDelayed`,
  `RintDelayed`) in a later one;
* a transmission ends well, with an error, or with an underflow that clears TXON;
* STOP clears CSR0 and with it pending causes; STRT either keeps the chip's place
  in the rings or takes it back to the bases (`ReloadOnStart`);
* a chip that has not read its initialisation block does not start; IDON may
  stay out for all of the 1000 polls (`InitOutcomes`), and is then not set later;
* TDMD only makes it look sooner; it polls anyway.

## 4. Runs

Every bound is a constant of the module: ring sizes `NTx`, `NRx`, numbers of
packets `MaxPackets` and frames `MaxFrames`, and `MaxEvents` unasked events
(MERR, MISS, mode changes).  The program's rings have 32 descriptors, the Linux
driver's 16 and 32; three are enough for "done", "being sent" and "free" to occur
together and for the indices to wrap, and there is at least one packet more than
there are descriptors.  The Linux driver needs powers of two and wakes its queue only with more than two entries free, so its
rings have four (`TxRing`, `RxRing`); `MaxWork` is 2 as in the source, and the
self-test has two frames (`NumBuffs`) for its four, so that it does not fill the ring,
as it does not in the source either.  The state of PCNetLinux and of PCNetLifecycle is
finite, so their runs are bounded by these sizes only.

| Run | What it shows |
|---|---|
| TxSafety | 3 descriptors, 4 packets, all results, failed init, multicast changes: `RingAccounting`, `TintSync`, `StalledMeansFull`, the inductive invariant `TxInv`, and that PCNetTx implements TxPath |
| TxUnaligned | late TINT, reloading STRT, resets from `lnc_rint`: `StalledMeansFull` still holds. `TintSync` does not, and `lnc_tint` may search for ever, so deadlock is not checked |
| RxRing | 3 descriptors, 4 frames, long frames, RINT after the descriptor write, multicast changes, transmit-side resets, so that `lnc_rint` can find a first buffer without its second and resets: `NoDescriptorLost`, `InputFlushed`, the inductive invariant `RxInv`, PCNetRx implements RxPath, the handler returns |
| Driver | both rings, 2 descriptors each, long frames: `FullRingWakes`, `RxInStep` (with it `RintSync`), `ImplementsTx`, the queue drains, the handler returns |
| DriverReset | both rings with long frames, underflows, late TINT, multicast changes, reloading STRT and failed init, the settings under which driver and chip do get out of step and `lnc_rint` does reset: the queue is still woken, input flushed, and PCNetTx with `RxResets` still describes the transmit half. The handler can hang (see DriverStale), so deadlock is not checked |
| TxUnderflow | violated: an underflow just before `lnc_tint`'s last write is never seen |
| RxNoMbufs | violated: a packet "dropped" for want of an mbuf is passed up later |
| DriverStale | violated: after a reset in `lnc_rint`, `lnc_tint` runs on an empty ring |
| Activation | PCNetLifecycle on two multicast groups: every media table, every failure of `start`, refused opens, failed init: `Level0Off`, `EnabledMeansUp`, `FullDuplexKept`, `HeldWhileUsed`, `FilterAfterInit`, `MemoryAndMode`; that it implements PCNetActivation; no interrupt stays asserted, the stack learns the duplex mode |
| MulticastLost | violated: a running interface does not pass the groups it was just given |
| Linux | probe to removal with all failures: the type invariant, `UpHasBuffers`, `TxInStep`, `AwakeMeansRoom`, `LinuxRxInStep`, `NeverWedged`, `QueueWaits`, `Released` |
| LinuxSelfTest | violated: the self-test's buffers are overwritten and never freed |

### What the violations mean

* **TxUnderflow.** Transmitter off, TINT cleared, nobody will call `lnc_tint`
  again; only an unrelated reset recovers.
* **RxNoMbufs.** `mbuf_packet` returns before giving descriptors back.  The chip
  also loses these descriptors until the ring has come round.
* **DriverStale.** Needs a frame cut in two by `lnc_set_multicast`'s STOP; then the
  search in `lnc_tint` has nothing to find and never ends, with the gate held.
* **MulticastLost.** `lnc_set_multicast` counts with the chip's register numbers and
  copies `nic_mode` and `if_drv_flags` to the chip, whatever the list.  The list that
  was asked for reaches the chip with the next `lnc_init` (`FilterAfterInit`), which a
  multicast change does not cause.
* **LinuxSelfTest.** `ethtool -t` in offline mode leaks its frames' buffers, on an
  interface that is down as well as on one that is up.

### Settings under which properties fail

These are visible by editing a .cfg and are listed as hazards rather than runs:
`TintSync` fails with `TintDelayed` or with `ReloadOnStart` and `Multicast`;
`FullRingWakes` fails with `Multicast` (STOP clears the TINT of a ring whose
packets are all finished; nothing but the watchdog then runs, and the watchdog's
`service()` only makes the queue stall again) and with underflows;
`NoDescriptorLost` fails with `ReloadOnStart` and `Multicast`; `RintSync` with
`Jabber` and either `Multicast` or `RintDelayed`.  That an enabled interface's chip runs fails when IDON is
not seen: neither `initAdapter` nor `enableAdapter` can notice, as `lnc_init` returns
nothing.  That the duplex mode is the selected one fails for half duplex, which every
`lnc_init` undoes and `phySetMedium` then takes for no change; the full duplex half of
it is `FullDuplexKept`.  A frame that arrives between `lnc_rint`'s last look
and its write of RINT waits, without an interrupt, for the next frame's: a delay
no property speaks of.  Without full duplex in the media table, `enableAdapter`
fails after it has opened the provider and started the chip: `Level0Off` and
`InterruptsServed` say so in their antecedents.

### Fairness

Weak fairness of the handler's steps (code runs on), of entering the handler
while the pin is asserted (it is level triggered), of the chip's steps on a
descriptor it owns, and of stalling.  Strong fairness of `OutputPacket`: the gate
is taken and released by interrupts again and again, and the work loop cycles
through its event sources, so a queue that is ready over and over is served.
Nothing is assumed of the stack, the network, the watchdog or the environment's
events, and no liveness result relies on the watchdog.

In PCNetActivation: calls run on (they do not block), the handler is entered while the
pin is asserted, and the timer fires when set; `LinkReported` needs the last, as
a reset reports nothing itself.  PCNetLifecycle makes the same assumptions (`LifeFairSpec`) of
its own actions, while an instance is up.

PCNetLinux states no fairness.  What must happen is stated as safety instead: a
stopped queue and a full receive ring always have an event ahead that is enabled and
comes without the stack's watchdog (`QueueWaits`, `NeverWedged`).

## 5. Proofs

`PCNetTxProofs` proves, for every ring size, number of packets and set of results:

* `TxInvariant`: `TxSpec => []TxInv` under `Aligned`;
* from it `TxTypeCorrect`, `TintInSync` (`TintSync`) and `AccountingCorrect`
  (`RingAccounting`), under `Aligned`;
* `QueueWoken`: `TxSpec => []StalledMeansFull`, with no assumption on the chip;
* `TxImplementsPath`: `TxSpec => TxInOrder` under `Aligned`;
* `FullRingAwake`: `TxSpec => []FullRingWakes` under `TintReliable`.

`Aligned` says: TINT is set no later than OWN is cleared, the chip is not
restarted with its pointers reloaded, and `lnc_rint` does not reset.  The runs
above show that `TintSync` fails without each of these.

**The invariant.** `TintSync` is not inductive: that `lnc_tint` finds a finished
packet depends on what TINT stood for when it was latched.  `TxInv` says that
some number `done` separates the packets in the ring: from `trans_next` on the
first `done` are finished by the chip, the rest up to `pending_transmits` are owned
by it, its own pointer `txd` stands at the border (`InStep`, `DescriptorAt`); and
TINT, in the register or in `lnc_intr`'s copy not yet acted on, means `done > 0`
(`TintMeansDone`).  The last part is true only because `lnc_tint` clears TINT once
more at its end, after it has taken every finished packet: the write that costs
`UnderflowResets` is the one `TintSync` rests on.

**The argument.** Positions in the ring are handled by a few lemmas on `Add`
(injective and onto within one turn, steps of one).  There is a lemma for each
action or group of actions; for those that do not touch the ring `ControlStep`
reduces the proof to control state.  `OneDescriptor` shows that under `TxInv` a
turn of `lnc_tint` takes exactly one descriptor, whatever the result.

**Order.** TxPath knows the set of packets that wait; the ring has an order.
`PacketsInOrder` says that the chip's packets lie in it as they were accepted, so the
one at the chip's place is the oldest (`ChipOldest`).  The chip's step is `Handle`,
`OutputPacket` is `Accept`, `lnc_init` is `Flush`, all else stutters (`TxPathStep`).

**Waking.** `FullRingWakes` is not inductive: it says that interrupts come, and the
handler turns them back on from its own copy of CSR0.  `WakeInv` says which bits that
copy has, and that a full ring's TINT is in the register, in the copy before it is
acted on, or being acted on.  `TintReliable` is `Aligned` without multicast changes
and without underflows: both do lose a TINT (section 4).

`PCNetRxProofs` proves, for every ring size, number of frames and events:

* `RxInvariant`: `RxSpec => []RxInv`, under every setting;
* from it `RxTypeCorrect` (`RxTypeOK`) and `InputAlwaysFlushed` (`InputFlushed`) under
  every setting, `RingKeepsDescriptors` (`NoDescriptorLost`) under `RxAligned`, and
  `RintInSync` (`RintSync`) under `RxWhole`;
* `RxImplementsPath`: `RxSpec => RxInOrder` under `RxAligned`.

`RxAligned` says that allocations succeed and that the chip keeps its place over STOP
and STRT.  `RxWhole` says that frames fit one buffer or, if they do not, that in
addition RINT comes with the descriptor and no STOP cuts a frame.  Section 4 names the
runs and settings in which the properties fail without them.

**The invariant.** `RxInv` says that some number `done` separates the ring: from
`recv_next` on the first `done` descriptors are the driver's, the rest the chip's, whose
place is the border (`Split`); the frames in the first part lie in the order of their
arrival (`Ordered`).  Where `lnc_rint` must find whole packets two more parts are needed:
each second buffer follows its first, and only the last may still lack its second
(`Whole`); RINT, in the register or in the copy not yet acted on, means that the packet
at `recv_next` is complete (`RintMeansPacket`).  `Whole` first had less: that a
first buffer is not followed by another first buffer was missing, and the step that
consumes a packet could not be proved without it.

`PCNetDriverProofs` proves that the two halves fit together, for every pair of ring
sizes.  The driver's steps are shown to be steps of each half in the environment that
half assumes:

* `DriverRxInvariant`: `RxInv` holds of the driver under every setting, and with it
  `DriverInputFlushed` (`RxFlushed`) and, under `RxWhole` and `RxAligned`,
  `DriverRxInStep` (`RxInStep`);
* `DriverImplementsTx` (`ImplementsTx`) under `ResetsAllowed`: either PCNetTx allows
  for resets from `lnc_rint` or these cannot happen (`RxWhole`);
* carried over by these two: `DriverQueueWoken` (`StalledMeansFull`),
  `DriverTintInSync` (`TintSync`), `DriverFullRingAwake` (`FullRingWakes`),
  `DriverTxInOrder` and `DriverRxInOrder`, each under the hypotheses it has of its half
  and, for the transmit half, `RxWhole`.

The refinement counts the receiver's interrupts as PCNetTx's unasked events, of which
there are finitely many: `RaisesCounted`, an invariant of its own, says that there is a
frame for each of them, so that the bound is never met.  `TintSync` of the driver needs
`RxWhole`: without it `DriverStale` shows it violated.

`PCNetActivationProofs` proves, for every set of outcomes of `lnc_init`, with or
without refused opens, and for every media table:

* `LevelInvariant`: `ActSpec => []LevelInv`;
* from it `ActTypeCorrect`, `DisabledIsOff` (`Level0Off`) and `EnabledIsUp`
  (`EnabledMeansUp`).

`EnabledMeansUp` speaks of the time between calls and is not inductive; `LevelInv`
says what is on and what is off at each level, in the middle of a call too.  The
interesting step is `MediumRefused`, which breaks what level 0 means: it cannot be taken
if there is a default medium (`WantedType`), hence the antecedent of `Level0Off`.
The handler and promiscuous mode can run the chip only at level 2, and a stopped chip
raises nothing, which is why CSR0 stays empty at level 0.

`FullDuplexRemembered` (`FullDuplexKept`) has an invariant of its own, as nothing in it
depends on the levels.

`PCNetLifecycleProofs` proves, for every set of groups, ring memory and outcome:

* `LayoutFits`: the layout fits in the size asked for, whatever the base address and
  the two ring sizes, and the descriptors are aligned;
* `LifeImplements` (`ImplementsActivation`): every action of PCNetLifecycle but `Start`
  is one of PCNetActivation or leaves its variables alone; `Start` writes CSR0, and that
  this changes nothing is an invariant of its own (`NewIsOff`).  By this theorem the
  four results on PCNetActivation hold of PCNetLifecycle;
* `UsesWhatItHolds` (`HeldWhileUsed`) and `MemoryAndModeRight` (`MemoryAndMode`), from
  `LifeInv`: what is held in each phase, and that a chip above level 0 was initialised
  with the access mode found by a probe that could not be misled.

`PCNetLinuxProofs` proves, for every pair of ring sizes that are powers of two, every
`MaxWork` and every number of test frames:

* `LinuxTypeCorrect` (`LinuxTypeOK`), one lemma for each group of actions;
* `LinuxInvariant`: what each stage of the interface's life implies;
* from it `BuffersStay` (`UpHasBuffers`) and `ReleasesAll` (`Released`);
* `TrafficInvariant`: `LinuxSpec => []TrafficInv`, the inductive invariant of the rings;
* from it `TxStaysInStep` (`TxInStep`), `NoOverwrite` (`AwakeMeansRoom`),
  `RxStaysInStep` (`LinuxRxInStep`), `ReceiverNotWedged` (`NeverWedged`) and
  `StoppedQueueWaits` (`QueueWaits`).

`UpHasBuffers` is what makes `pcnet32_restart`'s ignored failure harmless: a restart
under a granted line needs no memory (`RestartSucceeds`).  It is not inductive without
the stages: the self-test's restart may well run out of memory, and only the stages say
that no line is granted then (`LineAndChip`).

**The rings.** What `TxInStep` and `LinuxRxInStep` need is `ChipRuns` (a line with a handler has a running chip, so that a restart is the only
way the chip's place changes) and the positions: `cur_tx` and `dirty_tx` are counted
modulo twice the ring, and the lemmas on `Place` and `Delta` turn them into a distance
between 0 and the ring size.  `AwakeMeansRoom` rests on `PacketsHaveBase`, because
`start_xmit` tests the next entry's address and not its buffer.  `QueueWaits` needs most:
that a stopped queue has a transmit interrupt ahead (`StoppedWaits`) is true only if a
transmitter that an underflow has turned off is going to be restarted, and that depends on
where the handler is: the entry that tells of it has still to be looked at, with an interrupt
pending, or `must_restart` is set (`OffIsSeen`).  `HandlerCauses` says which causes the
handler still holds at each place.  `NeverWedged` rests on `SqueezeSeen`: with no entry
left to the chip it has set RINT, or the handler is in `pcnet32_rx`.

`LifeTypeCorrect` (`LifeTypeOK`) and `ListedGroupsPass` (`FilterAfterInit`), in
`PCNetLifecycleProofs`, rest on `FilterInv`: the remembered filter is the one of the
list, the chip's is the remembered one once it came from the initialization block.
`ListedGroupsPass` has the hypothesis `HashAgrees`, that the driver's hash is the chip's
on the groups: a CRC is a fold over the bytes of an address, out of the provers' reach.
TLC evaluates it (`HashesAgree` in `MCLifecycle`, section 3).

Assumptions: `IntrAssumption`, `TxAssumption`, `RxAssumption`, `DriverAssumption`,
`ActivationAssumption`, `FilterAssumption`, `MemoryAssumption`, `LifecycleAssumption` and
`LinuxAssumption` on the constants, all evaluated by TLC in the runs of these modules.

Checked by TLC only: liveness under fairness (`DriverDrains`, `IntrReturns`,
`DriverIntrReturns`, `InterruptsServed`, `LinkReported`), which is outside the prover's
reach, and the agreement of the two hashes.  The runs that expect a violation are
counterexamples and have no theorem.

## 6. Not modelled

* The contents of the output queue across activation: `flush` at level 0 and the
  packets left in the transmit ring, which the next `lnc_init` discards.
* Packet contents and lengths; counters and log lines; the checks compiled only
  under DEBUG (PCNet_lnc.cpp:374-387, 612-619, 642-649), which state as resets what
  `TintSync` and `RintSync` state as properties.
* A chip that sets IDON after the driver has given up polling.
* Power management and the kernel debugger: no state, or not compiled.
* Of `pcnet32-linux.c`: the register dump, ring parameters and settings of ethtool, LED
  blinking, MII access and the link watchdog, statistics; calls of the stack during the
  self-test; the self-test's comparison when its restart had found no memory (it then
  uses a null pointer); the multicast table, which `pcnet32_load_multicast` writes to
  the initialization block before a restart.
* The other drivers under `Useful Stuff`, third-party and not built: `if_lnc.c` is the
  original of `PCNet_lnc.cpp`, whose port is modelled, and would repeat it;
  `pcnet32-sanos.c` follows the Linux driver; `WiFiPower.cpp` belongs to another driver.
