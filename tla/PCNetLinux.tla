------------------------------ MODULE PCNetLinux ------------------------------
(* The interface side of pcnet32-linux.c: one card, from its probe to its    *)
(* removal.  Every routine but the probe holds lp->lock, so open, close,     *)
(* start_xmit, tx_timeout and set_multicast_list are single steps that wait  *)
(* for a running interrupt handler; the handler itself is cut where the chip *)
(* can get in between.  Entries of the rings hold what the driver and the    *)
(* chip tell apart, the contents of frames are left out.                     *)
(*                                                                           *)
(* The kernel keeps open, close, self-test and removal apart (rtnl_lock) and *)
(* calls start_xmit only while the queue is awake; its transmit watchdog     *)
(* fires only for a stopped queue.                                           *)
EXTENDS PCNetLinuxProbe, Integers

CONSTANTS
    TxRing,      \* TX_RING_SIZE
    RxRing,      \* RX_RING_SIZE
    MaxWork,     \* max_interrupt_work
    NumBuffs     \* numbuffs, the frames of the self-test

ASSUME LinuxAssumption ==
    /\ TxRing \in Nat /\ TxRing > 2 /\ \E k \in 0..TxRing : TxRing = 2^k
    /\ RxRing \in Nat /\ RxRing > 1 /\ \E k \in 0..RxRing : RxRing = 2^k
    /\ MaxWork \in Nat \ {0}
    /\ NumBuffs \in Nat /\ NumBuffs =< TxRing /\ NumBuffs =< RxRing

VARIABLES
    life,        \* the interface: see Lives
    selfTest,    \* "no", or the interface's state the self-test began in
    irq,         \* request_irq has been granted
    awake,       \* the stack may call start_xmit
    txFull,      \* lp->tx_full
    curTx,       \* lp->cur_tx, counted modulo twice the ring
    dirtyTx,     \* lp->dirty_tx, likewise
    curRx,       \* lp->cur_rx modulo the ring
    tx,          \* tx_ring and tx_skbuff
    rx,          \* rx_ring and rx_skbuff
    chip,        \* CSR0 and the chip's own ring positions
    pc,          \* where the interrupt handler is
    csr0,        \* the causes it read and has yet to look at
    work,        \* its boguscnt
    bogus,       \* boguscnt of pcnet32_rx
    mustRestart  \* must_restart

handlerVars == <<pc, csr0, work, bogus, mustRestart>>
ringVars == <<txFull, curTx, dirtyTx, curRx, tx, rx>>
linuxVars == <<probeVars, life, selfTest, irq, awake, ringVars, chip, handlerVars>>

(* "closing" until pcnet32_close has the lock, "halted" until it has freed   *)
(* the line; "testing" and "tested" only in the offline self-test.           *)
Lives == {"absent", "down", "up", "closing", "halted", "testing", "tested"}

TxEntries == 0..(TxRing - 1)
RxEntries == 0..(RxRing - 1)
Counts == 0..(2 * TxRing - 1)

(* The causes the handler acts on; IDON, BABL and MERR are only acknowledged. *)
Causes == {"RINT", "TINT", "MISS"}

(* own: the descriptor's OWN bit; base: its address is not 0; skb: whose     *)
(* buffer tx_skbuff holds; uflo: the underflow bit of its misc word.         *)
TxEntry == [own: BOOLEAN, base: BOOLEAN, skb: {"none", "packet", "test"}, uflo: BOOLEAN]
RxEntry == [own: BOOLEAN, skb: BOOLEAN]

LinuxTypeOK ==
    /\ ProbeTypeOK
    /\ life \in Lives
    /\ selfTest \in {"no", "down", "up"}
    /\ irq \in BOOLEAN /\ awake \in BOOLEAN /\ txFull \in BOOLEAN
    /\ curTx \in Counts /\ dirtyTx \in Counts /\ curRx \in RxEntries
    /\ tx \in [TxEntries -> TxEntry] /\ rx \in [RxEntries -> RxEntry]
    /\ chip \in [on: BOOLEAN, txon: BOOLEAN, inea: BOOLEAN, bits: SUBSET Causes,
                 txd: TxEntries, rxd: RxEntries]
    /\ pc \in {"idle", "loop", "rx", "tx", "miss", "restart"}
    /\ csr0 \subseteq Causes /\ work \in 0..MaxWork
    /\ bogus \in 0..(RxRing \div 2) /\ mustRestart \in BOOLEAN

Stopped == [on |-> FALSE, txon |-> FALSE, inea |-> FALSE, bits |-> {},
            txd |-> 0, rxd |-> 0]

(* INIT, then STRT; CSR0 bit 6 is set with it or left to the handler's exit. *)
Started(inea) == [on |-> TRUE, txon |-> TRUE, inea |-> inea, bits |-> {},
                  txd |-> 0, rxd |-> 0]

LockFree == pc = "idle"

-----------------------------------------------------------------------------
(* The rings *)

NoTx == [own |-> FALSE, base |-> FALSE, skb |-> "none", uflo |-> FALSE]
NoRx == [own |-> FALSE, skb |-> FALSE]

TxMemory == [i \in TxEntries |-> NoTx]
RxMemory == [i \in RxEntries |-> NoRx]

(* All buffers of the transmit ring are freed, what was sent or not. *)
PurgeTxRing == [i \in TxEntries |-> [tx[i] EXCEPT !.own = FALSE, !.skb = "none"]]

(* pcnet32_init_ring gets a buffer for each receive entry that lacks one and *)
(* gives up at the first it cannot get: upTo entries are ready then.         *)
BuffersFor(upTo) == upTo = RxRing \/ (upTo < RxRing /\ ~rx[upTo].skb)

FillRx(upTo) ==
    [i \in RxEntries |-> IF i < upTo THEN [own |-> TRUE, skb |-> TRUE] ELSE rx[i]]

(* The transmit half clears the descriptors, but frees no buffer. *)
ClearOwn(ring) == [i \in TxEntries |-> [ring[i] EXCEPT !.own = FALSE]]
ClearTx(ring) == [i \in TxEntries |-> [ring[i] EXCEPT !.own = FALSE, !.base = FALSE]]

CountersToZero ==
    /\ txFull' = FALSE
    /\ curTx' = 0 /\ dirtyTx' = 0 /\ curRx' = 0

(* pcnet32_restart, after a stop or a reset.  Without buffers for the whole  *)
(* receive ring it returns and leaves the chip stopped.                      *)
Restart(inea) ==
    \E upTo \in 0..RxRing :
        /\ BuffersFor(upTo)
        /\ rx' = FillRx(upTo)
        /\ CountersToZero
        /\ tx' = IF upTo = RxRing THEN ClearTx(PurgeTxRing) ELSE PurgeTxRing
        /\ chip' = IF upTo = RxRing THEN Started(inea) ELSE Stopped

-----------------------------------------------------------------------------
(* Calls of the kernel *)

(* The card has been registered; RemoveOne below ends what begins here. *)
Appears ==
    /\ life = "absent"
    /\ ProbeNext
    /\ life' = IF "registered" \in bus' THEN "down" ELSE "absent"
    /\ UNCHANGED <<selfTest, irq, awake, ringVars, chip, handlerVars>>

(* The private structure goes back with whatever buffers it still names. *)
Disappears ==
    /\ life = "down"
    /\ RemoveOne
    /\ life' = "absent"
    /\ tx' = TxMemory /\ rx' = RxMemory
    /\ UNCHANGED <<selfTest, irq, awake, txFull, curTx, dirtyTx, curRx, chip, handlerVars>>

(* pcnet32_open from request_irq on: no line, no valid address, not enough   *)
(* buffers, or the chip runs and the queue is started.                       *)
OpenRefused ==
    /\ irq' = FALSE
    /\ UNCHANGED <<awake, ringVars, chip>>

OpenNoBuffers ==
    /\ \E upTo \in 0..(RxRing - 1) : BuffersFor(upTo)
    /\ irq' = FALSE
    /\ rx' = RxMemory
    /\ CountersToZero
    /\ chip' = Stopped
    /\ UNCHANGED <<awake, tx>>

OpenSucceeds ==
    /\ irq' = TRUE
    /\ rx' = FillRx(RxRing)
    /\ tx' = ClearTx(tx)
    /\ CountersToZero
    /\ chip' = Started(TRUE)
    /\ awake' = TRUE

Open ==
    /\ life = "down" /\ LockFree
    /\ \/ OpenSucceeds /\ life' = "up"
       \/ (OpenRefused \/ OpenNoBuffers) /\ UNCHANGED life
    /\ UNCHANGED <<probeVars, selfTest, handlerVars>>

(* The ring is full when the entry after the one just filled is in use. *)
NeverFull(entry) == FALSE
RingFull(entry) == tx[(entry + 1) % TxRing].base

(* pcnet32_start_xmit: the packet takes the entry at cur_tx. *)
StartXmit ==
    LET entry == curTx % TxRing
    IN  /\ life = "up" /\ awake /\ LockFree
        /\ tx' = [tx EXCEPT ![entry] =
                    [own |-> TRUE, base |-> TRUE, skb |-> "packet", uflo |-> FALSE]]
        /\ curTx' = (curTx + 1) % (2 * TxRing)
        /\ chip' = [chip EXCEPT !.inea = chip.on]
        /\ txFull' = (txFull \/ RingFull(entry))
        /\ awake' = ~RingFull(entry)
        /\ UNCHANGED <<probeVars, life, selfTest, irq, dirtyTx, curRx, rx, handlerVars>>

(* pcnet32_tx_timeout and pcnet32_set_multicast_list both stop the chip,     *)
(* restart it and wake the queue, whether the restart succeeded or not.      *)
StopAndRestart ==
    /\ life = "up" /\ LockFree
    /\ Restart(TRUE)
    /\ awake' = TRUE
    /\ UNCHANGED <<probeVars, life, selfTest, irq, handlerVars>>

TxTimeout == ~awake /\ StopAndRestart
SetMulticastList == StopAndRestart

(* pcnet32_close: the queue is stopped before the lock is taken, the buffers *)
(* are freed after the interrupt line has been given back.                   *)
CloseQueue ==
    /\ life = "up"
    /\ life' = "closing"
    /\ awake' = FALSE
    /\ UNCHANGED <<probeVars, selfTest, irq, ringVars, chip, handlerVars>>

CloseStop ==
    /\ life = "closing" /\ LockFree
    /\ life' = "halted"
    /\ chip' = Stopped
    /\ UNCHANGED <<probeVars, selfTest, irq, awake, ringVars, handlerVars>>

FreedRings ==
    /\ rx' = RxMemory
    /\ tx' = PurgeTxRing

CloseFree ==
    /\ life = "halted" /\ LockFree
    /\ life' = IF selfTest = "no" THEN "down" ELSE "testing"
    /\ irq' = FALSE
    /\ FreedRings
    /\ UNCHANGED <<probeVars, selfTest, awake, txFull, curTx, dirtyTx, curRx, chip,
                   handlerVars>>

(* The offline self-test closes a running interface first. *)
SelfTest ==
    /\ selfTest = "no"
    /\ \/ /\ life = "up"
          /\ life' = "closing" /\ selfTest' = "up"
          /\ awake' = FALSE
       \/ /\ life = "down"
          /\ life' = "testing" /\ selfTest' = "down"
          /\ UNCHANGED awake
    /\ UNCHANGED <<probeVars, irq, ringVars, chip, handlerVars>>

(* Its middle: purge, restart, stop, sent many frames of its own of which    *)
(* looped come back, stop, compare, with fewer than numbuffs buffers no      *)
(* frame is sent.  A receive ring without its buffers would be a null        *)
(* pointer in the comparison, so that case is left out here.                 *)
TestFrames ==
    /\ life = "testing"
    /\ \E upTo \in 0..RxRing, sent, looped \in 0..NumBuffs :
        /\ BuffersFor(upTo)
        /\ upTo = RxRing \/ sent < NumBuffs
        /\ looped = 0 \/ sent = NumBuffs
        /\ rx' = [i \in RxEntries |->
                    [FillRx(upTo)[i] EXCEPT !.own = @ /\ i >= looped]]
        /\ tx' = [i \in TxEntries |->
                    IF i < sent
                    THEN [own |-> i >= looped, base |-> TRUE, skb |-> "test", uflo |-> FALSE]
                    ELSE PurgeTxRing[i]]
    /\ CountersToZero
    /\ chip' = Stopped
    /\ life' = "tested"
    /\ UNCHANGED <<probeVars, selfTest, irq, awake, handlerVars>>

(* Its end: a running interface is opened again, and what open returns is    *)
(* not looked at.                                                            *)
TestEnd ==
    /\ life = "tested"
    /\ \/ /\ selfTest = "up"
          /\ OpenSucceeds \/ OpenRefused \/ OpenNoBuffers
       \/ /\ selfTest = "down"
          /\ UNCHANGED <<irq, awake, ringVars, chip>>
    /\ life' = selfTest
    /\ selfTest' = "no"
    /\ UNCHANGED <<probeVars, handlerVars>>

-----------------------------------------------------------------------------
(* The interrupt handler *)

(* Which part of the loop's body comes next: pcnet32_rx for received frames, *)
(* the sent entries, pcnet32_rx for a missed frame, the restart, or the head *)
(* of the loop again.  left are the causes still to be looked at.            *)
GoOn(left, must) ==
    /\ csr0' = left
    /\ mustRestart' = must
    /\ pc' = IF "RINT" \in left THEN "rx"
             ELSE IF "TINT" \in left THEN "tx"
             ELSE IF "MISS" \in left THEN "miss"
             ELSE IF must THEN "restart" ELSE "loop"
    /\ bogus' = IF pc' \in {"rx", "miss"} THEN RxRing \div 2 ELSE 0

(* The head of the loop: read CSR0 and acknowledge what it shows, which also *)
(* clears the interrupt enable; with nothing to see, leave and set it again. *)
IrqRead(left) ==
    /\ chip.bits # {}
    /\ chip' = [chip EXCEPT !.bits = {}, !.inea = FALSE]
    /\ work' = left
    /\ GoOn(chip.bits, FALSE)
    /\ UNCHANGED <<probeVars, life, selfTest, irq, awake, ringVars>>

(* The chip asserts its line.  On a shared line the handler is also called   *)
(* without a cause; it then returns and has changed nothing.                 *)
IrqEnter ==
    /\ irq /\ LockFree /\ chip.inea
    /\ IrqRead(MaxWork - 1)

IrqLoop ==
    /\ pc = "loop" /\ work > 0
    /\ IrqRead(work - 1)

StaysOff == chip
InterruptsOn == [chip EXCEPT !.inea = chip.on]

IrqReturn ==
    /\ pc = "loop" /\ (chip.bits = {} \/ work = 0)
    /\ pc' = "idle"
    /\ chip' = InterruptsOn
    /\ work' = 0
    /\ UNCHANGED <<probeVars, life, selfTest, irq, awake, ringVars, csr0, bogus, mustRestart>>

(* One turn of the loop of pcnet32_rx: the frame goes up in its own buffer   *)
(* or in a copy, or it is bad and goes nowhere; in each case a buffer stays  *)
(* in the entry, which goes back to the chip.                                *)
InRx == pc \in {"rx", "miss"}
RxDone == GoOn(csr0 \ {IF pc = "rx" THEN "RINT" ELSE "MISS"}, mustRestart)

GiveBackPast ==
    /\ rx' = [rx EXCEPT ![curRx].own = TRUE]
    /\ curRx' = curRx + 1

GiveBackEmpty ==
    /\ rx' = [rx EXCEPT ![curRx] = [own |-> TRUE, skb |-> FALSE]]
    /\ curRx' = (curRx + 1) % RxRing

GiveBackStay ==
    /\ rx' = [rx EXCEPT ![curRx].own = TRUE]
    /\ UNCHANGED curRx

GiveBack ==
    /\ rx' = [rx EXCEPT ![curRx].own = TRUE]
    /\ curRx' = (curRx + 1) % RxRing

RxUnchanged ==
    UNCHANGED <<probeVars, life, selfTest, irq, awake, txFull, curTx, dirtyTx, tx, chip,
                work>>

RxFrame ==
    /\ InRx /\ ~rx[curRx].own
    /\ GiveBack
    /\ IF bogus > 1
       THEN bogus' = bogus - 1 /\ UNCHANGED <<pc, csr0, mustRestart>>
       ELSE RxDone
    /\ RxUnchanged

(* No memory for the frame: it stays where it is, unless the chip has at     *)
(* most one entry left.  Then it is dropped, and the loop ends either way.   *)
Unread == CHOOSE n \in 0..RxRing :
             /\ \A i \in 0..(n - 1) : ~rx[(curRx + i) % RxRing].own
             /\ n = RxRing \/ rx[(curRx + n) % RxRing].own

NeverSqueezed == FALSE
Squeezed == Unread > RxRing - 2

RxSqueeze ==
    /\ InRx /\ ~rx[curRx].own
    /\ IF Squeezed THEN GiveBack ELSE UNCHANGED <<rx, curRx>>
    /\ RxDone
    /\ RxUnchanged

RxEmpty ==
    /\ InRx /\ rx[curRx].own
    /\ RxDone
    /\ UNCHANGED <<rx, curRx>>
    /\ RxUnchanged

(* One turn of the loop over the sent entries. *)
Reaped == pc = "tx" /\ (dirtyTx = curTx \/ tx[dirtyTx % TxRing].own)

TxReap ==
    /\ pc = "tx" /\ ~Reaped
    /\ tx' = [tx EXCEPT ![dirtyTx % TxRing] = [@ EXCEPT !.base = FALSE, !.skb = "none"]]
    /\ dirtyTx' = (dirtyTx + 1) % (2 * TxRing)
    /\ mustRestart' = (mustRestart \/ tx[dirtyTx % TxRing].uflo)
    /\ UNCHANGED <<probeVars, life, selfTest, irq, awake, txFull, curTx, curRx, rx, chip,
                   pc, csr0, work, bogus>>

(* Its end: dirty_tx is put right if it ran past cur_tx, and a full ring     *)
(* with room again wakes the queue.                                          *)
Delta == (curTx - dirtyTx) % (2 * TxRing)
InSync(delta) == IF delta > TxRing THEN delta - TxRing ELSE delta
RoomAgain(delta) == delta < TxRing - 2

TxReaped ==
    /\ Reaped
    /\ dirtyTx' = IF Delta > TxRing THEN (dirtyTx + TxRing) % (2 * TxRing) ELSE dirtyTx
    /\ IF txFull /\ ~awake /\ RoomAgain(InSync(Delta))
       THEN txFull' = FALSE /\ awake' = TRUE
       ELSE UNCHANGED <<txFull, awake>>
    /\ GoOn(csr0 \ {"TINT"}, mustRestart)
    /\ UNCHANGED <<probeVars, life, selfTest, irq, curTx, curRx, tx, rx, chip, work>>

(* After an underflow the chip is reset and restarted with its interrupts    *)
(* still off, and the queue is awake.                                        *)
UnderflowRestart ==
    /\ pc = "restart"
    /\ Restart(FALSE)
    /\ awake' = TRUE
    /\ GoOn(csr0, FALSE)
    /\ UNCHANGED <<probeVars, life, selfTest, irq, work>>

HandlerStep ==
    IrqLoop \/ IrqReturn \/ RxFrame \/ RxSqueeze \/ RxEmpty \/ TxReap \/ TxReaped
    \/ UnderflowRestart

-----------------------------------------------------------------------------
(* The chip *)

ChipOnly == UNCHANGED <<probeVars, life, selfTest, irq, awake, txFull, curTx, dirtyTx, curRx,
                        handlerVars>>

Raise(c, cause) == [c EXCEPT !.bits = @ \cup {cause}]

(* A frame is sent, or fails; an underflow turns the transmitter off. *)
ChipSends ==
    /\ chip.on /\ chip.txon /\ tx[chip.txd].own
    /\ \E uflo \in BOOLEAN :
        /\ tx' = [tx EXCEPT ![chip.txd] = [@ EXCEPT !.own = FALSE, !.uflo = uflo]]
        /\ chip' = Raise([chip EXCEPT !.txd = (@ + 1) % TxRing, !.txon = ~uflo], "TINT")
    /\ UNCHANGED rx /\ ChipOnly

(* A frame arrives, into the next entry or nowhere. *)
ChipReceives ==
    /\ chip.on
    /\ IF rx[chip.rxd].own
       THEN /\ rx' = [rx EXCEPT ![chip.rxd].own = FALSE]
            /\ chip' = Raise([chip EXCEPT !.rxd = (@ + 1) % RxRing], "RINT")
       ELSE /\ UNCHANGED rx
            /\ chip' = Raise(chip, "MISS")
    /\ UNCHANGED tx /\ ChipOnly

-----------------------------------------------------------------------------
LinuxInit ==
    /\ ProbeInit
    /\ life = "absent" /\ selfTest = "no"
    /\ irq = FALSE /\ awake = FALSE /\ txFull = FALSE
    /\ curTx = 0 /\ dirtyTx = 0 /\ curRx = 0
    /\ tx = TxMemory /\ rx = RxMemory
    /\ chip = Stopped
    /\ pc = "idle" /\ csr0 = {} /\ work = 0 /\ bogus = 0 /\ mustRestart = FALSE

LinuxNext ==
    \/ Appears \/ Disappears \/ Open \/ StartXmit \/ TxTimeout \/ SetMulticastList
    \/ CloseQueue \/ CloseStop \/ CloseFree \/ SelfTest \/ TestFrames \/ TestEnd
    \/ IrqEnter \/ HandlerStep \/ ChipSends \/ ChipReceives

LinuxSpec == LinuxInit /\ [][LinuxNext]_linuxVars

-----------------------------------------------------------------------------
(* While the interrupt handler may run and the interface is not being        *)
(* released, every receive entry has its buffer, though frames are handed up *)
(* in their own buffers: so a restart never fails for want of one, which     *)
(* tx_timeout and set_multicast_list do not look at.                         *)
UpHasBuffers == irq => \A i \in RxEntries : rx[i].skb

(* Entries between two positions, counting round the ring. *)
Place(i, from, size) == (i - from) % size

(* On a running chip the entries from dirty_tx to cur_tx, and no others,     *)
(* have an address and a packet, and of these the chip owns exactly those    *)
(* from its own position on, through restarts and underflows.                *)
TxInStep ==
    chip.on =>
        /\ Delta =< TxRing
        /\ \E sent \in 0..Delta :
            /\ chip.txd = (dirtyTx + sent) % TxRing
            /\ \A i \in TxEntries :
                LET place == Place(i, dirtyTx, TxRing)
                IN  /\ tx[i].base <=> place < Delta
                    /\ tx[i].skb = "packet" <=> place < Delta
                    /\ tx[i].own <=> place \in sent..(Delta - 1)

(* start_xmit does not look whether its entry is free: while the queue is    *)
(* awake, it is, so no packet of the stack is ever overwritten.              *)
AwakeMeansRoom ==
    life = "up" /\ awake => tx[curTx % TxRing].skb # "packet"

(* cur_rx and the chip's position enclose exactly the frames not looked at,  *)
(* so frames are handed up in the order they came in.                        *)
LinuxRxInStep ==
    chip.on => \E unread \in 0..RxRing :
        /\ chip.rxd = (curRx + unread) % RxRing
        /\ \A i \in RxEntries : rx[i].own <=> Place(i, curRx, RxRing) >= unread

(* However often memory runs out, the chip is not left without an entry and  *)
(* without an interrupt that would give it one.                              *)
NeverWedged ==
    chip.on /\ irq /\ LockFree =>
        \/ \E i \in RxEntries : rx[i].own
        \/ chip.inea /\ "RINT" \in chip.bits

(* A stopped queue of an open interface waits for something that comes       *)
(* without the stack's watchdog: the chip will send and interrupt, or has.   *)
QueueWaits ==
    life = "up" /\ irq /\ ~awake /\ LockFree =>
        /\ txFull /\ chip.on /\ chip.inea
        /\ \/ "TINT" \in chip.bits
           \/ chip.txon /\ \E i \in TxEntries : tx[i].own

(* A failed probe and a removal give back all but the enabling of the PCI    *)
(* device; a closed interface has no line, no packet and no running chip;    *)
(* and a registered one has all it uses.                                     *)
Released ==
    /\ life = "absent" /\ probe = "idle" => bus \subseteq {"enabled"}
    /\ life # "absent" => {"region", "netdev", "consistent"} \subseteq bus
    /\ life \notin {"up", "closing"} => ~chip.on
    /\ life \in {"absent", "down"} =>
        ~irq /\ \A i \in TxEntries : tx[i].skb # "packet"

(* A buffer leaves tx_skbuff by being freed, never by being overwritten:     *)
(* "We must free the original skb", as the handler says where it frees it.   *)
BuffersFreed ==
    [][\A i \in TxEntries :
        tx[i].skb # "none" => tx'[i].skb \in {tx[i].skb, "none"}]_linuxVars
=============================================================================
