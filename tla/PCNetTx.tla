------------------------------ MODULE PCNetTx ------------------------------
(* The transmit ring: lnc_output_packet fills descriptors, the chip sends   *)
(* them and gives them back, lnc_tint reclaims them and wakes the output    *)
(* queue.  The receive half of lnc_intr is an environment that may raise    *)
(* RINT and whose handler may reset the adapter.                            *)
EXTENDS PCNetIntr

CONSTANTS
    NTx,          \* number of transmit descriptors, LNC_NDESC(sc.ntdre)
    MaxPackets,   \* bound on the packets the network stack sends
    TxResults,    \* how a transmission may end, within {"ok", "err", "uflo"}
    TintDelayed,  \* the chip sets TINT in a step after it cleared OWN
    RxResets      \* lnc_rint may find its ring out of sync and reset

ASSUME TxAssumption ==
    /\ NTx \in Nat \ {0}
    /\ MaxPackets \in Nat
    /\ TxResults \subseteq {"ok", "err", "uflo"}
    /\ TintDelayed \in BOOLEAN
    /\ RxResets \in BOOLEAN

INSTANCE PCNetRing WITH NDesc <- NTx

VARIABLES
    trans,              \* the ring: status bits and the packet in the buffer
    trans_next,         \* the oldest descriptor not reclaimed
    next_to_send,       \* the next descriptor to fill
    pending_transmits,  \* descriptors in use
    lookahead,          \* lnc_tint has handled a packet already
    serviceOutputQ,     \* handleInterrupt's flag, set by lnc_tint
    stalled,            \* the output queue waits for service()
    offered,            \* packets the stack has put in the queue
    accepted,           \* packets lnc_output_packet has taken
    txd,                \* the chip's current transmit descriptor
    tintDue,            \* the chip has yet to set TINT, see TintDelayed
    handled             \* the packet the chip finished last

driverTxVars == <<trans_next, next_to_send, pending_transmits>>
queueVars == <<stalled, offered, accepted>>
txVars == <<trans, driverTxVars, lookahead, serviceOutputQ, queueVars,
            txd, tintDue, handled>>
vars == <<intrVars, txVars>>

TMDFlags == {"OWN", "STP", "ENP", "ERR", "UFLO"}

TxTypeOK ==
    /\ IntrTypeOK
    /\ trans \in [Idx -> [status : SUBSET TMDFlags, pkt : 0 .. MaxPackets]]
    /\ trans_next \in Idx
    /\ next_to_send \in Idx
    /\ pending_transmits \in 0 .. NTx
    /\ lookahead \in BOOLEAN
    /\ serviceOutputQ \in BOOLEAN
    /\ stalled \in BOOLEAN
    /\ offered \in 0 .. MaxPackets
    /\ accepted \in 0 .. offered
    /\ txd \in Idx
    /\ tintDue \in BOOLEAN
    /\ handled \in 0 .. MaxPackets

\* A descriptor the driver may fill, and tests of status bits.
Free == [status |-> {}, pkt |-> 0]

Has(i, flags) == trans[i].status \cap flags # {}

----------------------------------------------------------------------------
\* The stack hands a packet to the output queue.
Enqueue ==
    /\ offered < MaxPackets
    /\ offered' = offered + 1
    /\ UNCHANGED <<intrVars, trans, driverTxVars, lookahead, serviceOutputQ,
                   stalled, accepted, txd, tintDue, handled>>

\* The queue may call outputPacket: it runs under the work loop's gate.
CanOutput == pc = "idle" /\ ~stalled /\ accepted < offered

\* Mutants of RingFull: off by one to either side.
RingFullEarly == pending_transmits >= NTx - 1
RingFullLate == pending_transmits > NTx

\* lnc_output_packet's test.
RingFull == pending_transmits >= NTx

\* The ring is full: kIOReturnOutputStall, the queue keeps the packet.
OutputStall ==
    /\ CanOutput
    /\ RingFull
    /\ stalled' = TRUE
    /\ UNCHANGED <<intrVars, trans, driverTxVars, lookahead, serviceOutputQ,
                   offered, accepted, txd, tintDue, handled>>

\* What lnc_output_packet writes to CSR0, apart from TDMD.
OutputWrite == {"IENA"}

\* The packet is copied to the next buffer and handed to the chip; TDMD is
\* not modelled, the chip polls its current descriptor anyway.
OutputPacket ==
    /\ CanOutput
    /\ ~RingFull
    /\ pending_transmits' = pending_transmits + 1
    /\ trans' = [trans EXCEPT ![next_to_send] =
                     [status |-> {"OWN", "STP", "ENP"}, pkt |-> accepted + 1]]
    /\ next_to_send' = Inc(next_to_send)
    /\ accepted' = accepted + 1
    /\ csr0' = CsrWrite(csr0, OutputWrite)
    /\ UNCHANGED <<pc, lcsr, initDone, resets, events, trans_next, lookahead,
                   serviceOutputQ, stalled, offered, txd, tintDue, handled>>

\* lnc_watchdog, every four seconds while the link is up.
Watchdog ==
    /\ pc = "idle"
    /\ \E linkUp \in BOOLEAN :
           stalled' = (stalled /\ ~(linkUp /\ pending_transmits # 0))
    /\ UNCHANGED <<intrVars, trans, driverTxVars, lookahead, serviceOutputQ,
                   offered, accepted, txd, tintDue, handled>>

----------------------------------------------------------------------------
\* Mutant of StalledAfterInit: the queue is not serviced.
StalledForgotten(ok) == stalled

\* lnc_init calls service() only if IDON was seen.
StalledAfterInit(ok) == stalled /\ ~ok

\* The ring as lnc_init leaves it.
InitRing(ok) ==
    /\ trans' = [i \in Idx |-> Free]
    /\ trans_next' = 0
    /\ next_to_send' = 0
    /\ pending_transmits' = 0
    /\ lookahead' = FALSE
    /\ stalled' = StalledAfterInit(ok)
    /\ txd' = 0
    /\ tintDue' = FALSE
    /\ UNCHANGED <<serviceOutputQ, offered, accepted, handled>>

LncReset == \E ok \in InitOutcomes : ResetChip(ok) /\ InitRing(ok)

SetPromiscuousMode == \E ok \in InitOutcomes : PromiscChip(ok) /\ InitRing(ok)

SetMulticastList ==
    /\ MulticastChip
    /\ txd' = IF ReloadOnStart THEN 0 ELSE txd
    /\ tintDue' = FALSE
    /\ UNCHANGED <<trans, driverTxVars, lookahead, serviceOutputQ, queueVars,
                   handled>>

----------------------------------------------------------------------------
\* handleInterrupt around lnc_intr: serviceOutputQ starts false and the queue
\* is serviced at the end if lnc_tint has set it.
TxIntrEnter ==
    /\ IntrEnter
    /\ serviceOutputQ' = FALSE
    /\ UNCHANGED <<trans, driverTxVars, lookahead, queueVars, txd, tintDue,
                   handled>>

TxIntrRead == IntrRead /\ UNCHANGED txVars

TxIntrAck == IntrAck /\ UNCHANGED txVars

TxIntrReturn ==
    /\ IntrReturn
    /\ stalled' = (stalled /\ ~serviceOutputQ)
    /\ serviceOutputQ' = FALSE
    /\ UNCHANGED <<trans, driverTxVars, lookahead, offered, accepted, txd,
                   tintDue, handled>>

----------------------------------------------------------------------------
(* lnc_tint.  One turn of its do-while looks at the packet at trans_next.   *)
(* The turn is one step: all it touches is a packet the chip has given up,  *)
(* which TintSync says and the chip's steps do not disturb.                 *)

\* How far the search for the end of the packet goes; empty: for ever.
ScanStops ==
    IF Has(trans_next, {"ENP", "ERR"}) THEN {0}
    ELSE {k \in 1 .. NTx : Has(Add(trans_next, k), {"STP", "OWN", "ENP", "ERR"})}

\* Where the search ends.
PacketEnd == Add(trans_next, Min(ScanStops))

\* What the search finds: the end of a packet, an endless loop, a ring out of
\* sync, or a packet still being sent.
ScanResult ==
    IF Has(trans_next, {"ENP", "ERR"}) THEN "end"
    ELSE IF ScanStops = {} THEN "hang"
    ELSE IF Has(PacketEnd, {"STP"}) THEN "reset"
    ELSE IF Has(PacketEnd, {"OWN"}) THEN IF lookahead THEN "tintEnd" ELSE "reset"
    ELSE "end"

\* Mutant of NextStart: the skipping does not stop at next_to_send.
NextStartPastEnd ==
    IF Has(PacketEnd, {"ERR"})
    THEN Add(PacketEnd, Min({k \in 1 .. NTx : Has(Add(PacketEnd, k), {"STP"})}))
    ELSE Inc(PacketEnd)

\* Start of the next packet: after an error the rest of the packet's
\* descriptors are skipped.
NextStart ==
    IF Has(PacketEnd, {"ERR"})
    THEN LET stops == {k \in 1 .. NTx :
                           \/ Has(Add(PacketEnd, k), {"STP"})
                           \/ Add(PacketEnd, k) = next_to_send}
         IN  Add(PacketEnd, Min(stops))
    ELSE Inc(PacketEnd)

\* Mutant of Cleared: the last descriptor is left as it is.
ClearedButLast(n) == Span(trans_next, n - 1)

\* The descriptors lnc_tint clears for a packet of n.
Cleared(n) == Span(trans_next, n)

\* The packet's descriptors are cleared and counted; the queue is serviced
\* while there is still something in the ring.
Reclaim ==
    LET n == Steps(trans_next, NextStart)
    IN  /\ trans' = [i \in Idx |->
                        IF i \in Cleared(n) THEN Free ELSE trans[i]]
        /\ pending_transmits' = pending_transmits - n
        /\ trans_next' = NextStart
        /\ stalled' = (stalled /\ pending_transmits' = 0)
        /\ lookahead' = TRUE
        /\ pc' = "tintTest"
        /\ UNCHANGED <<csr0, lcsr, initDone, resets, events, next_to_send,
                       serviceOutputQ, offered, accepted, txd, tintDue, handled>>

TintPacket ==
    /\ pc = "tint"
    /\ IF ScanResult = "end" /\ ~Has(PacketEnd, {"UFLO"})
       THEN Reclaim
       ELSE /\ pc' = IF ScanResult = "end" THEN "reset" ELSE ScanResult
            /\ UNCHANGED <<csr0, lcsr, initDone, resets, events, txVars>>

\* Mutant of MoreDone: the owner of the next descriptor is not looked at.
MoreInRing == pending_transmits # 0

\* The condition of the do-while.
MoreDone == pending_transmits # 0 /\ ~Has(trans_next, {"OWN"})

TintTest ==
    /\ pc = "tintTest"
    /\ pc' = IF MoreDone THEN "tint" ELSE "tintEnd"
    /\ UNCHANGED <<csr0, lcsr, initDone, resets, events, txVars>>

\* Mutant of TintEndWrite: TINT is not cleared.
TintNotCleared == {"IENA"}

\* What lnc_tint writes to CSR0 at its end.
TintEndWrite == {"TINT", "IENA"}

\* lnc_tint asks for service() and clears TINT once more.
TintEnd ==
    /\ pc = "tintEnd"
    /\ serviceOutputQ' = TRUE
    /\ csr0' = CsrWrite(csr0, TintEndWrite)
    /\ lookahead' = FALSE
    /\ pc' = "read"
    /\ UNCHANGED <<lcsr, initDone, resets, events, trans, driverTxVars,
                   queueVars, txd, tintDue, handled>>

----------------------------------------------------------------------------
\* The receive half, seen from here: lnc_rint ends by clearing RINT, or it
\* resets the adapter.
RintEnd ==
    /\ pc = "rint"
    /\ csr0' = CsrWrite(csr0, {"RINT", "IENA"})
    /\ pc' = AfterRint(lcsr)
    /\ UNCHANGED <<lcsr, initDone, resets, events, txVars>>

RintOutOfSync ==
    /\ RxResets
    /\ pc = "rint"
    /\ pc' = "rintReset"
    /\ UNCHANGED <<csr0, lcsr, initDone, resets, events, txVars>>

----------------------------------------------------------------------------
(* The chip.                                                                *)

\* The chip sends the packet in its current descriptor, writes the status
\* with OWN clear and goes to the next.  An underflow turns it off.
ChipTransmit(result) ==
    /\ "TXON" \in csr0
    /\ ~tintDue
    /\ Has(txd, {"OWN"})
    /\ trans' = [trans EXCEPT ![txd].status =
                     {"STP", "ENP"} \cup (IF result = "ok" THEN {} ELSE {"ERR"})
                                    \cup (IF result = "uflo" THEN {"UFLO"} ELSE {})]
    /\ handled' = trans[txd].pkt
    /\ txd' = Inc(txd)
    /\ csr0' = (csr0 \ (IF result = "uflo" THEN {"TXON"} ELSE {}))
                  \cup (IF TintDelayed THEN {} ELSE {"TINT"})
    /\ tintDue' = TintDelayed
    /\ UNCHANGED <<pc, lcsr, initDone, resets, events, driverTxVars,
                   lookahead, serviceOutputQ, queueVars>>

ChipRaiseTint ==
    /\ tintDue
    /\ csr0' = csr0 \cup {"TINT"}
    /\ tintDue' = FALSE
    /\ UNCHANGED <<pc, lcsr, initDone, resets, events, trans, driverTxVars,
                   lookahead, serviceOutputQ, queueVars, txd, handled>>

ChipEvent ==
    /\ \E bit \in {"MERR", "MISS", "RINT"} : ChipRaise(bit)
    /\ UNCHANGED txVars

----------------------------------------------------------------------------
TxInit ==
    /\ IntrInit
    /\ trans = [i \in Idx |-> Free]
    /\ trans_next = 0
    /\ next_to_send = 0
    /\ pending_transmits = 0
    /\ lookahead = FALSE
    /\ serviceOutputQ = FALSE
    /\ stalled = FALSE
    /\ offered = 0
    /\ accepted = 0
    /\ txd = 0
    /\ tintDue = FALSE
    /\ handled = 0

\* What the driver does with the gate held inside the interrupt handler.
HandlerStep ==
    \/ TxIntrRead \/ TxIntrAck \/ TxIntrReturn
    \/ TintPacket \/ TintTest \/ TintEnd
    \/ RintEnd \/ RintOutOfSync
    \/ LncReset

ChipStep == (\E r \in TxResults : ChipTransmit(r)) \/ ChipRaiseTint

TxNext ==
    \/ Enqueue \/ OutputStall \/ OutputPacket \/ Watchdog
    \/ SetPromiscuousMode \/ SetMulticastList
    \/ TxIntrEnter \/ HandlerStep
    \/ ChipStep \/ ChipEvent

TxSpec == TxInit /\ [][TxNext]_vars

\* The handler runs on, the chip sends what it owns, the work loop calls the
\* interrupt handler while the pin is asserted, the queue drains while it is
\* not stalled.  Nothing is assumed of the watchdog or of the stack.
TxFairSpec ==
    /\ TxSpec
    /\ WF_vars(HandlerStep)
    /\ WF_vars(ChipStep)
    /\ WF_vars(TxIntrEnter)
    /\ SF_vars(OutputPacket)
    /\ WF_vars(OutputStall)
----------------------------------------------------------------------------
(* Properties.                                                              *)

\* The driver's two counters and the descriptors agree: pending_transmits is
\* the distance from trans_next to next_to_send, the descriptors in between
\* hold packets and the others are clear.  lnc_output_packet therefore never
\* writes over a packet that is not reclaimed.
RingAccounting ==
    /\ next_to_send = Add(trans_next, pending_transmits)
    /\ \A k \in 0 .. NTx - 1 :
           Has(Add(trans_next, k), TMDFlags) <=> k < pending_transmits

\* PCNet_lnc.cpp:602-606: whenever lnc_tint looks at a packet, sc.trans_next
\* points to a descriptor with STP set and OWN cleared.
TintSync ==
    pc = "tint" => /\ Has(trans_next, {"STP"})
                   /\ ~Has(trans_next, {"OWN"})

\* A stalled output queue is waiting for a full ring to drain, never for a
\* service() call that was forgotten: reclaiming and re-initializing wake it.
StalledMeansFull ==
    pc = "idle" /\ stalled /\ initDone => pending_transmits >= NTx

\* A full ring is not left asleep: interrupts are on, and either TINT is
\* pending or the chip still has a packet to finish and is running.
FullRingWakes ==
    pc = "idle" /\ initDone /\ pending_transmits = NTx =>
        /\ "IENA" \in csr0
        /\ \/ "TINT" \in csr0
           \/ "TXON" \in csr0 /\ Has(txd, {"OWN"})

\* Packets in the ring that still belong to the chip.
Waiting == {trans[i].pkt : i \in {j \in Idx : Has(j, {"OWN"})}}

\* The ring implements the promise of TxPath: what lnc_output_packet accepts
\* is finished by the chip in order, once, and only lnc_init discards any.
Path == INSTANCE TxPath WITH waiting <- Waiting
TxInOrder == Path!Spec

\* Every packet the stack hands over is taken by the driver: a full ring
\* always wakes the queue.
QueueDrains == accepted < offered ~> accepted = offered

\* PCNet_lnc.cpp:729-732, "A UFLO error will turn off the transmitter so we
\* have to reset": a transmitter that is off is turned on again.
UnderflowResets == "TXON" \notin csr0 ~> "TXON" \in csr0

\* handleInterrupt returns, so that the gate is free for other work.
IntrReturns == pc # "idle" ~> pc = "idle"

----------------------------------------------------------------------------
(* The strengthening of RingAccounting and TintSync that a step preserves.  *)

\* The settings under which driver and chip walk the ring in step: the chip
\* sets TINT no later than it clears OWN, keeps its place over STOP and STRT
\* (or is never stopped), and lnc_rint does not reset with TINT read before.
Aligned ==
    /\ ~TintDelayed
    /\ ~(Multicast /\ ReloadOnStart)
    /\ ~RxResets

\* Of the pending_transmits packets from trans_next on the chip has finished
\* the first `done' and owns the others.
DescriptorAt(done, k) ==
    LET s == trans[Add(trans_next, k)].status
    IN  /\ k < done => {"STP", "ENP"} \subseteq s /\ "OWN" \notin s
        /\ done <= k /\ k < pending_transmits => s = {"OWN", "STP", "ENP"}
        /\ pending_transmits <= k => s = {}

\* TINT, latched or read, announces a packet not reclaimed; once inside
\* lnc_tint it may be left over from a packet already seen.
TintMeansDone(done) ==
    /\ "TINT" \in csr0 /\ pc \in {"idle", "read", "ack", "rint"} => done > 0
    /\ "TINT" \in lcsr /\ pc \in {"ack", "rint"} => done > 0
    /\ pc = "tint" => done > 0

InStep(done) ==
    /\ done <= pending_transmits
    /\ txd = Add(trans_next, done)
    /\ \A k \in 0 .. NTx - 1 : DescriptorAt(done, k)
    /\ TintMeansDone(done)

TxInv ==
    /\ TxTypeOK
    /\ next_to_send = Add(trans_next, pending_transmits)
    /\ pc \notin {"hang", "rintReset", "rintEnd"}
    /\ ~tintDue
    /\ \E done \in 0 .. NTx : InStep(done)

\* The packet k places after trans_next, and whether the chip has it.
PktAt(k) == trans[Add(trans_next, k)].pkt
OwnedAt(k) == Has(Add(trans_next, k), {"OWN"})

\* The strengthening of TxInOrder: the chip's packets lie in the ring in the
\* order in which they were accepted.
PacketsInOrder ==
    \A k \in 0 .. NTx - 1 :
        OwnedAt(k) => /\ PktAt(k) <= accepted
                      /\ \A l \in 0 .. k - 1 : OwnedAt(l) => PktAt(l) < PktAt(k)

\* The settings under which no TINT is lost for good: no STOP clears it with
\* packets in the ring and no underflow turns the transmitter off behind it.
TintReliable == Aligned /\ ~Multicast /\ "uflo" \notin TxResults

\* The strengthening of FullRingWakes: the handler turns interrupts back on
\* and has room in the ring before it forgets TINT.
WakeInv ==
    /\ initDone => {"IENA", "TXON"} \subseteq csr0
    /\ initDone /\ pc = "ack" => "IENA" \in lcsr
    /\ pc \in {"tintTest", "tintEnd"} => pending_transmits < NTx
    /\ initDone /\ pending_transmits = NTx =>
           \/ Has(txd, {"OWN"})
           \/ "TINT" \in csr0
           \/ "TINT" \in lcsr /\ pc \in {"ack", "rint"}
           \/ pc \in {"tint", "reset"}
=============================================================================
