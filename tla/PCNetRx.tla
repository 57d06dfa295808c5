------------------------------ MODULE PCNetRx ------------------------------
(* The receive ring: the chip fills descriptors with frames, lnc_rint copies *)
(* the frames out, passes them up and gives the descriptors back.  The       *)
(* transmit half of lnc_intr is an environment that may raise TINT and whose *)
(* handler may reset the adapter.                                            *)
EXTENDS PCNetIntr

CONSTANTS
    NRx,          \* number of receive descriptors, LNC_NDESC(sc.nrdre)
    MaxFrames,    \* bound on the frames that arrive
    Jabber,       \* frames longer than a buffer may arrive
    AllocFails,   \* allocatePacket may fail
    RintDelayed,  \* the chip sets RINT in a step after it cleared OWN
    TxResets      \* lnc_tint may reset the adapter

ASSUME RxAssumption ==
    /\ NRx \in Nat /\ NRx >= 2
    /\ MaxFrames \in Nat
    /\ {Jabber, AllocFails, RintDelayed, TxResets} \subseteq BOOLEAN

INSTANCE PCNetRing WITH NDesc <- NRx

VARIABLES
    recv,           \* the ring: status bits and the frame in the buffer
    recv_next,      \* the first descriptor of the next packet
    rxLookahead,    \* lnc_rint's lookahead: it has handled a packet already
    flushInputQ,    \* handleInterrupt's flag, set by lnc_rint
    inputQ,         \* inputPacket has queued packets that are not flushed
    rxd,            \* the chip's current receive descriptor
    midFrame,       \* the chip has filled the first buffer of a long frame
    rintDue,        \* the chip has yet to set RINT, see RintDelayed
    arrived,        \* frames that have arrived
    delivered,      \* the frame passed to inputPacket last
    dropped         \* frames reported as "Packet dropped, no mbufs"

rxVars == <<recv, recv_next, rxLookahead, flushInputQ, inputQ, rxd, midFrame,
            rintDue, arrived, delivered, dropped>>
vars == <<intrVars, rxVars>>

RMDFlags == {"OWN", "STP", "ENP", "ERR"}

RxTypeOK ==
    /\ IntrTypeOK
    /\ recv \in [Idx -> [status : SUBSET RMDFlags, frame : 0 .. MaxFrames]]
    /\ recv_next \in Idx
    /\ rxLookahead \in BOOLEAN
    /\ flushInputQ \in BOOLEAN
    /\ inputQ \in BOOLEAN
    /\ rxd \in Idx
    /\ midFrame \in BOOLEAN
    /\ rintDue \in BOOLEAN
    /\ arrived \in 0 .. MaxFrames
    /\ delivered \in 0 .. arrived
    /\ dropped \subseteq 1 .. arrived

\* A descriptor given to the chip, and tests of status bits.
Owned == [status |-> {"OWN"}, frame |-> 0]

Has(i, flags) == recv[i].status \cap flags # {}

----------------------------------------------------------------------------
\* The descriptors as lnc_init writes them.
FreshRing == [i \in Idx |-> Owned]

\* The ring as lnc_init leaves it.
InitRing ==
    /\ recv' = FreshRing
    /\ recv_next' = 0
    /\ rxLookahead' = FALSE
    /\ rxd' = 0
    /\ midFrame' = FALSE
    /\ rintDue' = FALSE
    /\ UNCHANGED <<flushInputQ, inputQ, arrived, delivered, dropped>>

LncReset == \E ok \in InitOutcomes : ResetChip(ok) /\ InitRing

SetPromiscuousMode == \E ok \in InitOutcomes : PromiscChip(ok) /\ InitRing

\* STOP abandons a frame in progress; its first descriptor stays as it is.
StopRing ==
    /\ rxd' = IF ReloadOnStart THEN 0 ELSE rxd
    /\ midFrame' = FALSE
    /\ rintDue' = FALSE
    /\ UNCHANGED <<recv, recv_next, rxLookahead, flushInputQ, inputQ, arrived,
                   delivered, dropped>>

SetMulticastList == MulticastChip /\ StopRing

----------------------------------------------------------------------------
\* handleInterrupt around lnc_intr: flushInputQ starts false and the input
\* queue is flushed at the end if lnc_rint has set it.
EnterRing ==
    /\ flushInputQ' = FALSE
    /\ UNCHANGED <<recv, recv_next, rxLookahead, inputQ, rxd, midFrame, rintDue,
                   arrived, delivered, dropped>>

ReturnRing ==
    /\ inputQ' = (inputQ /\ ~flushInputQ)
    /\ flushInputQ' = FALSE
    /\ UNCHANGED <<recv, recv_next, rxLookahead, rxd, midFrame, rintDue, arrived,
                   delivered, dropped>>

RxIntrEnter == IntrEnter /\ EnterRing

RxIntrRead == IntrRead /\ UNCHANGED rxVars

RxIntrAck == IntrAck /\ UNCHANGED rxVars

RxIntrReturn == IntrReturn /\ ReturnRing

----------------------------------------------------------------------------
(* lnc_rint.  One turn of its loop is one step: the packet it looks at has   *)
(* been given up by the chip, and a packet the chip is still filling only    *)
(* makes it stop.                                                            *)

\* The end of the packet at recv_next: the first descriptor with ENP or ERR,
\* or whatever else ends the search.
PacketEnd ==
    IF Has(recv_next, {"ENP", "ERR"}) THEN recv_next
    ELSE Add(recv_next,
             Min({k \in 1 .. NRx : Has(Add(recv_next, k), RMDFlags)}))

\* The packet at recv_next has an end that comes before the start of another
\* packet and before a descriptor of the chip.
PacketComplete ==
    Has(recv_next, {"ENP", "ERR"}) \/ ~Has(PacketEnd, {"STP", "OWN"})

\* Mutant of StillReceiving: no look-ahead.
NeverStillReceiving == FALSE

\* The search ran into a packet the chip is still filling, which is fine if
\* lnc_rint has handled another one before.
StillReceiving == rxLookahead /\ ~Has(PacketEnd, {"STP"})

\* Mutant of PacketDescs: only the packet's first descriptor.
FirstDesc == {recv_next}

\* The descriptors of the packet.
PacketDescs == Span(recv_next, Steps(recv_next, Inc(PacketEnd)))

\* Mutant of GivenBack: a packet with an error keeps its descriptors.
GivenBackIfGood(outcome) ==
    IF outcome \in {"nombuf", "error"} THEN {} ELSE PacketDescs

\* The descriptors lnc_rint gives back to the chip for a packet.
GivenBack(outcome) == IF outcome = "nombuf" THEN {} ELSE PacketDescs

\* Mutant of Queued: the last packet decides.
QueuedLast(outcome) == outcome = "deliver"

\* The flag *queued once a packet is handled.
Queued(outcome) == flushInputQ \/ outcome = "deliver"

\* What lnc_rint does with a whole packet: with an error it gives the
\* descriptors back; otherwise it copies it to an mbuf, which gives them back
\* too, and drops or queues that.  Without an mbuf they are not given back.
Consume(outcome) ==
    /\ recv' = [i \in Idx |->
                    IF i \in GivenBack(outcome) THEN Owned ELSE recv[i]]
    /\ delivered' = IF outcome = "deliver" THEN recv[recv_next].frame
                    ELSE delivered
    /\ dropped' = IF outcome = "nombuf" THEN dropped \cup {recv[recv_next].frame}
                  ELSE dropped
    /\ inputQ' = (inputQ \/ outcome = "deliver")
    /\ flushInputQ' = Queued(outcome)
    /\ recv_next' = Inc(PacketEnd)
    /\ rxLookahead' = TRUE
    /\ UNCHANGED <<intrVars, rxd, midFrame, rintDue, arrived>>

\* "self" is a frame with the interface's own source address.
Outcomes ==
    IF Has(PacketEnd, {"ERR"}) THEN {"error"}
    ELSE {"deliver", "self"} \cup (IF AllocFails THEN {"nombuf"} ELSE {})

RintPacket ==
    /\ pc = "rint"
    /\ Has(recv_next, {"STP"})
    /\ IF PacketComplete
       THEN \E outcome \in Outcomes : Consume(outcome)
       ELSE /\ pc' = IF StillReceiving THEN "rintEnd" ELSE "rintReset"
            /\ UNCHANGED <<csr0, lcsr, initDone, resets, events, rxVars>>

\* The loop test fails: the next descriptor does not start a packet.
RintDone ==
    /\ pc = "rint"
    /\ ~Has(recv_next, {"STP"})
    /\ pc' = "rintEnd"
    /\ UNCHANGED <<csr0, lcsr, initDone, resets, events, rxVars>>

\* Mutants of RintEndWrite: IENA is not written; TINT is cleared too.
RintMasks == {"RINT"}
RintClearsTint == {"RINT", "TINT", "IENA"}

\* What lnc_rint writes to CSR0 at its end.
RintEndWrite == {"RINT", "IENA"}

\* lnc_rint clears RINT once more before it returns.
RintEnd ==
    /\ pc = "rintEnd"
    /\ csr0' = CsrWrite(csr0, RintEndWrite)
    /\ rxLookahead' = FALSE
    /\ pc' = AfterRint(lcsr)
    /\ UNCHANGED <<lcsr, initDone, resets, events, recv, recv_next, flushInputQ,
                   inputQ, rxd, midFrame, rintDue, arrived, delivered, dropped>>

----------------------------------------------------------------------------
\* The transmit half, seen from here.
TintEnd ==
    /\ pc = "tint"
    /\ csr0' = CsrWrite(csr0, {"TINT", "IENA"})
    /\ pc' = "read"
    /\ UNCHANGED <<lcsr, initDone, resets, events, rxVars>>

TintResets ==
    /\ TxResets
    /\ pc = "tint"
    /\ pc' = "reset"
    /\ UNCHANGED <<csr0, lcsr, initDone, resets, events, rxVars>>

----------------------------------------------------------------------------
(* The chip.                                                                *)

\* The chip may take a new frame, or go on with the one in progress.
ChipReady == "RXON" \in csr0 /\ ~rintDue

NewFrame == ChipReady /\ ~midFrame /\ arrived < MaxFrames

\* The current descriptor is written and the chip moves on; a frame that is
\* complete raises RINT.
Write(status, frame, complete) ==
    /\ recv' = [recv EXCEPT ![rxd] = [status |-> status, frame |-> frame]]
    /\ rxd' = Inc(rxd)
    /\ midFrame' = ~complete
    /\ csr0' = csr0 \cup (IF complete /\ ~RintDelayed THEN {"RINT"} ELSE {})
    /\ rintDue' = (complete /\ RintDelayed)
    /\ UNCHANGED <<pc, lcsr, initDone, resets, events, recv_next, rxLookahead,
                   flushInputQ, inputQ, delivered, dropped>>

\* A frame that fits a buffer, good or with a CRC or framing error.
ChipReceive ==
    /\ NewFrame
    /\ Has(rxd, {"OWN"})
    /\ arrived' = arrived + 1
    /\ \E errs \in SUBSET {"ERR"} : Write({"STP", "ENP"} \cup errs, arrived + 1, TRUE)

\* The first buffer of a longer frame is full.  Without a second one the
\* frame ends there with a buffer error.
ChipOverrun ==
    /\ Jabber
    /\ NewFrame
    /\ Has(rxd, {"OWN"})
    /\ arrived' = arrived + 1
    /\ IF Has(Inc(rxd), {"OWN"}) THEN Write({"STP"}, arrived + 1, FALSE)
       ELSE Write({"STP", "ERR"}, arrived + 1, TRUE)

\* The end of a longer frame.
ChipFinish ==
    /\ ChipReady
    /\ midFrame
    /\ \E errs \in SUBSET {"ERR"} : Write({"ENP"} \cup errs, arrived, TRUE)
    /\ UNCHANGED arrived

\* A frame finds no descriptor.
ChipMiss ==
    /\ NewFrame
    /\ ~Has(rxd, {"OWN"})
    /\ arrived' = arrived + 1
    /\ csr0' = csr0 \cup {"MISS"}
    /\ UNCHANGED <<pc, lcsr, initDone, resets, events, recv, recv_next,
                   rxLookahead, flushInputQ, inputQ, rxd, midFrame, rintDue,
                   delivered, dropped>>

ChipRaiseRint ==
    /\ rintDue
    /\ csr0' = csr0 \cup {"RINT"}
    /\ rintDue' = FALSE
    /\ UNCHANGED <<pc, lcsr, initDone, resets, events, recv, recv_next,
                   rxLookahead, flushInputQ, inputQ, rxd, midFrame, arrived,
                   delivered, dropped>>

ChipEvent ==
    /\ \E bit \in {"MERR", "TINT"} : ChipRaise(bit)
    /\ UNCHANGED rxVars

----------------------------------------------------------------------------
RxInit ==
    /\ IntrInit
    /\ recv = [i \in Idx |-> Owned]
    /\ recv_next = 0
    /\ rxLookahead = FALSE
    /\ flushInputQ = FALSE
    /\ inputQ = FALSE
    /\ rxd = 0
    /\ midFrame = FALSE
    /\ rintDue = FALSE
    /\ arrived = 0
    /\ delivered = 0
    /\ dropped = {}

HandlerStep ==
    \/ RxIntrRead \/ RxIntrAck \/ RxIntrReturn
    \/ RintPacket \/ RintDone \/ RintEnd
    \/ TintEnd \/ TintResets
    \/ LncReset

ChipStep ==
    ChipReceive \/ ChipOverrun \/ ChipFinish \/ ChipMiss \/ ChipRaiseRint

\* The timer: with nothing to transmit lnc_watchdog does nothing.
Watchdog == pc = "idle" /\ UNCHANGED vars

RxNext ==
    \/ SetPromiscuousMode \/ SetMulticastList
    \/ RxIntrEnter \/ HandlerStep
    \/ ChipStep \/ ChipEvent
    \/ Watchdog

RxSpec == RxInit /\ [][RxNext]_vars

\* The handler runs on and is called while the pin is asserted; the chip
\* reports a frame it has written.  Nothing is assumed of the network.
RxFairSpec ==
    /\ RxSpec
    /\ WF_vars(HandlerStep)
    /\ WF_vars(RxIntrEnter)
    /\ WF_vars(ChipRaiseRint)

----------------------------------------------------------------------------
(* Properties.                                                              *)

\* PCNet_lnc.cpp:367-372: on a receive interrupt a complete packet is found
\* before any buffer the chip owns; lnc_rint never has to reset.
RintSync == pc # "rintReset"

\* The descriptors the driver has still to look at are exactly the ones the
\* chip has given up, and every other one is the chip's: none is lost.
NoDescriptorLost ==
    \E done \in 0 .. NRx :
        /\ rxd = Add(recv_next, done)
        /\ \A k \in 0 .. NRx - 1 : Has(Add(recv_next, k), {"OWN"}) <=> k >= done

\* A packet queued with inputPacket is flushed before the work loop's gate is
\* free again, resets included.
InputFlushed == pc = "idle" => ~inputQ

\* PCNet_lnc.cpp:529, "Packet dropped, no mbufs": a frame reported as dropped
\* is not passed up afterwards.
DroppedStaysDropped == [][delivered' # delivered => delivered' \notin dropped]_vars

\* Frames in the ring that are the driver's to consume.
Waiting == {recv[i].frame : i \in {j \in Idx : Has(j, {"STP"})}}

\* The ring implements the promise of RxPath: frames are consumed in the order
\* of arrival, once, and only lnc_init discards any.
Path == INSTANCE RxPath WITH waiting <- Waiting
RxInOrder == Path!Spec

\* handleInterrupt returns.
IntrReturns == pc # "idle" ~> pc = "idle"
----------------------------------------------------------------------------
(* The strengthening of NoDescriptorLost, RintSync and RxInOrder that a step *)
(* preserves.                                                                *)

\* The settings under which no descriptor is lost: a dropped packet gives its
\* descriptors back, and the chip keeps its place over STOP and STRT.
RxAligned == ~AllocFails /\ ~(Multicast /\ ReloadOnStart)

\* The settings under which lnc_rint finds whole packets: no long frames, or
\* RINT comes with the descriptor and the chip is not stopped in a frame.
RxWhole == ~Jabber \/ (RxAligned /\ ~Multicast /\ ~RintDelayed)

\* The descriptor k places after recv_next.
At(k) == recv[Add(recv_next, k)]

Starts(k) == "STP" \in At(k).status
Ends(k) == At(k).status \cap {"ENP", "ERR"} # {}

\* The first `done' descriptors from recv_next on are the driver's, the others
\* the chip's, which goes on at the first of these.
Split(done) ==
    /\ rxd = Add(recv_next, done)
    /\ \A k \in 0 .. NRx - 1 :
           IF k < done THEN At(k).status # {} /\ "OWN" \notin At(k).status
           ELSE At(k) = Owned
    /\ midFrame => done < NRx

\* Frames lie in the ring in the order of their arrival.
Ordered(done) ==
    \A k \in 0 .. done - 1 : \A l \in 0 .. k - 1 :
        Starts(k) /\ Starts(l) => At(l).frame < At(k).frame

\* A first buffer is followed by the second of the same frame, if that is not
\* still being filled, and a second one comes after a first one.
Whole(done) ==
    /\ \A k \in 0 .. done - 1 :
           /\ Starts(k) /\ ~Ends(k) /\ k < done - 1 => ~Starts(k + 1)
           /\ ~Starts(k) => k > 0 /\ Starts(k - 1) /\ ~Ends(k - 1)
    /\ IF midFrame THEN done > 0 /\ Starts(done - 1) /\ ~Ends(done - 1)
       ELSE done > 0 /\ Starts(done - 1) => Ends(done - 1)

\* The packet at recv_next is there with its end.
FirstComplete(done) == done > 0 /\ (Ends(0) \/ done > 1)

\* RINT, latched or read, announces a whole packet; once inside lnc_rint it
\* may be left over from a packet already seen.
RintMeansPacket(done) ==
    /\ "RINT" \in csr0 /\ pc \notin {"rint", "rintEnd"} => FirstComplete(done)
    /\ "RINT" \in lcsr /\ pc = "ack" => FirstComplete(done)
    /\ pc = "rint" /\ ~rxLookahead => FirstComplete(done)

\* Every buffer is the chip's or holds (part of) a frame that has arrived.
FramesKnown ==
    \A i \in Idx : /\ recv[i].status # {}
                   /\ recv[i].frame <= arrived
                   /\ Has(i, {"STP"}) => recv[i].frame > 0

RingInStep(done) ==
    /\ Split(done)
    /\ Ordered(done)
    /\ RxWhole /\ Jabber => Whole(done) /\ RintMeansPacket(done)

RxInv ==
    /\ RxTypeOK
    /\ FramesKnown
    /\ inputQ => flushInputQ /\ pc # "idle"
    /\ rintDue => RintDelayed
    /\ RxAligned => \E done \in 0 .. NRx : RingInStep(done)
    /\ ~Jabber => ~midFrame /\ \A i \in Idx : Has(i, {"STP"}) => Has(i, {"ENP"})
    /\ RxWhole => pc # "rintReset"
=============================================================================
