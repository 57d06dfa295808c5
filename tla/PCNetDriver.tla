---------------------------- MODULE PCNetDriver ----------------------------
(* The interface while it is enabled: both rings, one interrupt handler, one *)
(* chip.  Every step of PCNetTx and PCNetRx is a step here except the ones   *)
(* by which each of them stood in for the other; lnc_init and                *)
(* lnc_set_multicast act on both rings at once.                              *)
EXTENDS PCNetTx

CONSTANTS NRx, MaxFrames, Jabber, AllocFails, RintDelayed

\* What PCNetRx assumes of the constants it brings in.
ASSUME DriverAssumption ==
    /\ NRx \in Nat /\ NRx >= 2
    /\ MaxFrames \in Nat
    /\ {Jabber, AllocFails, RintDelayed} \subseteq BOOLEAN

VARIABLES recv, recv_next, rxLookahead, flushInputQ, inputQ, rxd, midFrame,
          rintDue, arrived, delivered, dropped,
          raises    \* how often the receiver has changed CSR0, a history
                    \* variable for the refinement below

Rx == INSTANCE PCNetRx WITH TxResets <- TRUE

rxVars == <<recv, recv_next, rxLookahead, flushInputQ, inputQ, rxd, midFrame,
            rintDue, arrived, delivered, dropped>>
driverVars == <<vars, rxVars, raises>>

DriverInit == TxInit /\ Rx!RxInit /\ raises = 0

----------------------------------------------------------------------------
\* The network stack and the timer.
Client ==
    /\ Enqueue \/ OutputStall \/ OutputPacket \/ Watchdog
    /\ UNCHANGED <<rxVars, raises>>

\* lnc_init makes both rings new.
BothInit ==
    /\ \E ok \in InitOutcomes :
           /\ ResetChip(ok) \/ PromiscChip(ok)
           /\ InitRing(ok)
    /\ Rx!InitRing
    /\ UNCHANGED raises

\* lnc_set_multicast stops both halves of the chip.
BothStop == SetMulticastList /\ Rx!StopRing /\ UNCHANGED raises

BothEnter == TxIntrEnter /\ Rx!EnterRing /\ UNCHANGED raises

BothReturn == TxIntrReturn /\ Rx!ReturnRing /\ UNCHANGED raises

\* lnc_intr's loop and lnc_tint.
TxHandler ==
    /\ TxIntrRead \/ TxIntrAck \/ TintPacket \/ TintTest \/ TintEnd
    /\ UNCHANGED <<rxVars, raises>>

\* lnc_rint.
RxHandler ==
    /\ Rx!RintPacket \/ Rx!RintDone \/ Rx!RintEnd
    /\ UNCHANGED <<txVars, raises>>

ChipTx == ChipStep /\ UNCHANGED <<rxVars, raises>>

ChipRx ==
    /\ Rx!ChipStep
    /\ raises' = raises + (IF csr0' = csr0 THEN 0 ELSE 1)
    /\ UNCHANGED txVars

ChipMerr == ChipRaise("MERR") /\ UNCHANGED <<txVars, rxVars, raises>>

DriverNext ==
    \/ Client
    \/ BothInit \/ BothStop
    \/ BothEnter \/ TxHandler \/ RxHandler \/ BothReturn
    \/ ChipTx \/ ChipRx \/ ChipMerr

DriverSpec == DriverInit /\ [][DriverNext]_driverVars

DriverFairSpec ==
    /\ DriverSpec
    /\ WF_driverVars(BothEnter)
    /\ WF_driverVars(TxHandler \/ RxHandler \/ BothReturn)
    /\ WF_driverVars(pc # "idle" /\ BothInit)
    /\ WF_driverVars(ChipTx)
    /\ SF_driverVars(OutputPacket /\ UNCHANGED <<rxVars, raises>>)
    /\ WF_driverVars(OutputStall /\ UNCHANGED <<rxVars, raises>>)

----------------------------------------------------------------------------
(* Properties.                                                              *)

\* The environment PCNetTx assumes is what lnc_rint and the receiver really
\* do: the driver implements the transmit half, so what is proved of it holds
\* of the driver.
TxHalf == INSTANCE PCNetTx WITH
              pc <- IF pc = "rintEnd" THEN "rint" ELSE pc,
              events <- events + raises,
              MaxEvents <- MaxEvents + MaxFrames
ImplementsTx == TxHalf!TxSpec

\* The receive ring stays in step whatever the transmit side does, resets
\* from lnc_tint included.
RxInStep == Rx!RintSync /\ Rx!NoDescriptorLost

\* A packet queued with inputPacket is flushed before the gate is free again,
\* whichever half of lnc_intr resets the adapter in between.
RxFlushed == Rx!InputFlushed

\* With the receiver at work too every packet of the stack is still taken:
\* no order of the two halves' causes and resets leaves the queue asleep.
DriverDrains == QueueDrains

\* handleInterrupt returns, although lnc_intr's loop goes on for as long as
\* either half has a cause pending.
DriverIntrReturns == IntrReturns

----------------------------------------------------------------------------
(* The strengthening of ImplementsTx.                                       *)

\* The receiver changes CSR0 at most once for each frame, and not yet for the
\* one in progress; a frame it has still to report was taken while running.
RaisesCounted ==
    /\ raises \in Nat
    /\ raises + (IF midFrame \/ rintDue THEN 1 ELSE 0) <= arrived
    /\ ~(midFrame /\ rintDue)
    /\ rintDue => "RXON" \in csr0

\* lnc_rint finds its ring out of step only if PCNetTx allows for it.
ResetsAllowed == RxResets \/ Rx!RxWhole
=============================================================================
