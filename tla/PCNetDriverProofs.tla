-------------------------- MODULE PCNetDriverProofs --------------------------
(* Theorems about the interface with both rings at work: what PCNetTxProofs *)
(* and PCNetRxProofs prove of each half is carried over to the whole.       *)
EXTENDS PCNetDriver, TLAPS

TxP == INSTANCE PCNetTxProofs WITH
           pc <- IF pc = "rintEnd" THEN "rint" ELSE pc,
           events <- events + raises,
           MaxEvents <- MaxEvents + MaxFrames

RxP == INSTANCE PCNetRxProofs WITH TxResets <- TRUE

\* The constants meet the assumptions of both halves.
LEMMA HalfAssumptions ==
    /\ TxP!IntrAssumption /\ TxP!TxAssumption
    /\ RxP!IntrAssumption /\ RxP!RxAssumption
  BY IntrAssumption, TxAssumption, DriverAssumption
     DEF TxP!IntrAssumption, TxP!TxAssumption, RxP!IntrAssumption, RxP!RxAssumption

----------------------------------------------------------------------------
(* The receive half of PCNetDriver is the one PCNetRxProofs is about.       *)

LEMMA SameRint ==
    /\ Rx!RintPacket <=> RxP!RintPacket
    /\ Rx!RintDone <=> RxP!RintDone
    /\ Rx!RintEnd <=> RxP!RintEnd
  BY DEF Rx!RintPacket, RxP!RintPacket, Rx!RintDone, RxP!RintDone, Rx!RintEnd,
         RxP!RintEnd, Rx!Has, RxP!Has, Rx!PacketComplete, RxP!PacketComplete,
         Rx!PacketEnd, RxP!PacketEnd, Rx!Outcomes, RxP!Outcomes, Rx!Consume,
         RxP!Consume, Rx!GivenBack, RxP!GivenBack, Rx!PacketDescs,
         RxP!PacketDescs, Rx!Span, RxP!Span, Rx!Steps, RxP!Steps, Rx!Add,
         RxP!Add, Rx!Inc, RxP!Inc, Rx!Idx, RxP!Idx, Rx!Owned, RxP!Owned,
         Rx!Queued, RxP!Queued, Rx!intrVars, RxP!intrVars, Rx!rxVars,
         RxP!rxVars, Rx!StillReceiving, RxP!StillReceiving, Rx!RMDFlags,
         RxP!RMDFlags, Rx!Min, RxP!Min, Rx!RintEndWrite, RxP!RintEndWrite,
         Rx!CsrWrite, RxP!CsrWrite, Rx!Latched, RxP!Latched, Rx!AfterRint,
         RxP!AfterRint

LEMMA SameChip == Rx!ChipStep <=> RxP!ChipStep
  BY DEF Rx!ChipStep, RxP!ChipStep, Rx!ChipReceive, RxP!ChipReceive,
         Rx!ChipOverrun, RxP!ChipOverrun, Rx!ChipFinish, RxP!ChipFinish,
         Rx!ChipMiss, RxP!ChipMiss, Rx!ChipRaiseRint, RxP!ChipRaiseRint,
         Rx!NewFrame, RxP!NewFrame, Rx!ChipReady, RxP!ChipReady, Rx!Has,
         RxP!Has, Rx!Write, RxP!Write, Rx!Inc, RxP!Inc, Rx!Add, RxP!Add

LEMMA SameRing ==
    /\ Rx!InitRing <=> RxP!InitRing
    /\ Rx!StopRing <=> RxP!StopRing
    /\ Rx!EnterRing <=> RxP!EnterRing
    /\ Rx!ReturnRing <=> RxP!ReturnRing
    /\ Rx!RxInit <=> RxP!RxInit
  BY DEF Rx!InitRing, RxP!InitRing, Rx!StopRing, RxP!StopRing, Rx!EnterRing,
         RxP!EnterRing, Rx!ReturnRing, RxP!ReturnRing, Rx!FreshRing,
         RxP!FreshRing, Rx!Owned, RxP!Owned, Rx!Idx, RxP!Idx, Rx!RxInit,
         RxP!RxInit, Rx!IntrInit, RxP!IntrInit, Rx!CsrInit, RxP!CsrInit,
         Rx!CsrStart, RxP!CsrStart, Rx!CsrStop, RxP!CsrStop

\* The interrupt handler and the chip are shared.
LEMMA SameIntr ==
    /\ IntrEnter <=> RxP!IntrEnter
    /\ IntrRead <=> RxP!IntrRead
    /\ IntrAck <=> RxP!IntrAck
    /\ IntrReturn <=> RxP!IntrReturn
    /\ MulticastChip <=> RxP!MulticastChip
    /\ \A ok : ResetChip(ok) <=> RxP!ResetChip(ok)
    /\ \A ok : PromiscChip(ok) <=> RxP!PromiscChip(ok)
    /\ \A bit : ChipRaise(bit) <=> RxP!ChipRaise(bit)
    /\ IntrTypeOK <=> RxP!IntrTypeOK
  BY DEF IntrEnter, RxP!IntrEnter, IntrRead, RxP!IntrRead, IntrAck, RxP!IntrAck,
         IntrReturn, RxP!IntrReturn, MulticastChip, RxP!MulticastChip,
         ResetChip, RxP!ResetChip, PromiscChip, RxP!PromiscChip, ChipRaise,
         RxP!ChipRaise, IntrTypeOK, RxP!IntrTypeOK, INTA, RxP!INTA, INTR,
         RxP!INTR, Latched, RxP!Latched, CsrWrite, RxP!CsrWrite, AckValue,
         RxP!AckValue, Dispatch, RxP!Dispatch, AfterRint, RxP!AfterRint,
         InitChip, RxP!InitChip, ResetReturn, RxP!ResetReturn, CsrInit,
         RxP!CsrInit, CsrStart, RxP!CsrStart, CsrStop, RxP!CsrStop, Csr0Bits,
         RxP!Csr0Bits, IntrPCs, RxP!IntrPCs

\* A step of the other half keeps the receive ring's invariant if it raises
\* no RINT and neither enters nor leaves the handler or lnc_rint.
LEMMA OtherHalf ==
    ASSUME RxP!RxInv, UNCHANGED rxVars, IntrTypeOK', UNCHANGED lcsr,
           "RINT" \in csr0' => "RINT" \in csr0,
           \/ pc' = pc
           \/ /\ pc \notin {"rint", "rintEnd"}
              /\ pc' \in {"reset", "tint", "tintTest", "tintEnd", "hang", "read"}
    PROVE  RxP!RxInv'
  <1>1. RxP!IntrTypeOK'
    BY DEF IntrTypeOK, RxP!IntrTypeOK, Csr0Bits, RxP!Csr0Bits, Latched,
           RxP!Latched, IntrPCs, RxP!IntrPCs
  <1>2. RxP!RxTypeOK'
    BY <1>1 DEF rxVars, RxP!RxInv, RxP!RxTypeOK
  <1>3. ASSUME NEW done \in 0 .. NRx, RxP!RintMeansPacket(done)
        PROVE  RxP!RintMeansPacket(done)'
    BY <1>3 DEF rxVars, RxP!RintMeansPacket, RxP!FirstComplete, RxP!Ends, RxP!At
  <1>4. /\ RxP!RxWhole => pc' # "rintReset"
        /\ inputQ' => flushInputQ' /\ pc' # "idle"
    BY DEF rxVars, RxP!RxInv
  <1> QED
    BY <1>2, <1>3, <1>4, HalfAssumptions, RxP!RingKept DEF rxVars

\* Each step of the driver preserves the receive ring's invariant.
LEMMA DriverRxStep ==
    ASSUME RxP!RxInv, [DriverNext]_driverVars
    PROVE  RxP!RxInv'
  <1>0. /\ IntrTypeOK /\ csr0 \in SUBSET Csr0Bits /\ lcsr \in SUBSET Csr0Bits
        /\ rxVars = RxP!rxVars
    BY SameIntr DEF RxP!RxInv, RxP!RxTypeOK, IntrTypeOK, rxVars, RxP!rxVars
  <1>w. \A v \in SUBSET Csr0Bits :
            /\ CsrWrite(csr0, v) \subseteq Csr0Bits
            /\ "RINT" \in CsrWrite(csr0, v) => "RINT" \in csr0
    BY <1>0 DEF CsrWrite, Csr0Bits, Latched
  <1>1. CASE Client
    <2>1. /\ csr0' \subseteq Csr0Bits /\ ("RINT" \in csr0' => "RINT" \in csr0)
          /\ UNCHANGED <<pc, lcsr, initDone, resets, events, rxVars>>
      <3>1. CASE OutputPacket
        BY <1>1, <1>w, <3>1 DEF Client, OutputPacket, OutputWrite, Csr0Bits
      <3>2. CASE ~OutputPacket
        BY <1>0, <1>1, <3>2 DEF Client, Enqueue, OutputStall, Watchdog, intrVars
      <3> QED  BY <3>1, <3>2
    <2>2. IntrTypeOK'
      BY <1>0, <2>1 DEF IntrTypeOK
    <2> QED  BY <2>1, <2>2, OtherHalf
  <1>2. CASE BothInit
    <2>1. PICK ok \in InitOutcomes : RxP!ResetChip(ok) \/ RxP!PromiscChip(ok)
      BY <1>2, SameIntr DEF BothInit
    <2> QED
      BY <1>2, <2>1, SameRing, HalfAssumptions, RxP!InitInv DEF BothInit
  <1>3. CASE BothStop
    BY <1>3, SameIntr, SameRing, HalfAssumptions, RxP!StopInv
       DEF BothStop, SetMulticastList
  <1>4. CASE BothEnter \/ BothReturn
    BY <1>4, SameIntr, SameRing, HalfAssumptions, RxP!EnterReturnInv
       DEF BothEnter, BothReturn, TxIntrEnter, TxIntrReturn
  <1>5. CASE TxHandler
    <2>1. CASE TxIntrRead \/ TxIntrAck
      BY <1>0, <1>5, <2>1, SameIntr, HalfAssumptions, RxP!ReadAckInv
         DEF TxHandler, TxIntrRead, TxIntrAck, rxVars, RxP!rxVars
    <2>2. CASE TintPacket \/ TintTest \/ TintEnd
      <3>1. /\ csr0' \subseteq Csr0Bits /\ ("RINT" \in csr0' => "RINT" \in csr0)
            /\ UNCHANGED <<lcsr, initDone, resets, events, rxVars>>
            /\ pc \notin {"rint", "rintEnd"}
            /\ pc' \in {"reset", "tint", "tintTest", "tintEnd", "hang", "read"}
        <4>1. CASE TintEnd
          BY <1>5, <1>w, <4>1 DEF TxHandler, TintEnd, TintEndWrite, Csr0Bits, Latched
        <4>2. CASE TintPacket \/ TintTest
          BY <1>0, <1>5, <4>2
             DEF TxHandler, TintPacket, Reclaim, ScanResult, TintTest
        <4> QED  BY <2>2, <4>1, <4>2
      <3>2. IntrTypeOK'
        BY <1>0, <3>1 DEF IntrTypeOK, IntrPCs
      <3> QED  BY <3>1, <3>2, OtherHalf
    <2> QED  BY <1>5, <2>1, <2>2 DEF TxHandler
  <1>6. CASE RxHandler
    BY <1>6, SameRint, HalfAssumptions, RxP!RintInv DEF RxHandler
  <1>7. CASE ChipTx
    <2>1. /\ csr0' \subseteq Csr0Bits /\ ("RINT" \in csr0' => "RINT" \in csr0)
          /\ UNCHANGED <<pc, lcsr, initDone, resets, events, rxVars>>
      BY <1>0, <1>7
         DEF ChipTx, ChipStep, ChipTransmit, ChipRaiseTint, Csr0Bits, Latched
    <2>2. IntrTypeOK'
      BY <1>0, <2>1 DEF IntrTypeOK
    <2> QED  BY <2>1, <2>2, OtherHalf
  <1>8. CASE ChipRx
    BY <1>8, SameChip, HalfAssumptions, RxP!ChipInv DEF ChipRx
  <1>9. CASE ChipMerr
    <2>1. RxP!ChipEvent
      BY <1>9, SameIntr DEF ChipMerr, RxP!ChipEvent, rxVars, RxP!rxVars
    <2> QED  BY <2>1, HalfAssumptions, RxP!OtherInv
  <1>10. CASE UNCHANGED driverVars
    <2>1. UNCHANGED RxP!vars
      BY <1>10
         DEF driverVars, vars, intrVars, rxVars, RxP!vars, RxP!intrVars, RxP!rxVars
    <2> QED  BY <2>1, HalfAssumptions, RxP!OtherInv
  <1> QED
    BY <1>1, <1>2, <1>3, <1>4, <1>5, <1>6, <1>7, <1>8, <1>9, <1>10 DEF DriverNext

LEMMA DriverRxInit == DriverInit => RxP!RxInv
  BY SameRing, HalfAssumptions, RxP!RxInvInit DEF DriverInit

\* Whatever the transmit half does, the receive ring's invariant holds.
THEOREM DriverRxInvariant == DriverSpec => []RxP!RxInv
  <1>1. RxP!RxInv /\ [DriverNext]_driverVars => RxP!RxInv'
    BY DriverRxStep
  <1> QED  BY <1>1, DriverRxInit, PTL DEF DriverSpec

\* No interrupt of either half and no reset lets the work loop's gate go with
\* a packet left in inputPacket's queue.
THEOREM DriverInputFlushed == DriverSpec => []RxFlushed
  <1>1. RxP!RxInv => RxFlushed
    BY DEF RxP!RxInv, RxFlushed, Rx!InputFlushed
  <1> QED  BY <1>1, DriverRxInvariant, PTL

\* lnc_rint finds whole packets and no receive descriptor is lost, whatever
\* lnc_tint does between two of its calls, resets included.
THEOREM DriverRxInStep ==
    ASSUME Rx!RxWhole, Rx!RxAligned
    PROVE  DriverSpec => []RxInStep
  <1>1. RxP!RxWhole /\ RxP!RxAligned
    BY DEF Rx!RxWhole, RxP!RxWhole, Rx!RxAligned, RxP!RxAligned
  <1>2. ASSUME RxP!RxInv PROVE RxInStep
    <2>1. PICK done \in 0 .. NRx : RxP!Split(done)
      BY <1>1, <1>2 DEF RxP!RxInv, RxP!RingInStep
    <2>2. rxd = Rx!Add(recv_next, done)
      BY <2>1 DEF RxP!Split, RxP!Add, Rx!Add
    <2>3. ASSUME NEW k \in 0 .. NRx - 1
          PROVE  Rx!Has(Rx!Add(recv_next, k), {"OWN"}) <=> k >= done
      <3>1. Rx!Has(Rx!Add(recv_next, k), {"OWN"}) <=> "OWN" \in RxP!At(k).status
        BY DEF Rx!Has, RxP!At, Rx!Add, RxP!Add
      <3> QED  BY <2>1, <3>1, DriverAssumption DEF RxP!Split, RxP!Owned
    <2> QED
      BY <1>1, <1>2, <2>1, <2>2, <2>3
         DEF RxInStep, Rx!RintSync, Rx!NoDescriptorLost, RxP!RxInv
  <1> QED  BY <1>2, DriverRxInvariant, PTL

----------------------------------------------------------------------------
(* The transmit half of the driver is PCNetTx.                              *)

LEMMA CountInit == DriverInit => RaisesCounted
  BY DEF DriverInit, RaisesCounted, Rx!RxInit

\* Completing a frame is reported at once or is due; a first buffer is not.
LEMMA WriteCount ==
    ASSUME NEW status, NEW frame, NEW complete \in BOOLEAN,
           Rx!Write(status, frame, complete)
    PROVE  /\ midFrame' <=> ~complete
           /\ rintDue' => complete /\ csr0' = csr0
           /\ ~complete => csr0' = csr0
           /\ csr0 \subseteq csr0'
  BY DriverAssumption DEF Rx!Write

LEMMA CountStep ==
    ASSUME RxP!RxInv, RaisesCounted, [DriverNext]_driverVars
    PROVE  RaisesCounted'
  <1>0. raises \in Nat /\ arrived \in Nat
    BY DriverAssumption DEF RxP!RxInv, RxP!RxTypeOK, RaisesCounted
  <1>1. CASE Client \/ ChipTx \/ TxHandler
    <2>1. "RXON" \in csr0 => "RXON" \in csr0'
      BY <1>1
         DEF Client, Enqueue, OutputStall, OutputPacket, OutputWrite, Watchdog,
             ChipTx, ChipStep, ChipTransmit, ChipRaiseTint, TxHandler,
             TxIntrRead, IntrRead, TxIntrAck, IntrAck, AckValue, TintPacket,
             Reclaim, TintTest, TintEnd, TintEndWrite, CsrWrite, Latched, intrVars
    <2> QED  BY <1>1, <2>1 DEF Client, ChipTx, TxHandler, rxVars, RaisesCounted
  <1>2. CASE BothInit \/ BothStop
    BY <1>0, <1>2 DEF BothInit, BothStop, Rx!InitRing, Rx!StopRing, RaisesCounted
  <1>3. CASE BothEnter \/ BothReturn
    BY <1>3
       DEF BothEnter, BothReturn, TxIntrEnter, IntrEnter, TxIntrReturn,
           IntrReturn, Rx!EnterRing, Rx!ReturnRing, RaisesCounted
  <1>4. CASE RxHandler
    <2>1. "RXON" \in csr0 => "RXON" \in csr0'
      BY <1>4
         DEF RxHandler, Rx!RintPacket, Rx!Consume, Rx!intrVars, Rx!RintDone,
             Rx!RintEnd, Rx!RintEndWrite, Rx!CsrWrite, Rx!Latched
    <2>2. UNCHANGED <<raises, midFrame, rintDue, arrived>>
      BY <1>4
         DEF RxHandler, Rx!RintPacket, Rx!Consume, Rx!rxVars, Rx!RintDone,
             Rx!RintEnd
    <2> QED  BY <2>1, <2>2 DEF RaisesCounted
  <1>5. CASE ChipRx
    <2>0. raises' = raises + (IF csr0' = csr0 THEN 0 ELSE 1)
      BY <1>5 DEF ChipRx
    <2>a. ASSUME NEW status, NEW complete \in BOOLEAN,
                 Rx!Write(status, arrived + 1, complete),
                 arrived' = arrived + 1, Rx!NewFrame
          PROVE  RaisesCounted'
      <3>1. /\ ~midFrame /\ ~rintDue /\ "RXON" \in csr0
            /\ raises <= arrived
        BY <2>a DEF Rx!NewFrame, Rx!ChipReady, RaisesCounted
      <3>2. /\ midFrame' <=> ~complete
            /\ rintDue' => complete /\ csr0' = csr0
            /\ ~complete => csr0' = csr0
            /\ csr0 \subseteq csr0'
        BY <2>a, WriteCount
      <3>3. CASE csr0' = csr0
        BY <1>0, <2>0, <2>a, <3>1, <3>2, <3>3 DEF RaisesCounted
      <3>4. CASE csr0' # csr0
        <4>1. ~midFrame' /\ ~rintDue' /\ raises' = raises + 1
          BY <2>0, <3>2, <3>4
        <4> QED  BY <1>0, <2>a, <3>1, <4>1 DEF RaisesCounted
      <3> QED  BY <3>3, <3>4
    <2>1. CASE Rx!ChipReceive
      <3>1. PICK errs \in SUBSET {"ERR"} :
                Rx!Write({"STP", "ENP"} \cup errs, arrived + 1, TRUE)
        BY <2>1 DEF Rx!ChipReceive
      <3>2. arrived' = arrived + 1 /\ Rx!NewFrame
        BY <2>1 DEF Rx!ChipReceive
      <3> QED  BY <2>a, <3>1, <3>2
    <2>2. CASE Rx!ChipOverrun
      <3>1. arrived' = arrived + 1 /\ Rx!NewFrame
        BY <2>2 DEF Rx!ChipOverrun
      <3>2. CASE Rx!Has(Rx!Inc(rxd), {"OWN"})
        <4>1. Rx!Write({"STP"}, arrived + 1, FALSE)
          BY <2>2, <3>2 DEF Rx!ChipOverrun
        <4> QED  BY <2>a, <3>1, <4>1
      <3>3. CASE ~Rx!Has(Rx!Inc(rxd), {"OWN"})
        <4>1. Rx!Write({"STP", "ERR"}, arrived + 1, TRUE)
          BY <2>2, <3>3 DEF Rx!ChipOverrun
        <4> QED  BY <2>a, <3>1, <4>1
      <3> QED  BY <3>2, <3>3
    <2>3. CASE Rx!ChipFinish
      <3>1. PICK status : Rx!Write(status, arrived, TRUE)
        BY <2>3 DEF Rx!ChipFinish
      <3>2. arrived' = arrived /\ midFrame /\ ~rintDue /\ "RXON" \in csr0
        BY <2>3 DEF Rx!ChipFinish, Rx!ChipReady
      <3>3. /\ ~midFrame'
            /\ rintDue' => csr0' = csr0
            /\ csr0 \subseteq csr0'
        BY <3>1, WriteCount
      <3>4. raises + 1 <= arrived
        BY <3>2 DEF RaisesCounted
      <3>5. CASE csr0' = csr0
        BY <1>0, <2>0, <3>2, <3>3, <3>4, <3>5 DEF RaisesCounted
      <3>6. CASE csr0' # csr0
        <4>1. ~rintDue' /\ raises' = raises + 1
          BY <2>0, <3>3, <3>6
        <4> QED  BY <1>0, <3>2, <3>3, <3>4, <4>1 DEF RaisesCounted
      <3> QED  BY <3>5, <3>6
    <2>4. CASE Rx!ChipMiss
      BY <1>0, <1>5, <2>4
         DEF ChipRx, Rx!ChipMiss, Rx!NewFrame, Rx!ChipReady, RaisesCounted
    <2>5. CASE Rx!ChipRaiseRint
      BY <1>0, <1>5, <2>5 DEF ChipRx, Rx!ChipRaiseRint, RaisesCounted
    <2> QED  BY <1>5, <2>1, <2>2, <2>3, <2>4, <2>5 DEF ChipRx, Rx!ChipStep
  <1>6. CASE ChipMerr \/ UNCHANGED driverVars
    BY <1>6
       DEF ChipMerr, ChipRaise, driverVars, vars, intrVars, rxVars, RaisesCounted
  <1> QED  BY <1>1, <1>2, <1>3, <1>4, <1>5, <1>6 DEF DriverNext

\* A change the receiver makes to CSR0 is a cause PCNetTx knows.
LEMMA ReceiverRaises ==
    ASSUME RaisesCounted, ChipRx, csr0' # csr0
    PROVE  /\ \E bit \in {"MISS", "RINT"} : csr0' = csr0 \cup {bit}
           /\ "RXON" \in csr0
           /\ UNCHANGED <<pc, lcsr, initDone, resets, events>>
  <1>1. CASE Rx!ChipReceive \/ Rx!ChipOverrun \/ Rx!ChipFinish
    BY <1>1
       DEF Rx!ChipReceive, Rx!ChipOverrun, Rx!ChipFinish, Rx!Write, Rx!NewFrame,
           Rx!ChipReady
  <1>2. CASE Rx!ChipMiss \/ Rx!ChipRaiseRint
    BY <1>2
       DEF Rx!ChipMiss, Rx!ChipRaiseRint, Rx!NewFrame, Rx!ChipReady, RaisesCounted
  <1> QED  BY <1>1, <1>2 DEF ChipRx, Rx!ChipStep

\* The bounds on the environment of PCNetTx are met.
LEMMA EventsBelow ==
    ASSUME RxP!RxInv, RaisesCounted
    PROVE  /\ events \in Nat /\ raises \in Nat /\ MaxEvents \in Nat /\ MaxFrames \in Nat
           /\ raises <= MaxFrames /\ events <= MaxEvents
           /\ events < MaxEvents => events + raises < MaxEvents + MaxFrames
  <1>1. /\ events \in 0 .. MaxEvents /\ arrived \in 0 .. MaxFrames
        /\ raises \in Nat /\ raises <= arrived
    BY DriverAssumption
       DEF RxP!RxInv, RxP!RxTypeOK, RxP!IntrTypeOK, RaisesCounted
  <1> QED  BY <1>1, IntrAssumption, DriverAssumption

\* So is the number of frames that bounds the receiver's changes to CSR0.
LEMMA RaisesBounded ==
    ASSUME RxP!RxInv', RaisesCounted'
    PROVE  raises' <= MaxFrames
  <1>1. arrived' \in 0 .. MaxFrames
    BY DEF RxP!RxInv, RxP!RxTypeOK
  <1>2. raises' \in Nat
    BY DEF RaisesCounted
  <1>3. raises' <= arrived'
    <2>1. arrived' \in Nat
      BY <1>1, DriverAssumption
    <2>2. raises' + 1 <= arrived' \/ raises' + 0 <= arrived'
      BY DEF RaisesCounted
    <2>3. \A r, a \in Nat : r + 1 <= a \/ r + 0 <= a => r <= a
      OBVIOUS
    <2> QED  BY <1>2, <2>1, <2>2, <2>3
  <1> QED  BY <1>1, <1>2, <1>3, DriverAssumption

\* lnc_tint's search sees the same ring.
LEMMA SameScan ==
    /\ ScanResult = TxHalf!ScanResult
    /\ PacketEnd = TxHalf!PacketEnd
    /\ NextStart = TxHalf!NextStart
    /\ \A i, flags : Has(i, flags) <=> TxHalf!Has(i, flags)
    /\ \A i, j : Steps(i, j) = TxHalf!Steps(i, j)
    /\ \A i, n : Span(i, n) = TxHalf!Span(i, n)
  BY DEF ScanResult, ScanStops, PacketEnd, NextStart, Has, Add, Inc, Steps, Span,
         Min, TxHalf!ScanResult, TxHalf!ScanStops, TxHalf!PacketEnd,
         TxHalf!NextStart, TxHalf!Has, TxHalf!Add, TxHalf!Inc, TxHalf!Steps,
         TxHalf!Span, TxHalf!Min

\* So a packet is reclaimed in the same way.
LEMMA SameReclaim ==
    ASSUME Reclaim, pc = "tint", raises' = raises
    PROVE  TxHalf!Reclaim
  <1> DEFINE n == Steps(trans_next, NextStart)
             m == TxHalf!Steps(trans_next, TxHalf!NextStart)
  <1>1. n = m
    BY SameScan
  <1>2. Idx = TxHalf!Idx /\ Free = TxHalf!Free /\ Cleared(n) = TxHalf!Cleared(m)
    BY <1>1, SameScan
       DEF Idx, Free, Cleared, TxHalf!Idx, TxHalf!Free, TxHalf!Cleared
  <1>3. /\ trans' = [i \in TxHalf!Idx |->
                        IF i \in TxHalf!Cleared(m) THEN TxHalf!Free ELSE trans[i]]
        /\ pending_transmits' = pending_transmits - m
        /\ trans_next' = TxHalf!NextStart
    BY <1>1, <1>2, SameScan DEF Reclaim
  <1> QED  BY <1>3 DEF Reclaim, TxHalf!Reclaim

\* Each step of the driver is a step of PCNetTx or stutters.
LEMMA DriverTxStep ==
    ASSUME RxP!RxInv, RaisesCounted, RaisesCounted', RxP!RxInv', ResetsAllowed,
           [DriverNext]_driverVars
    PROVE  [TxHalf!TxNext]_(TxHalf!vars)
  <1>b. /\ events < MaxEvents => events + raises < MaxEvents + MaxFrames
        /\ events \in Nat /\ raises \in Nat
    BY EventsBelow
  <1>1. CASE Client
    <2>1. UNCHANGED (events + raises)
      BY <1>1
         DEF Client, Enqueue, OutputStall, OutputPacket, Watchdog, intrVars
    <2>2. CASE Enqueue
      BY <1>1, <2>1, <2>2
         DEF Client, Enqueue, intrVars, driverTxVars, TxHalf!TxNext,
             TxHalf!Enqueue, TxHalf!intrVars, TxHalf!driverTxVars
    <2>3. CASE OutputStall
      BY <1>1, <2>1, <2>3
         DEF Client, OutputStall, CanOutput, RingFull, intrVars, driverTxVars,
             TxHalf!TxNext, TxHalf!OutputStall, TxHalf!CanOutput,
             TxHalf!RingFull, TxHalf!intrVars, TxHalf!driverTxVars
    <2>4. CASE OutputPacket
      BY <1>1, <2>1, <2>4
         DEF Client, OutputPacket, CanOutput, RingFull, OutputWrite, CsrWrite,
             Latched, Inc, Add, TxHalf!TxNext, TxHalf!OutputPacket,
             TxHalf!CanOutput, TxHalf!RingFull, TxHalf!OutputWrite,
             TxHalf!CsrWrite, TxHalf!Latched, TxHalf!Inc, TxHalf!Add
    <2>5. CASE Watchdog
      BY <1>1, <2>1, <2>5
         DEF Client, Watchdog, intrVars, driverTxVars, TxHalf!TxNext,
             TxHalf!Watchdog, TxHalf!intrVars, TxHalf!driverTxVars
    <2> QED  BY <1>1, <2>2, <2>3, <2>4, <2>5 DEF Client
  <1>2. CASE BothInit
    <2>1. PICK ok \in InitOutcomes :
              (ResetChip(ok) \/ PromiscChip(ok)) /\ InitRing(ok) /\ UNCHANGED raises
      BY <1>2 DEF BothInit
    <2>2. TxHalf!InitRing(ok)
      BY <2>1
         DEF InitRing, StalledAfterInit, Free, Idx, TxHalf!InitRing,
             TxHalf!StalledAfterInit, TxHalf!Free, TxHalf!Idx
    <2>3. CASE ResetChip(ok)
      <3>1. TxHalf!ResetChip(ok)
        BY <2>1, <2>3
           DEF ResetChip, InitChip, CsrInit, CsrStart, CsrStop, ResetReturn,
               AfterRint, TxHalf!ResetChip, TxHalf!InitChip, TxHalf!CsrInit,
               TxHalf!CsrStart, TxHalf!CsrStop, TxHalf!ResetReturn,
               TxHalf!AfterRint
      <3> QED
        BY <2>2, <3>1 DEF TxHalf!TxNext, TxHalf!HandlerStep, TxHalf!LncReset
    <2>4. CASE PromiscChip(ok)
      <3>1. TxHalf!PromiscChip(ok)
        BY <1>b, <2>1, <2>4
           DEF PromiscChip, InitChip, CsrInit, CsrStart, CsrStop,
               TxHalf!PromiscChip, TxHalf!InitChip, TxHalf!CsrInit,
               TxHalf!CsrStart, TxHalf!CsrStop
      <3> QED
        BY <2>2, <3>1 DEF TxHalf!TxNext, TxHalf!SetPromiscuousMode
    <2> QED  BY <2>1, <2>3, <2>4
  <1>3. CASE BothStop
    <2>1. events' = events + 1 /\ raises' = raises /\ events < MaxEvents
      BY <1>3 DEF BothStop, SetMulticastList, MulticastChip
    <2>2. TxHalf!MulticastChip
      BY <1>3, <1>b, <2>1
         DEF BothStop, SetMulticastList, MulticastChip, CsrStart, CsrStop,
             TxHalf!MulticastChip, TxHalf!CsrStart, TxHalf!CsrStop
    <2> QED
      BY <1>3, <2>2
         DEF BothStop, SetMulticastList, driverTxVars, queueVars,
             TxHalf!TxNext, TxHalf!SetMulticastList, TxHalf!driverTxVars,
             TxHalf!queueVars
  <1>4. CASE BothEnter \/ BothReturn
    <2>1. CASE BothEnter
      BY <2>1
         DEF BothEnter, TxIntrEnter, IntrEnter, INTA, INTR, Latched,
             driverTxVars, queueVars, TxHalf!TxNext, TxHalf!TxIntrEnter,
             TxHalf!IntrEnter, TxHalf!INTA, TxHalf!INTR, TxHalf!Latched,
             TxHalf!driverTxVars, TxHalf!queueVars
    <2>2. CASE BothReturn
      BY <2>2
         DEF BothReturn, TxIntrReturn, IntrReturn, INTR, Latched, driverTxVars,
             queueVars, TxHalf!TxNext, TxHalf!HandlerStep,
             TxHalf!TxIntrReturn, TxHalf!IntrReturn, TxHalf!INTR,
             TxHalf!Latched, TxHalf!driverTxVars, TxHalf!queueVars
    <2> QED  BY <1>4, <2>1, <2>2
  <1>5. CASE TxHandler
    <2>1. CASE TxIntrRead
      BY <1>5, <2>1
         DEF TxHandler, TxIntrRead, IntrRead, INTR, Latched, txVars,
             driverTxVars, queueVars, TxHalf!TxNext, TxHalf!HandlerStep,
             TxHalf!TxIntrRead, TxHalf!IntrRead, TxHalf!INTR, TxHalf!Latched,
             TxHalf!txVars, TxHalf!driverTxVars, TxHalf!queueVars
    <2>2. CASE TxIntrAck
      BY <1>5, <2>2
         DEF TxHandler, TxIntrAck, IntrAck, AckValue, CsrWrite, Latched,
             Dispatch, AfterRint, txVars, driverTxVars, queueVars,
             TxHalf!TxNext, TxHalf!HandlerStep, TxHalf!TxIntrAck,
             TxHalf!IntrAck, TxHalf!AckValue, TxHalf!CsrWrite, TxHalf!Latched,
             TxHalf!Dispatch, TxHalf!AfterRint, TxHalf!txVars,
             TxHalf!driverTxVars, TxHalf!queueVars
    <2>3. CASE TintPacket
      <3>1. TxHalf!TintPacket
        <4>1. /\ pc = "tint" /\ UNCHANGED rxVars /\ UNCHANGED raises
              /\ ScanResult = TxHalf!ScanResult
              /\ Has(PacketEnd, {"UFLO"}) <=> TxHalf!Has(TxHalf!PacketEnd, {"UFLO"})
          BY <1>5, <2>3, SameScan DEF TxHandler, TintPacket
        <4>2. CASE ScanResult = "end" /\ ~Has(PacketEnd, {"UFLO"})
          <5>1. Reclaim
            BY <2>3, <4>2 DEF TintPacket
          <5>2. TxHalf!Reclaim
            BY <4>1, <5>1, SameReclaim
          <5>3. TxHalf!ScanResult = "end" /\ ~TxHalf!Has(TxHalf!PacketEnd, {"UFLO"})
            BY <4>1, <4>2 DEF Has, TxHalf!Has
          <5> QED  BY <4>1, <5>2, <5>3 DEF TxHalf!TintPacket
        <4>3. CASE ~(ScanResult = "end" /\ ~Has(PacketEnd, {"UFLO"}))
          <5>1. /\ pc' = IF ScanResult = "end" THEN "reset" ELSE ScanResult
                /\ UNCHANGED <<csr0, lcsr, initDone, resets, events, txVars>>
            BY <2>3, <4>3 DEF TintPacket
          <5>2. pc' # "rintEnd"
            BY <5>1 DEF ScanResult
          <5>3. ~(TxHalf!ScanResult = "end" /\ ~TxHalf!Has(TxHalf!PacketEnd, {"UFLO"}))
            BY <4>1, <4>3 DEF Has, TxHalf!Has
          <5> QED
            BY <4>1, <5>1, <5>2, <5>3
               DEF TxHalf!TintPacket, txVars, driverTxVars, queueVars,
                   TxHalf!txVars, TxHalf!driverTxVars, TxHalf!queueVars
        <4> QED  BY <4>2, <4>3
      <3> QED  BY <3>1 DEF TxHalf!TxNext, TxHalf!HandlerStep
    <2>4. CASE TintTest \/ TintEnd
      BY <1>5, <2>4
         DEF TxHandler, TintTest, MoreDone, TintEnd, TintEndWrite, CsrWrite,
             Latched, Has, txVars, driverTxVars, queueVars, TxHalf!TxNext,
             TxHalf!HandlerStep, TxHalf!TintTest, TxHalf!MoreDone,
             TxHalf!TintEnd, TxHalf!TintEndWrite, TxHalf!CsrWrite,
             TxHalf!Latched, TxHalf!Has, TxHalf!txVars, TxHalf!driverTxVars,
             TxHalf!queueVars
    <2> QED  BY <1>5, <2>1, <2>2, <2>3, <2>4 DEF TxHandler
  <1>6. CASE RxHandler
    <2> USE DEF txVars, driverTxVars, queueVars, TxHalf!txVars,
                TxHalf!driverTxVars, TxHalf!queueVars
    <2>1. CASE Rx!RintEnd
      BY <1>6, <2>1
         DEF RxHandler, Rx!RintEnd, Rx!RintEndWrite, Rx!CsrWrite, Rx!Latched,
             Rx!AfterRint, TxHalf!TxNext, TxHalf!HandlerStep, TxHalf!RintEnd,
             TxHalf!CsrWrite, TxHalf!Latched, TxHalf!AfterRint
    <2>2. CASE Rx!RintDone
      BY <1>6, <2>2
         DEF RxHandler, Rx!RintDone, TxHalf!vars, TxHalf!intrVars
    <2>3. CASE Rx!RintPacket /\ Rx!PacketComplete
      BY <1>6, <2>3
         DEF RxHandler, Rx!RintPacket, Rx!Consume, Rx!intrVars, TxHalf!vars,
             TxHalf!intrVars
    <2>4. CASE Rx!RintPacket /\ ~Rx!PacketComplete
      <3>1. /\ pc = "rint" /\ pc' \in {"rintEnd", "rintReset"}
            /\ UNCHANGED <<csr0, lcsr, initDone, resets, events, raises, txVars>>
        BY <1>6, <2>4 DEF RxHandler, Rx!RintPacket
      <3>2. CASE pc' = "rintEnd"
        BY <3>1, <3>2 DEF TxHalf!vars, TxHalf!intrVars
      <3>3. CASE pc' = "rintReset"
        <4>1. RxResets
          BY <3>3 DEF ResetsAllowed, RxP!RxInv, RxP!RxWhole, Rx!RxWhole,
                      RxP!RxAligned, Rx!RxAligned
        <4> QED
          BY <3>1, <3>3, <4>1
             DEF TxHalf!TxNext, TxHalf!HandlerStep, TxHalf!RintOutOfSync
      <3> QED  BY <3>1, <3>2, <3>3
    <2> QED  BY <1>6, <2>1, <2>2, <2>3, <2>4 DEF RxHandler
  <1>7. CASE ChipTx
    <2>1. UNCHANGED (events + raises)
      BY <1>7 DEF ChipTx, ChipStep, ChipTransmit, ChipRaiseTint
    <2>2. CASE ChipRaiseTint
      BY <1>7, <2>1, <2>2
         DEF ChipTx, ChipRaiseTint, driverTxVars, queueVars, TxHalf!TxNext,
             TxHalf!ChipStep, TxHalf!ChipRaiseTint, TxHalf!driverTxVars,
             TxHalf!queueVars
    <2>3. ASSUME NEW r \in TxResults, ChipTransmit(r)
          PROVE  TxHalf!ChipTransmit(r)
      BY <1>7, <2>1, <2>3
         DEF ChipTx, ChipTransmit, Has, Inc, Add, driverTxVars, queueVars,
             TxHalf!ChipTransmit, TxHalf!Has, TxHalf!Inc, TxHalf!Add,
             TxHalf!driverTxVars, TxHalf!queueVars
    <2> QED
      BY <1>7, <2>2, <2>3 DEF ChipTx, ChipStep, TxHalf!TxNext, TxHalf!ChipStep
  <1>8. CASE ChipRx
    <2> USE DEF txVars, driverTxVars, queueVars, TxHalf!txVars,
                TxHalf!driverTxVars, TxHalf!queueVars
    <2>1. UNCHANGED <<pc, lcsr, initDone, resets, events>>
      BY <1>8
         DEF ChipRx, Rx!ChipStep, Rx!ChipReceive, Rx!ChipOverrun,
             Rx!ChipFinish, Rx!Write, Rx!ChipMiss, Rx!ChipRaiseRint
    <2>2. CASE csr0' = csr0
      BY <1>8, <1>b, <2>1, <2>2 DEF ChipRx, TxHalf!vars, TxHalf!intrVars
    <2>3. CASE csr0' # csr0
      <3>1. PICK bit \in {"MISS", "RINT"} : csr0' = csr0 \cup {bit}
        BY <1>8, <2>3, ReceiverRaises
      <3>2. raises' = raises + 1 /\ raises' <= MaxFrames
        BY <1>8, <2>3, RaisesBounded DEF ChipRx
      <3>3. events + raises < MaxEvents + MaxFrames
            /\ events' + raises' = events + raises + 1
        BY <2>1, <3>2, EventsBelow
      <3>4. TxHalf!ChipRaise(bit)
        BY <1>8, <2>1, <2>3, <3>1, <3>3, ReceiverRaises DEF TxHalf!ChipRaise
      <3> QED
        BY <1>8, <3>4 DEF ChipRx, TxHalf!TxNext, TxHalf!ChipEvent
    <2> QED  BY <2>2, <2>3
  <1>9. CASE ChipMerr
    <2>1. TxHalf!ChipRaise("MERR")
      BY <1>9, <1>b DEF ChipMerr, ChipRaise, TxHalf!ChipRaise
    <2> QED
      BY <1>9, <2>1
         DEF ChipMerr, txVars, driverTxVars, queueVars, TxHalf!TxNext,
             TxHalf!ChipEvent, TxHalf!txVars, TxHalf!driverTxVars,
             TxHalf!queueVars
  <1>10. CASE UNCHANGED driverVars
    BY <1>10
       DEF driverVars, vars, intrVars, txVars, driverTxVars, queueVars,
           TxHalf!vars, TxHalf!intrVars, TxHalf!txVars, TxHalf!driverTxVars,
           TxHalf!queueVars
  <1> QED
    BY <1>1, <1>2, <1>3, <1>4, <1>5, <1>6, <1>7, <1>8, <1>9, <1>10 DEF DriverNext

\* The driver implements the transmit half: what PCNetTx lets lnc_rint and the
\* receiver do, at any time, is what they do.
THEOREM DriverImplementsTx ==
    ASSUME ResetsAllowed
    PROVE  DriverSpec => ImplementsTx
  <1>1. DriverInit => RxP!RxInv /\ RaisesCounted /\ TxHalf!TxInit
    <2>1. DriverInit => TxHalf!TxInit
      BY DEF DriverInit, TxInit, IntrInit, CsrInit, CsrStart, CsrStop, Idx, Free,
             TxHalf!TxInit, TxHalf!IntrInit, TxHalf!CsrInit, TxHalf!CsrStart,
             TxHalf!CsrStop, TxHalf!Idx, TxHalf!Free
    <2> QED  BY <2>1, DriverRxInit, CountInit
  <1>2. RxP!RxInv /\ RaisesCounted /\ [DriverNext]_driverVars
            => RxP!RxInv' /\ RaisesCounted'
    BY DriverRxStep, CountStep
  <1>3. RxP!RxInv /\ RaisesCounted /\ RxP!RxInv' /\ RaisesCounted'
            /\ [DriverNext]_driverVars => [TxHalf!TxNext]_(TxHalf!vars)
    BY DriverTxStep
  <1> QED
    BY <1>1, <1>2, <1>3, PTL DEF DriverSpec, ImplementsTx, TxHalf!TxSpec

----------------------------------------------------------------------------
(* What is proved of the transmit half holds of the driver.                 *)

LEMMA SameTxControl ==
    /\ TxHalf!vars = TxP!vars
    /\ TxHalf!TxInit <=> TxP!TxInit
    /\ TxHalf!Enqueue <=> TxP!Enqueue
    /\ TxHalf!OutputStall <=> TxP!OutputStall
    /\ TxHalf!OutputPacket <=> TxP!OutputPacket
    /\ TxHalf!Watchdog <=> TxP!Watchdog
    /\ TxHalf!SetPromiscuousMode <=> TxP!SetPromiscuousMode
    /\ TxHalf!SetMulticastList <=> TxP!SetMulticastList
    /\ TxHalf!LncReset <=> TxP!LncReset
    /\ TxHalf!TxIntrEnter <=> TxP!TxIntrEnter
    /\ TxHalf!TxIntrRead <=> TxP!TxIntrRead
    /\ TxHalf!TxIntrAck <=> TxP!TxIntrAck
    /\ TxHalf!TxIntrReturn <=> TxP!TxIntrReturn
    /\ TxHalf!RintEnd <=> TxP!RintEnd
    /\ TxHalf!RintOutOfSync <=> TxP!RintOutOfSync
    /\ TxHalf!ChipStep <=> TxP!ChipStep
    /\ TxHalf!ChipEvent <=> TxP!ChipEvent
  BY DEF TxHalf!intrVars, TxP!intrVars, TxHalf!driverTxVars, TxP!driverTxVars,
         TxHalf!queueVars, TxP!queueVars, TxHalf!txVars, TxP!txVars,
         TxHalf!vars, TxP!vars, TxHalf!TxInit, TxP!TxInit, TxHalf!IntrInit,
         TxP!IntrInit, TxHalf!CsrInit, TxP!CsrInit, TxHalf!CsrStart,
         TxP!CsrStart, TxHalf!CsrStop, TxP!CsrStop, TxHalf!Idx, TxP!Idx,
         TxHalf!Free, TxP!Free, TxHalf!Enqueue, TxP!Enqueue,
         TxHalf!OutputStall, TxP!OutputStall, TxHalf!CanOutput, TxP!CanOutput,
         TxHalf!RingFull, TxP!RingFull, TxHalf!OutputPacket, TxP!OutputPacket,
         TxHalf!OutputWrite, TxP!OutputWrite, TxHalf!CsrWrite, TxP!CsrWrite,
         TxHalf!Latched, TxP!Latched, TxHalf!Inc, TxP!Inc, TxHalf!Add,
         TxP!Add, TxHalf!Watchdog, TxP!Watchdog, TxHalf!SetPromiscuousMode,
         TxP!SetPromiscuousMode, TxHalf!PromiscChip, TxP!PromiscChip,
         TxHalf!InitChip, TxP!InitChip, TxHalf!InitRing, TxP!InitRing,
         TxHalf!StalledAfterInit, TxP!StalledAfterInit,
         TxHalf!SetMulticastList, TxP!SetMulticastList, TxHalf!MulticastChip,
         TxP!MulticastChip, TxHalf!LncReset, TxP!LncReset, TxHalf!ResetChip,
         TxP!ResetChip, TxHalf!ResetReturn, TxP!ResetReturn, TxHalf!AfterRint,
         TxP!AfterRint, TxHalf!TxIntrEnter, TxP!TxIntrEnter, TxHalf!IntrEnter,
         TxP!IntrEnter, TxHalf!INTA, TxP!INTA, TxHalf!INTR, TxP!INTR,
         TxHalf!TxIntrRead, TxP!TxIntrRead, TxHalf!IntrRead, TxP!IntrRead,
         TxHalf!TxIntrAck, TxP!TxIntrAck, TxHalf!IntrAck, TxP!IntrAck,
         TxHalf!AckValue, TxP!AckValue, TxHalf!Dispatch, TxP!Dispatch,
         TxHalf!TxIntrReturn, TxP!TxIntrReturn, TxHalf!IntrReturn,
         TxP!IntrReturn, TxHalf!RintEnd, TxP!RintEnd, TxHalf!RintOutOfSync,
         TxP!RintOutOfSync, TxHalf!ChipStep, TxP!ChipStep,
         TxHalf!ChipTransmit, TxP!ChipTransmit, TxHalf!ChipRaiseTint,
         TxP!ChipRaiseTint, TxHalf!ChipEvent, TxP!ChipEvent, TxHalf!ChipRaise,
         TxP!ChipRaise, TxHalf!Has, TxP!Has

LEMMA SameTint ==
    /\ TxHalf!TintPacket <=> TxP!TintPacket
    /\ TxHalf!TintTest <=> TxP!TintTest
    /\ TxHalf!TintEnd <=> TxP!TintEnd
  BY DEF TxHalf!intrVars, TxP!intrVars, TxHalf!driverTxVars, TxP!driverTxVars,
         TxHalf!queueVars, TxP!queueVars, TxHalf!txVars, TxP!txVars,
         TxHalf!TintPacket, TxP!TintPacket, TxHalf!ScanResult, TxP!ScanResult,
         TxHalf!ScanStops, TxP!ScanStops, TxHalf!PacketEnd, TxP!PacketEnd,
         TxHalf!NextStart, TxP!NextStart, TxHalf!Reclaim, TxP!Reclaim,
         TxHalf!Cleared, TxP!Cleared, TxHalf!Free, TxP!Free, TxHalf!Idx,
         TxP!Idx, TxHalf!Has, TxP!Has, TxHalf!Inc, TxP!Inc, TxHalf!Add,
         TxP!Add, TxHalf!Steps, TxP!Steps, TxHalf!Span, TxP!Span, TxHalf!Min,
         TxP!Min, TxHalf!TMDFlags, TxP!TMDFlags, TxHalf!TintTest,
         TxP!TintTest, TxHalf!MoreDone, TxP!MoreDone, TxHalf!TintEnd,
         TxP!TintEnd, TxHalf!TintEndWrite, TxP!TintEndWrite, TxHalf!CsrWrite,
         TxP!CsrWrite, TxHalf!Latched, TxP!Latched

LEMMA DriverTxSpec == ASSUME ResetsAllowed PROVE DriverSpec => TxP!TxSpec
  <1>1. TxHalf!TxInit => TxP!TxInit
    BY SameTxControl
  <1>2. [TxHalf!TxNext]_(TxHalf!vars) => [TxP!TxNext]_(TxP!vars)
    <2>1. TxHalf!TxNext => TxP!TxNext
      BY SameTxControl, SameTint
         DEF TxHalf!TxNext, TxP!TxNext, TxHalf!HandlerStep, TxP!HandlerStep
    <2>2. UNCHANGED TxHalf!vars => UNCHANGED TxP!vars
      BY DEF TxHalf!vars, TxP!vars, TxHalf!intrVars, TxP!intrVars,
             TxHalf!txVars, TxP!txVars, TxHalf!driverTxVars, TxP!driverTxVars,
             TxHalf!queueVars, TxP!queueVars
    <2> QED  BY <2>1, <2>2
  <1> QED
    BY <1>1, <1>2, DriverImplementsTx, PTL
       DEF ImplementsTx, TxHalf!TxSpec, TxP!TxSpec

\* With the receiver at work too a stalled queue is waiting for a full ring.
THEOREM DriverQueueWoken ==
    ASSUME ResetsAllowed
    PROVE  DriverSpec => []StalledMeansFull
  <1>1. TxP!StalledMeansFull => StalledMeansFull
    BY DEF TxP!StalledMeansFull, StalledMeansFull
  <1> QED
    BY <1>1, HalfAssumptions, DriverTxSpec, TxP!QueueWoken, PTL

\* lnc_tint stays in step with the chip whatever the receiver and lnc_rint do.
THEOREM DriverTintInSync ==
    ASSUME Rx!RxWhole, Aligned
    PROVE  DriverSpec => []TintSync
  <1>1. TxP!TintSync => TintSync
    BY DEF TxP!TintSync, TintSync, TxP!Has, Has
  <1>2. ResetsAllowed /\ TxP!Aligned
    BY DEF ResetsAllowed, Aligned, TxP!Aligned
  <1> QED
    BY <1>1, <1>2, HalfAssumptions, DriverTxSpec, TxP!TintInSync, PTL

\* A full transmit ring is not left asleep by an interrupt handler that serves
\* the receiver as well.
THEOREM DriverFullRingAwake ==
    ASSUME Rx!RxWhole, TintReliable
    PROVE  DriverSpec => []FullRingWakes
  <1>1. TxP!FullRingWakes => FullRingWakes
    BY DEF TxP!FullRingWakes, FullRingWakes, TxP!Has, Has
  <1>2. ResetsAllowed /\ TxP!TintReliable
    BY DEF ResetsAllowed, TintReliable, Aligned, TxP!TintReliable, TxP!Aligned
  <1> QED
    BY <1>1, <1>2, HalfAssumptions, DriverTxSpec, TxP!FullRingAwake, PTL

\* Packets of the stack go out in order, each once, with the receiver at work.
THEOREM DriverTxInOrder ==
    ASSUME Rx!RxWhole, Aligned
    PROVE  DriverSpec => TxInOrder
  <1>1. ResetsAllowed /\ TxP!Aligned
    BY DEF ResetsAllowed, Aligned, TxP!Aligned
  <1>2. TxP!Waiting = Waiting
    BY DEF TxP!Waiting, Waiting, TxP!Has, Has, TxP!Idx, Idx
  <1>3. TxP!Path!Init => Path!Init
    BY <1>2 DEF TxP!Path!Init, Path!Init
  <1>4. [TxP!Path!Next]_(TxP!Path!vars) => [Path!Next]_(Path!vars)
    BY <1>2
       DEF TxP!Path!Next, TxP!Path!Accept, TxP!Path!Handle, TxP!Path!Flush,
           TxP!Path!vars, Path!Next, Path!Accept, Path!Handle, Path!Flush,
           Path!vars, TxP!Waiting, Waiting, TxP!Has, Has, TxP!Idx, Idx
  <1>5. TxP!TxInOrder => TxInOrder
    BY <1>3, <1>4, PTL
       DEF TxP!TxInOrder, TxInOrder, TxP!Path!Spec, Path!Spec
  <1> QED
    BY <1>1, <1>5, HalfAssumptions, DriverTxSpec, TxP!TxImplementsPath, PTL

\* A step of the driver is one of PCNetRx or leaves the receive ring alone.
LEMMA DriverRxNext ==
    ASSUME [DriverNext]_driverVars
    PROVE  RxP!RxNext \/ UNCHANGED <<recv, arrived, delivered, resets>>
  <1>1. CASE Client
    BY <1>1
       DEF Client, Enqueue, OutputStall, OutputPacket, Watchdog, intrVars, rxVars
  <1>2. CASE BothInit
    <2>1. PICK ok \in InitOutcomes : RxP!ResetChip(ok) \/ RxP!PromiscChip(ok)
      BY <1>2, SameIntr DEF BothInit
    <2> QED
      BY <1>2, <2>1, SameRing
         DEF BothInit, RxP!RxNext, RxP!HandlerStep, RxP!LncReset,
             RxP!SetPromiscuousMode
  <1>3. CASE BothStop
    BY <1>3 DEF BothStop, Rx!StopRing, SetMulticastList, MulticastChip
  <1>4. CASE BothEnter \/ BothReturn
    BY <1>4
       DEF BothEnter, BothReturn, Rx!EnterRing, Rx!ReturnRing, TxIntrEnter,
           TxIntrReturn, IntrEnter, IntrReturn
  <1>5. CASE TxHandler
    BY <1>5
       DEF TxHandler, TxIntrRead, TxIntrAck, IntrRead, IntrAck, TintPacket,
           Reclaim, TintTest, TintEnd, rxVars
  <1>6. CASE RxHandler
    BY <1>6, SameRint DEF RxHandler, RxP!RxNext, RxP!HandlerStep
  <1>7. CASE ChipTx
    BY <1>7 DEF ChipTx, ChipStep, ChipTransmit, ChipRaiseTint, rxVars
  <1>8. CASE ChipRx
    BY <1>8, SameChip DEF ChipRx, RxP!RxNext
  <1>9. CASE ChipMerr
    BY <1>9 DEF ChipMerr, ChipRaise, rxVars
  <1>10. CASE UNCHANGED driverVars
    BY <1>10 DEF driverVars, vars, intrVars, rxVars
  <1> QED
    BY <1>1, <1>2, <1>3, <1>4, <1>5, <1>6, <1>7, <1>8, <1>9, <1>10 DEF DriverNext

\* Frames are consumed in the order of their arrival, each once, with the
\* transmit half at work and resets from either.
THEOREM DriverRxInOrder ==
    ASSUME Rx!RxAligned
    PROVE  DriverSpec => Rx!RxInOrder
  <1>1. RxP!RxAligned
    BY DEF Rx!RxAligned, RxP!RxAligned
  <1>2. DriverInit => Rx!Path!Init
    <2> SUFFICES ASSUME DriverInit PROVE Rx!Path!Init
      OBVIOUS
    <2>1. \A i \in Rx!Idx : ~Rx!Has(i, {"STP"})
      BY DEF DriverInit, Rx!RxInit, Rx!Has, Rx!Owned
    <2> QED
      BY <2>1
         DEF DriverInit, Rx!RxInit, Rx!IntrInit, Rx!Waiting, Rx!Path!Init
  <1>3. RxP!RxInv /\ [DriverNext]_driverVars => [Rx!Path!Next]_(Rx!Path!vars)
    <2> SUFFICES ASSUME RxP!RxInv, [DriverNext]_driverVars
                 PROVE  [Rx!Path!Next]_(Rx!Path!vars)
      OBVIOUS
    <2>1. CASE RxP!RxNext
      <3>1. [RxP!Path!Next]_(RxP!Path!vars)
        BY <1>1, <2>1, HalfAssumptions, RxP!RxPathStep
      <3> QED
        BY <3>1
           DEF RxP!Path!Next, RxP!Path!Arrive, RxP!Path!Miss, RxP!Path!Consume,
               RxP!Path!Flush, RxP!Path!vars, Rx!Path!Next, Rx!Path!Arrive,
               Rx!Path!Miss, Rx!Path!Consume, Rx!Path!Flush, Rx!Path!vars,
               RxP!Waiting, Rx!Waiting, RxP!Has, Rx!Has, RxP!Idx, Rx!Idx
    <2>2. CASE UNCHANGED <<recv, arrived, delivered, resets>>
      BY <2>2 DEF Rx!Path!vars, Rx!Waiting, Rx!Has
    <2> QED  BY <2>1, <2>2, DriverRxNext
  <1> QED
    BY <1>2, <1>3, DriverRxInvariant, PTL
       DEF DriverSpec, Rx!RxInOrder, Rx!Path!Spec
=============================================================================
