-------------------------- MODULE PCNetLinuxProofs --------------------------
(* Theorems about the Linux driver, for every size of its rings, every bound *)
(* on the handler's work and every number of frames in the self-test.        *)
EXTENDS PCNetLinux, TLAPS

----------------------------------------------------------------------------
(* Types                                                                    *)

\* Positions and counters stay within their rings.
LEMMA RingFacts ==
    /\ 0 \in TxEntries /\ 0 \in RxEntries /\ 0 \in Counts
    /\ \A i \in TxEntries : (i + 1) % TxRing \in TxEntries
    /\ \A i \in RxEntries : (i + 1) % RxRing \in RxEntries
    /\ \A i \in Counts : i % TxRing \in TxEntries
    /\ \A i \in Counts : (i + 1) % (2 * TxRing) \in Counts
    /\ \A i \in Counts : (i + TxRing) % (2 * TxRing) \in Counts
    /\ RxRing \div 2 \in 0..(RxRing \div 2)
    /\ 0 \in 0..(RxRing \div 2)
  BY LinuxAssumption DEF TxEntries, RxEntries, Counts

\* The types of what the rings and the chip are set to.
LEMMA ValueTypes ==
    ASSUME LinuxTypeOK
    PROVE  /\ TxMemory \in [TxEntries -> TxEntry]
           /\ RxMemory \in [RxEntries -> RxEntry]
           /\ PurgeTxRing \in [TxEntries -> TxEntry]
           /\ \A ring \in [TxEntries -> TxEntry] : ClearTx(ring) \in [TxEntries -> TxEntry]
           /\ \A upTo \in 0..RxRing : FillRx(upTo) \in [RxEntries -> RxEntry]
<1>1. TxMemory \in [TxEntries -> TxEntry] /\ RxMemory \in [RxEntries -> RxEntry]
  BY DEF TxMemory, RxMemory, NoTx, NoRx, TxEntry, RxEntry
<1>2. PurgeTxRing \in [TxEntries -> TxEntry]
  BY DEF LinuxTypeOK, PurgeTxRing, TxEntry
<1>3. ASSUME NEW ring \in [TxEntries -> TxEntry]
      PROVE  ClearTx(ring) \in [TxEntries -> TxEntry]
  BY DEF ClearTx, TxEntry
<1>4. ASSUME NEW upTo \in 0..RxRing
      PROVE  FillRx(upTo) \in [RxEntries -> RxEntry]
  BY DEF LinuxTypeOK, FillRx, RxEntry
<1> QED
  BY <1>1, <1>2, <1>3, <1>4

ChipType == [on: BOOLEAN, txon: BOOLEAN, inea: BOOLEAN, bits: SUBSET Causes,
             txd: TxEntries, rxd: RxEntries]

LEMMA ChipTypes ==
    /\ Stopped \in ChipType
    /\ \A inea \in BOOLEAN : Started(inea) \in ChipType
  BY RingFacts DEF Stopped, Started, ChipType

\* pcnet32_restart and the parts of the handler that it shares.
LEMMA RestartType ==
    ASSUME LinuxTypeOK, NEW inea \in BOOLEAN, Restart(inea)
    PROVE  /\ tx' \in [TxEntries -> TxEntry]
           /\ rx' \in [RxEntries -> RxEntry]
           /\ txFull' \in BOOLEAN
           /\ curTx' \in Counts /\ dirtyTx' \in Counts /\ curRx' \in RxEntries
           /\ chip' \in ChipType
  BY ValueTypes, ChipTypes, RingFacts DEF Restart, CountersToZero

LEMMA GoOnType ==
    ASSUME NEW left \in SUBSET Causes, NEW must \in BOOLEAN, GoOn(left, must)
    PROVE  /\ pc' \in {"idle", "loop", "rx", "tx", "miss", "restart"}
           /\ csr0' \subseteq Causes
           /\ bogus' \in 0..(RxRing \div 2)
           /\ mustRestart' \in BOOLEAN
  BY RingFacts DEF GoOn

LEMMA ProbeType ==
    ProbeTypeOK /\ (ProbeNext \/ RemoveOne \/ UNCHANGED probeVars) => ProbeTypeOK'
  BY DEF ProbeTypeOK, ProbeNext, RemoveOne, probeVars, ProbePci, ProbeVlbus,
         ProbeRegion, ProbeChip, ProbeNetdev, ProbeConsistent, ProbeIrq,
         ProbeRegister, Got, Fail, Things, Points, ErrReleaseRegion,
         ErrFreeNetdev, ErrFreeConsistent

LEMMA LinuxTypeInit == LinuxInit => LinuxTypeOK
<1> SUFFICES ASSUME LinuxInit PROVE LinuxTypeOK
  OBVIOUS
<1>1. TxMemory \in [TxEntries -> TxEntry] /\ RxMemory \in [RxEntries -> RxEntry]
  BY DEF TxMemory, RxMemory, NoTx, NoRx, TxEntry, RxEntry
<1>2. ProbeTypeOK
  BY DEF LinuxInit, ProbeInit, ProbeTypeOK, Things, Points
<1>3. work \in 0..MaxWork /\ bogus \in 0..(RxRing \div 2)
  BY RingFacts, LinuxAssumption DEF LinuxInit
<1> QED
  BY <1>1, <1>2, <1>3, RingFacts, ChipTypes DEF LinuxInit, LinuxTypeOK, Lives, ChipType

\* The kernel's calls.
LEMMA CallTypes ==
    ASSUME LinuxTypeOK,
           \/ Appears \/ Disappears \/ Open \/ StopAndRestart
           \/ CloseQueue \/ CloseStop \/ CloseFree \/ SelfTest \/ TestEnd
    PROVE  LinuxTypeOK'
<1> USE DEF LinuxTypeOK, ChipType, Lives
<1>1. ASSUME OpenSucceeds \/ OpenRefused \/ OpenNoBuffers
      PROVE  /\ irq' \in BOOLEAN /\ awake' \in BOOLEAN /\ txFull' \in BOOLEAN
             /\ curTx' \in Counts /\ dirtyTx' \in Counts /\ curRx' \in RxEntries
             /\ tx' \in [TxEntries -> TxEntry] /\ rx' \in [RxEntries -> RxEntry]
             /\ chip' \in ChipType
  <2>1. RxRing \in 0..RxRing
    BY LinuxAssumption
  <2>2. CASE OpenSucceeds
    BY <2>1, <2>2, ValueTypes, ChipTypes, RingFacts DEF OpenSucceeds, CountersToZero
  <2>3. CASE OpenRefused
    BY <2>3 DEF OpenRefused, ringVars
  <2>4. CASE OpenNoBuffers
    BY <2>4, ValueTypes, ChipTypes, RingFacts DEF OpenNoBuffers, CountersToZero
  <2> QED
    BY <1>1, <2>2, <2>3, <2>4
<1>2. CASE Appears
  BY <1>2, ProbeType DEF Appears, ringVars, handlerVars
<1>3. CASE Disappears
  BY <1>3, ProbeType, ValueTypes DEF Disappears, handlerVars
<1>4. CASE Open
  <2>1. OpenSucceeds \/ OpenRefused \/ OpenNoBuffers
    BY <1>4 DEF Open
  <2>2. life' \in Lives /\ UNCHANGED <<probeVars, selfTest, handlerVars>>
    BY <1>4 DEF Open
  <2> QED
    BY <2>1, <2>2, <1>1, ProbeType DEF handlerVars
<1>5. CASE StopAndRestart
  <2>1. Restart(TRUE)
    BY <1>5 DEF StopAndRestart
  <2> QED
    BY <1>5, <2>1, RestartType, ProbeType DEF StopAndRestart, handlerVars
<1>6. CASE CloseQueue \/ SelfTest
  BY <1>6, ProbeType DEF CloseQueue, SelfTest, ringVars, handlerVars
<1>7. CASE CloseStop
  BY <1>7, ProbeType, ChipTypes DEF CloseStop, ringVars, handlerVars
<1>8. CASE CloseFree
  BY <1>8, ProbeType, ValueTypes DEF CloseFree, FreedRings, handlerVars
<1>9. CASE TestEnd
  <2>1. /\ irq' \in BOOLEAN /\ awake' \in BOOLEAN /\ txFull' \in BOOLEAN
        /\ curTx' \in Counts /\ dirtyTx' \in Counts /\ curRx' \in RxEntries
        /\ tx' \in [TxEntries -> TxEntry] /\ rx' \in [RxEntries -> RxEntry]
        /\ chip' \in ChipType
    BY <1>9, <1>1 DEF TestEnd, ringVars
  <2>2. life' \in Lives /\ selfTest' = "no" /\ UNCHANGED <<probeVars, handlerVars>>
    BY <1>9 DEF TestEnd
  <2> QED
    BY <2>1, <2>2, ProbeType DEF handlerVars
<1> QED
  BY <1>2, <1>3, <1>4, <1>5, <1>6, <1>7, <1>8, <1>9

\* Packets, the frames of the self-test, and the chip.
LEMMA TrafficTypes ==
    ASSUME LinuxTypeOK, StartXmit \/ TestFrames \/ ChipSends \/ ChipReceives
    PROVE  LinuxTypeOK'
<1> USE DEF LinuxTypeOK, ChipType, Lives
<1>1. CASE StartXmit
  <2>1. tx' \in [TxEntries -> TxEntry]
    BY <1>1, RingFacts DEF StartXmit, TxEntry
  <2>2. curTx' \in Counts /\ chip' \in ChipType
    BY <1>1, RingFacts DEF StartXmit
  <2>3. txFull' \in BOOLEAN /\ awake' \in BOOLEAN
    BY <1>1 DEF StartXmit, RingFull
  <2> QED
    BY <1>1, <2>1, <2>2, <2>3, ProbeType DEF StartXmit, handlerVars
<1>2. CASE TestFrames
  <2>1. tx' \in [TxEntries -> TxEntry]
    <3>1. PurgeTxRing \in [TxEntries -> TxEntry]
      BY ValueTypes
    <3>2. PICK sent \in 0..NumBuffs, looped \in 0..NumBuffs :
            tx' = [i \in TxEntries |->
                    IF i < sent
                    THEN [own |-> i >= looped, base |-> TRUE, skb |-> "test", uflo |-> FALSE]
                    ELSE PurgeTxRing[i]]
      BY <1>2 DEF TestFrames
    <3> QED
      BY <3>1, <3>2 DEF TxEntry
  <2>2. rx' \in [RxEntries -> RxEntry]
    <3>1. PICK upTo \in 0..RxRing, looped \in 0..NumBuffs :
            rx' = [i \in RxEntries |->
                    [FillRx(upTo)[i] EXCEPT !.own = @ /\ i >= looped]]
      BY <1>2 DEF TestFrames
    <3>2. FillRx(upTo) \in [RxEntries -> RxEntry]
      BY ValueTypes
    <3> QED
      BY <3>1, <3>2 DEF RxEntry
  <2>3. chip' \in ChipType
    BY <1>2, ChipTypes DEF TestFrames
  <2> QED
    BY <1>2, <2>1, <2>2, <2>3, ProbeType, RingFacts
    DEF TestFrames, CountersToZero, handlerVars
<1>3. CASE ChipSends
  <2>1. PICK uflo \in BOOLEAN :
          /\ tx' = [tx EXCEPT ![chip.txd] = [@ EXCEPT !.own = FALSE, !.uflo = uflo]]
          /\ chip' = Raise([chip EXCEPT !.txd = (@ + 1) % TxRing, !.txon = ~uflo], "TINT")
    BY <1>3 DEF ChipSends
  <2>2. tx' \in [TxEntries -> TxEntry]
    BY <2>1 DEF TxEntry
  <2>3. chip' \in ChipType
    BY <2>1, RingFacts DEF Raise, Causes
  <2> QED
    BY <1>3, <2>2, <2>3, ProbeType DEF ChipSends, ChipOnly, handlerVars
<1>4. CASE ChipReceives
  <2>1. rx' \in [RxEntries -> RxEntry]
    BY <1>4 DEF ChipReceives, RxEntry
  <2>2. chip' \in ChipType
    <3>1. CASE rx[chip.rxd].own
      <4>1. (chip.rxd + 1) % RxRing \in RxEntries
        BY RingFacts
      <4>2. chip' = [chip EXCEPT !.rxd = (chip.rxd + 1) % RxRing,
                                 !.bits = chip.bits \cup {"RINT"}]
        BY <1>4, <3>1 DEF ChipReceives, Raise
      <4> QED
        BY <4>1, <4>2 DEF Causes
    <3>2. CASE ~rx[chip.rxd].own
      BY <1>4, <3>2 DEF ChipReceives, Raise, Causes
    <3> QED
      BY <3>1, <3>2
  <2> QED
    BY <1>4, <2>1, <2>2, ProbeType DEF ChipReceives, ChipOnly, handlerVars
<1> QED
  BY <1>1, <1>2, <1>3, <1>4

\* The interrupt handler.
LEMMA HandlerTypes ==
    ASSUME LinuxTypeOK, IrqEnter \/ HandlerStep
    PROVE  LinuxTypeOK'
<1> USE DEF LinuxTypeOK, ChipType, Lives
<1>1. ASSUME NEW left \in 0..MaxWork, IrqRead(left)
      PROVE  LinuxTypeOK'
  <2>1. GoOn(chip.bits, FALSE)
    BY <1>1 DEF IrqRead
  <2>2. chip' \in ChipType
    BY <1>1 DEF IrqRead, Causes
  <2> QED
    BY <1>1, <2>1, <2>2, GoOnType, ProbeType DEF IrqRead, ringVars
<1>2. CASE IrqEnter
  BY <1>1, <1>2, LinuxAssumption DEF IrqEnter
<1>3. CASE IrqLoop
  BY <1>1, <1>3, LinuxAssumption DEF IrqLoop
<1>4. CASE IrqReturn
  BY <1>4, ProbeType, LinuxAssumption DEF IrqReturn, InterruptsOn, ringVars
<1>5. ASSUME RxDone
      PROVE  /\ pc' \in {"idle", "loop", "rx", "tx", "miss", "restart"}
             /\ csr0' \subseteq Causes
             /\ bogus' \in 0..(RxRing \div 2)
             /\ mustRestart' \in BOOLEAN
  <2>1. csr0 \ {IF pc = "rx" THEN "RINT" ELSE "MISS"} \in SUBSET Causes
    OBVIOUS
  <2> QED
    BY <1>5, <2>1, GoOnType DEF RxDone
<1>6. ASSUME GiveBack
      PROVE  rx' \in [RxEntries -> RxEntry] /\ curRx' \in RxEntries
  BY <1>6, RingFacts DEF GiveBack, RxEntry
<1>7. CASE RxFrame
  <2>1. /\ pc' \in {"idle", "loop", "rx", "tx", "miss", "restart"}
        /\ csr0' \subseteq Causes
        /\ bogus' \in 0..(RxRing \div 2)
        /\ mustRestart' \in BOOLEAN
    BY <1>5, <1>7, LinuxAssumption DEF RxFrame
  <2> QED
    BY <1>6, <1>7, <2>1, ProbeType DEF RxFrame, RxUnchanged
<1>8. CASE RxSqueeze
  BY <1>5, <1>6, <1>8, ProbeType DEF RxSqueeze, RxUnchanged
<1>9. CASE RxEmpty
  BY <1>5, <1>9, ProbeType DEF RxEmpty, RxUnchanged
<1>10. CASE TxReap
  <2>1. tx' \in [TxEntries -> TxEntry]
    BY <1>10 DEF TxReap, TxEntry
  <2>2. dirtyTx' \in Counts /\ mustRestart' \in BOOLEAN
    BY <1>10, RingFacts DEF TxReap, TxEntry
  <2> QED
    BY <1>10, <2>1, <2>2, ProbeType DEF TxReap
<1>11. CASE TxReaped
  <2>1. GoOn(csr0 \ {"TINT"}, mustRestart) /\ csr0 \ {"TINT"} \in SUBSET Causes
    BY <1>11 DEF TxReaped
  <2>2. dirtyTx' \in Counts /\ txFull' \in BOOLEAN /\ awake' \in BOOLEAN
    BY <1>11, RingFacts DEF TxReaped
  <2> QED
    BY <1>11, <2>1, <2>2, GoOnType, ProbeType DEF TxReaped
<1>12. CASE UnderflowRestart
  <2>1. Restart(FALSE) /\ GoOn(csr0, FALSE)
    BY <1>12 DEF UnderflowRestart
  <2> QED
    BY <1>12, <2>1, RestartType, GoOnType, ProbeType DEF UnderflowRestart
<1> QED
  BY <1>2, <1>3, <1>4, <1>7, <1>8, <1>9, <1>10, <1>11, <1>12 DEF HandlerStep

\* Every variable of the driver, its rings and the chip keeps its type.
THEOREM LinuxTypeCorrect == LinuxSpec => []LinuxTypeOK
<1>1. LinuxTypeOK /\ [LinuxNext]_linuxVars => LinuxTypeOK'
  <2> SUFFICES ASSUME LinuxTypeOK, [LinuxNext]_linuxVars
               PROVE  LinuxTypeOK'
    OBVIOUS
  <2>1. CASE LinuxNext
    BY <2>1, CallTypes, TrafficTypes, HandlerTypes
    DEF LinuxNext, TxTimeout, SetMulticastList
  <2>2. CASE UNCHANGED linuxVars
    BY <2>2 DEF LinuxTypeOK, ProbeTypeOK, linuxVars, probeVars, ringVars, handlerVars
  <2> QED
    BY <2>1, <2>2
<1> QED
  BY <1>1, LinuxTypeInit, PTL DEF LinuxSpec

----------------------------------------------------------------------------
(* What is held, and when                                                   *)

\* What the driver holds for the card when a probe has come to a point.
HeldAt(point) ==
    CASE point \in {"idle", "region"} -> {}
      [] point \in {"chip", "netdev"} -> {"region"}
      [] point = "consistent" -> {"region", "netdev"}
      [] point \in {"irq", "register"} -> {"region", "netdev", "consistent"}

ProbeHolds ==
    bus \ {"enabled"} =
        IF life = "absent" THEN HeldAt(probe) ELSE Things \ {"enabled"}

\* The line, the chip and the handler belong to an interface that is up or
\* on its way down, and no probe runs beside one.
LineAndChip ==
    /\ life # "absent" => probe = "idle"
    /\ irq => life \in {"up", "closing", "halted"}
    /\ chip.on => life \in {"up", "closing"}
    /\ chip.inea => chip.on
    /\ pc # "idle" => irq /\ life \in {"up", "closing"}

NoPacketLeft ==
    life \in {"absent", "down", "testing", "tested"} =>
        \A i \in TxEntries : tx[i].skb # "packet"

LinuxInv ==
    LinuxTypeOK /\ ProbeHolds /\ LineAndChip /\ NoPacketLeft /\ UpHasBuffers

LEMMA LinuxInvInit == LinuxInit => LinuxInv
  BY LinuxTypeInit
  DEF LinuxInit, LinuxInv, ProbeInit, ProbeHolds, HeldAt, LineAndChip,
      NoPacketLeft, UpHasBuffers, Stopped, TxMemory, NoTx

\* A restart with all buffers in place finds nothing missing.
LEMMA RestartSucceeds ==
    ASSUME NEW inea \in BOOLEAN, Restart(inea), \A i \in RxEntries : rx[i].skb
    PROVE  chip' = Started(inea) /\ \A i \in RxEntries : rx'[i].skb
<1>1. PICK upTo \in 0..RxRing :
        /\ BuffersFor(upTo)
        /\ rx' = FillRx(upTo)
        /\ chip' = IF upTo = RxRing THEN Started(inea) ELSE Stopped
  BY DEF Restart
<1>2. upTo = RxRing
  BY <1>1, LinuxAssumption DEF BuffersFor, RxEntries
<1> QED
  BY <1>1, <1>2, LinuxAssumption DEF FillRx, RxEntries

\* The bus side changes only while there is no interface.
LEMMA ProbeHoldsNext ==
    ASSUME LinuxInv, LinuxNext
    PROVE  ProbeHolds' /\ (life' # "absent" => probe' = "idle")
<1> USE DEF LinuxInv, LinuxTypeOK, ProbeTypeOK, ProbeHolds, LineAndChip, HeldAt, Things
<1>1. CASE Appears
  <2>1. CASE ProbePci \/ ProbeVlbus \/ ProbeRegion \/ ProbeChip \/ ProbeNetdev
    BY <1>1, <2>1 DEF Appears, ProbePci, ProbeVlbus, ProbeRegion, ProbeChip,
                      ProbeNetdev, Got, Fail, ErrReleaseRegion, probeVars
  <2>2. CASE ProbeConsistent \/ ProbeIrq
    BY <1>1, <2>2 DEF Appears, ProbeConsistent, ProbeIrq, Got, Fail,
                      ErrReleaseRegion, ErrFreeNetdev, ErrFreeConsistent
  <2>3. CASE ProbeRegister
    BY <1>1, <2>3 DEF Appears, ProbeRegister, Got, Fail,
                      ErrReleaseRegion, ErrFreeNetdev, ErrFreeConsistent
  <2> QED
    BY <1>1, <2>1, <2>2, <2>3 DEF Appears, ProbeNext
<1>2. CASE Disappears
  BY <1>2 DEF Disappears, RemoveOne
<1>3. ASSUME UNCHANGED probeVars, life # "absent", life' # "absent"
      PROVE  ProbeHolds' /\ (life' # "absent" => probe' = "idle")
  BY <1>3 DEF probeVars
<1>4. ASSUME UNCHANGED probeVars, life' = life
      PROVE  ProbeHolds' /\ (life' # "absent" => probe' = "idle")
  BY <1>4 DEF probeVars
<1>5. CASE \/ Open \/ CloseQueue \/ CloseStop \/ CloseFree \/ SelfTest
           \/ TestFrames \/ TestEnd
  BY <1>3, <1>5 DEF Open, CloseQueue, CloseStop, CloseFree, SelfTest, TestFrames,
                    TestEnd
<1>6. CASE \/ StartXmit \/ TxTimeout \/ SetMulticastList \/ ChipSends
           \/ ChipReceives
  BY <1>4, <1>6 DEF StartXmit, TxTimeout, SetMulticastList, StopAndRestart,
                    ChipSends, ChipReceives, ChipOnly
<1>7. CASE IrqEnter \/ HandlerStep
  BY <1>4, <1>7 DEF IrqEnter, IrqRead, HandlerStep, IrqLoop, IrqReturn, RxFrame,
                    RxSqueeze, RxEmpty, RxUnchanged, TxReap, TxReaped,
                    UnderflowRestart
<1> QED
  BY <1>1, <1>2, <1>5, <1>6, <1>7 DEF LinuxNext

HeldParts == LineAndChip /\ NoPacketLeft /\ UpHasBuffers

\* The kernel's calls.
LEMMA CallsHold ==
    ASSUME LinuxInv, life' # "absent" => probe' = "idle",
           \/ Appears \/ Disappears \/ Open \/ StartXmit \/ StopAndRestart
           \/ CloseQueue \/ CloseStop \/ CloseFree \/ SelfTest
           \/ TestFrames \/ TestEnd
    PROVE  HeldParts'
<1> USE DEF LinuxInv, HeldParts, LineAndChip, NoPacketLeft, UpHasBuffers, LockFree
<1>1. CASE Appears
  BY <1>1 DEF Appears, ringVars, handlerVars
<1>2. CASE Disappears
  BY <1>2 DEF Disappears, TxMemory, NoTx, handlerVars
<1>3. ASSUME life' = "up", pc = "idle", UNCHANGED handlerVars,
             OpenSucceeds \/ OpenRefused \/ OpenNoBuffers, ~chip.on
      PROVE  HeldParts'
  <2>1. CASE OpenSucceeds
    BY <1>3, <2>1, LinuxAssumption
    DEF OpenSucceeds, FillRx, RxEntries, Started, handlerVars
  <2>2. CASE OpenRefused \/ OpenNoBuffers
    BY <1>3, <2>2 DEF OpenRefused, OpenNoBuffers, Stopped, ringVars, handlerVars
  <2> QED
    BY <1>3, <2>1, <2>2
<1>4. CASE Open
  <2>1. CASE OpenSucceeds /\ life' = "up"
    BY <1>3, <1>4, <2>1 DEF Open
  <2>2. CASE (OpenRefused \/ OpenNoBuffers) /\ UNCHANGED life
    BY <1>4, <2>2 DEF Open, OpenRefused, OpenNoBuffers, Stopped, ringVars, handlerVars
  <2> QED
    BY <1>4, <2>1, <2>2 DEF Open
<1>5. CASE StartXmit
  BY <1>5 DEF StartXmit, LinuxTypeOK, handlerVars
<1>6. CASE StopAndRestart
  <2>1. Restart(TRUE) /\ life = "up" /\ UNCHANGED <<life, irq, handlerVars>>
    BY <1>6 DEF StopAndRestart
  <2>2. chip'.inea => chip'.on
    BY <2>1 DEF Restart, Started, Stopped
  <2>3. irq => \A i \in RxEntries : rx'[i].skb
    BY <2>1, RestartSucceeds
  <2> QED
    BY <2>1, <2>2, <2>3 DEF handlerVars
<1>7. CASE CloseQueue
  BY <1>7 DEF CloseQueue, ringVars, handlerVars
<1>8. CASE CloseStop
  BY <1>8 DEF CloseStop, Stopped, ringVars, handlerVars
<1>9. CASE CloseFree
  BY <1>9 DEF CloseFree, FreedRings, PurgeTxRing, LinuxTypeOK, TxEntry, handlerVars
<1>10. CASE SelfTest
  BY <1>10 DEF SelfTest, ringVars, handlerVars
<1>11. CASE TestFrames
  <2>1. \A i \in TxEntries : tx'[i].skb # "packet"
    <3>1. PICK sent \in 0..NumBuffs, looped \in 0..NumBuffs :
            tx' = [i \in TxEntries |->
                    IF i < sent
                    THEN [own |-> i >= looped, base |-> TRUE, skb |-> "test", uflo |-> FALSE]
                    ELSE PurgeTxRing[i]]
      BY <1>11 DEF TestFrames
    <3> QED
      BY <3>1 DEF PurgeTxRing, LinuxTypeOK, TxEntry
  <2> QED
    BY <1>11, <2>1 DEF TestFrames, Stopped, handlerVars
<1>12. CASE TestEnd
  <2>1. CASE selfTest = "up"
    BY <1>3, <1>12, <2>1 DEF TestEnd
  <2>2. CASE selfTest = "down"
    BY <1>12, <2>2 DEF TestEnd, ringVars, handlerVars
  <2> QED
    BY <1>12, <2>1, <2>2 DEF TestEnd
<1> QED
  BY <1>1, <1>2, <1>4, <1>5, <1>6, <1>7, <1>8, <1>9, <1>10, <1>11, <1>12

\* The chip's own steps, and the handler's, which run only on an interface
\* that is up or closing.
LEMMA ChipHolds ==
    ASSUME LinuxInv, ChipSends \/ ChipReceives
    PROVE  HeldParts'
<1> USE DEF LinuxInv, HeldParts, LineAndChip, NoPacketLeft, UpHasBuffers
<1>1. UNCHANGED <<probe, life, irq, handlerVars>>
  BY DEF ChipSends, ChipReceives, ChipOnly, probeVars
<1>2. CASE ChipSends
  <2>1. chip'.on = chip.on /\ chip'.inea = chip.inea
    BY <1>2 DEF ChipSends, Raise, LinuxTypeOK
  <2> QED
    BY <1>1, <1>2, <2>1 DEF ChipSends, handlerVars
<1>3. CASE ChipReceives
  <2>1. chip'.on = chip.on /\ chip'.inea = chip.inea
    BY <1>3 DEF ChipReceives, Raise, LinuxTypeOK
  <2>2. \A i \in RxEntries : rx'[i].skb = rx[i].skb
    BY <1>3 DEF ChipReceives, LinuxTypeOK, RxEntry
  <2> QED
    BY <1>1, <1>3, <2>1, <2>2 DEF ChipReceives, handlerVars
<1> QED
  BY <1>2, <1>3

LEMMA HandlerHolds ==
    ASSUME LinuxInv, IrqEnter \/ HandlerStep
    PROVE  HeldParts'
<1> USE DEF LinuxInv, HeldParts, LineAndChip, NoPacketLeft, UpHasBuffers
<1>1. /\ UNCHANGED <<probe, life, irq>>
      /\ irq /\ life \in {"up", "closing"} /\ life # "absent"
  <2>1. CASE IrqEnter
    BY <2>1 DEF IrqEnter, IrqRead, probeVars
  <2>2. CASE HandlerStep
    <3>1. pc # "idle"
      BY <2>2 DEF HandlerStep, IrqLoop, IrqReturn, RxFrame, RxSqueeze, RxEmpty,
                  InRx, TxReap, TxReaped, Reaped, UnderflowRestart
    <3>2. UNCHANGED <<probe, life, irq>>
      BY <2>2 DEF HandlerStep, IrqLoop, IrqRead, IrqReturn, RxFrame, RxSqueeze,
                  RxEmpty, RxUnchanged, TxReap, TxReaped, UnderflowRestart, probeVars
    <3> QED
      BY <3>1, <3>2
  <2> QED
    BY <2>1, <2>2
<1>2. SUFFICES /\ chip'.inea => chip'.on
               /\ \A i \in RxEntries : rx'[i].skb
  BY <1>1
<1>3. CASE IrqEnter \/ IrqLoop \/ IrqReturn
  <2>1. chip'.inea => chip'.on
    BY <1>3 DEF IrqEnter, IrqLoop, IrqRead, IrqReturn, InterruptsOn, LinuxTypeOK
  <2> QED
    BY <1>1, <1>3, <2>1 DEF IrqEnter, IrqLoop, IrqRead, IrqReturn, ringVars
<1>4. CASE RxFrame \/ RxSqueeze \/ RxEmpty
  <2>1. UNCHANGED chip
    BY <1>4 DEF RxFrame, RxSqueeze, RxEmpty, RxUnchanged
  <2>2. GiveBack \/ UNCHANGED rx
    BY <1>4 DEF RxFrame, RxSqueeze, RxEmpty
  <2>3. \A i \in RxEntries : rx'[i].skb = rx[i].skb
    BY <2>2 DEF GiveBack, LinuxTypeOK, RxEntry
  <2> QED
    BY <1>1, <2>1, <2>3
<1>5. CASE TxReap \/ TxReaped
  BY <1>1, <1>5 DEF TxReap, TxReaped
<1>6. CASE UnderflowRestart
  <2>1. Restart(FALSE) /\ \A i \in RxEntries : rx[i].skb
    BY <1>1, <1>6 DEF UnderflowRestart
  <2>2. chip' = Started(FALSE) /\ \A i \in RxEntries : rx'[i].skb
    BY <2>1, RestartSucceeds
  <2> QED
    BY <2>2 DEF Started
<1> QED
  BY <1>3, <1>4, <1>5, <1>6 DEF HandlerStep

LEMMA LinuxInvNext == LinuxInv /\ [LinuxNext]_linuxVars => LinuxInv'
<1> SUFFICES ASSUME LinuxInv, [LinuxNext]_linuxVars
             PROVE  LinuxInv'
  OBVIOUS
<1>1. CASE LinuxNext
  <2>1. LinuxTypeOK'
    BY <1>1, CallTypes, TrafficTypes, HandlerTypes
    DEF LinuxInv, LinuxNext, TxTimeout, SetMulticastList
  <2>2. HeldParts'
    BY <1>1, ProbeHoldsNext, CallsHold, ChipHolds, HandlerHolds
    DEF LinuxNext, TxTimeout, SetMulticastList
  <2> QED
    BY <1>1, <2>1, <2>2, ProbeHoldsNext DEF LinuxInv, HeldParts
<1>2. CASE UNCHANGED linuxVars
  BY <1>2 DEF LinuxInv, LinuxTypeOK, ProbeTypeOK, ProbeHolds, LineAndChip,
              NoPacketLeft, UpHasBuffers, linuxVars, probeVars, ringVars,
              handlerVars
<1> QED
  BY <1>1, <1>2

THEOREM LinuxInvariant == LinuxSpec => []LinuxInv
  BY LinuxInvInit, LinuxInvNext, PTL DEF LinuxSpec

\* A restart of a running interface never fails for want of a buffer: that
\* tx_timeout and set_multicast_list do not look at its outcome is harmless.
THEOREM BuffersStay == LinuxSpec => []UpHasBuffers
<1>1. LinuxInv => UpHasBuffers
  BY DEF LinuxInv
<1> QED
  BY <1>1, LinuxInvariant, PTL

\* Failed probes and removals release everything but the enabled device, and
\* nothing is used that is not held.
THEOREM ReleasesAll == LinuxSpec => []Released
<1>1. LinuxInv => Released
  BY DEF LinuxInv, ProbeHolds, HeldAt, Things, LineAndChip, NoPacketLeft, Released
<1> QED
  BY <1>1, LinuxInvariant, PTL

----------------------------------------------------------------------------
(* The strengthening of TxInStep, AwakeMeansRoom, LinuxRxInStep, NeverWedged *)
(* and QueueWaits that a step preserves.                                     *)

\* A chip with a handler runs, and has its interrupts on unless the handler
\* is at work.
ChipRuns ==
    /\ irq /\ life \in {"up", "closing"} => chip.on
    /\ chip.on /\ LockFree => chip.inea

\* Where the handler is follows from the causes it has still to look at.
HandlerCauses ==
    /\ pc \in {"idle", "loop", "restart"} => csr0 = {}
    /\ pc = "rx" => "RINT" \in csr0
    /\ pc = "tx" => "TINT" \in csr0 /\ "RINT" \notin csr0
    /\ pc = "miss" => csr0 = {"MISS"}
    /\ pc = "restart" => mustRestart

\* A packet is in an entry that has an address, which is what start_xmit
\* tests.
PacketsHaveBase == \A i \in TxEntries : tx[i].skb = "packet" => tx[i].base

\* An interrupt for sent packets is pending or its handling has begun.
TintPending == "TINT" \in chip.bits \/ ("TINT" \in csr0 /\ pc \in {"rx", "tx"})

\* A transmitter that an underflow has turned off will be restarted: the
\* entry that says so has still to be looked at, or has been.
OffIsSeen ==
    chip.on /\ ~chip.txon =>
        \/ mustRestart /\ pc \in {"tx", "miss", "restart"}
        \/ /\ TintPending
           /\ \E i \in TxEntries :
                  /\ tx[i].uflo /\ ~tx[i].own
                  /\ Place(i, dirtyTx, TxRing) < Delta

\* A stopped queue waits for the chip or for the handler.
StoppedWaits ==
    life = "up" /\ irq /\ ~awake =>
        /\ txFull
        /\ TintPending \/ \E i \in TxEntries : tx[i].own

\* With no entry of the receive ring the chip has asked for service.
SqueezeSeen ==
    chip.on => \/ \E i \in RxEntries : rx[i].own
               \/ "RINT" \in chip.bits
               \/ pc = "rx"

TrafficInv ==
    /\ ChipRuns /\ HandlerCauses
    /\ TxInStep /\ PacketsHaveBase /\ AwakeMeansRoom
    /\ OffIsSeen /\ StoppedWaits
    /\ LinuxRxInStep /\ SqueezeSeen

\* Positions in a ring of n without the remainder: k places on from f, and
\* how many places i is from f.
Forth(f, k, n) == IF f + k < n THEN f + k ELSE f + k - n
Dist(i, f, n) == IF f <= i THEN i - f ELSE i - f + n

\* Counts run modulo twice the size of the ring.
LEMMA ModFacts ==
    ASSUME NEW n \in Nat \ {0}, NEW from \in 0..(2 * n - 1)
    PROVE  from % n \in 0..(n - 1) /\ from % n = IF from < n THEN from ELSE from - n
<1>1. from < n => from % n = from
  OBVIOUS
<1>2. n <= from => from % n = from - n
  OBVIOUS
<1> QED
  BY <1>1, <1>2

\* Place in terms of the position the count `from' stands for.
LEMMA PlaceIs ==
    ASSUME NEW n \in Nat \ {0}, NEW from \in 0..(2 * n - 1), NEW i \in 0..(n - 1)
    PROVE  Place(i, from, n) = Dist(i, from % n, n)
<1>1. CASE from < n
  <2>1. from % n = from
    BY <1>1
  <2>2. i - from \in Int
    OBVIOUS
  <2>3. (i - from) % n = IF from <= i THEN i - from ELSE i - from + n
    BY <1>1, <2>2
  <2> QED
    BY <2>1, <2>3 DEF Place, Dist
<1>2. CASE n <= from
  <2>1. from % n = from - n
    BY <1>2
  <2>2. i - from \in Int
    OBVIOUS
  <2>3. (i - from) % n = IF from - n <= i THEN i - (from - n) ELSE i - (from - n) + n
    BY <1>2, <2>2
  <2> QED
    BY <2>1, <2>3 DEF Place, Dist
<1> QED
  BY <1>1, <1>2

\* The same for the entry k places on.
LEMMA EntryIs ==
    ASSUME NEW n \in Nat \ {0}, NEW from \in 0..(2 * n - 1), NEW k \in 0..n
    PROVE  (from + k) % n = Forth(from % n, k, n)
<1>1. from + k \in Int
  OBVIOUS
<1>2. CASE from < n
  <2>1. from % n = from
    BY <1>2
  <2>2. (from + k) % n = IF from + k < n THEN from + k ELSE from + k - n
    BY <1>1, <1>2
  <2> QED
    BY <2>1, <2>2 DEF Forth
<1>3. CASE n <= from
  <2>1. from % n = from - n
    BY <1>3
  <2>2. (from + k) % n = IF (from - n) + k < n THEN (from - n) + k ELSE (from - n) + k - n
    BY <1>1, <1>3
  <2> QED
    BY <2>1, <2>2 DEF Forth
<1> QED
  BY <1>2, <1>3

\* Positions and distances correspond.
LEMMA DistFacts ==
    ASSUME NEW n \in Nat \ {0}, NEW f \in 0..(n - 1)
    PROVE  /\ \A i \in 0..(n - 1) : Dist(i, f, n) \in 0..(n - 1)
           /\ \A k \in 0..(n - 1) : /\ Forth(f, k, n) \in 0..(n - 1)
                                    /\ Dist(Forth(f, k, n), f, n) = k
           /\ \A i, j \in 0..(n - 1) : Dist(i, f, n) = Dist(j, f, n) => i = j
           /\ Dist(f, f, n) = 0
           /\ Forth(f, 0, n) = f /\ Forth(f, n, n) = f
           /\ \A i \in 0..(n - 1) :
                  Dist(i, Forth(f, 1, n), n) = IF i = f THEN n - 1
                                               ELSE Dist(i, f, n) - 1
           /\ \A k \in 1..n :
                  Forth(Forth(f, 1, n), k - 1, n) = Forth(f, k, n)
  BY DEF Dist, Forth

\* Entries and places correspond.
LEMMA PlaceFacts ==
    ASSUME NEW n \in Nat \ {0}, NEW from \in 0..(2 * n - 1)
    PROVE  /\ \A i \in 0..(n - 1) : Place(i, from, n) \in 0..(n - 1)
           /\ \A k \in 0..(n - 1) : /\ (from + k) % n \in 0..(n - 1)
                                    /\ Place((from + k) % n, from, n) = k
           /\ \A i, j \in 0..(n - 1) : Place(i, from, n) = Place(j, from, n) => i = j
           /\ from % n \in 0..(n - 1)
           /\ Place(from % n, from, n) = 0
<1>1. PICK f \in 0..(n - 1) : f = from % n
  BY ModFacts
<1>2. \A i \in 0..(n - 1) : Place(i, from, n) = Dist(i, f, n)
  BY <1>1, PlaceIs, Zenon
<1>3. \A k \in 0..n : (from + k) % n = Forth(f, k, n)
  BY <1>1, EntryIs, Zenon
<1>4. \A k \in 0..(n - 1) : k \in 0..n
  OBVIOUS
<1>5. \A i \in 0..(n - 1) : Place(i, from, n) \in 0..(n - 1)
  BY <1>2, DistFacts
<1>6. ASSUME NEW k \in 0..(n - 1)
      PROVE  /\ (from + k) % n \in 0..(n - 1)
             /\ Place((from + k) % n, from, n) = k
  <2>1. Forth(f, k, n) \in 0..(n - 1) /\ Dist(Forth(f, k, n), f, n) = k
    BY DistFacts
  <2>2. (from + k) % n = Forth(f, k, n)
    BY <1>3, <1>4, Zenon
  <2> QED
    BY <1>2, <2>1, <2>2, Zenon
<1>7. \A i, j \in 0..(n - 1) : Place(i, from, n) = Place(j, from, n) => i = j
  BY <1>2, DistFacts
<1>8. Place(f, from, n) = 0
  BY <1>2, DistFacts, Zenon
<1> QED
  BY <1>1, <1>5, <1>6, <1>7, <1>8, Zenon

\* What changes when the count goes on by one.
LEMMA PlaceNext ==
    ASSUME NEW n \in Nat \ {0}, NEW from \in 0..(2 * n - 1),
           NEW next \in 0..(2 * n - 1), next % n = (from + 1) % n
    PROVE  /\ \A i \in 0..(n - 1) :
                  Place(i, next, n) = IF i = from % n THEN n - 1
                                      ELSE Place(i, from, n) - 1
           /\ \A k \in 1..n : (next + (k - 1)) % n = (from + k) % n
<1>1. PICK f \in 0..(n - 1) : f = from % n
  BY ModFacts
<1>2. 1 \in 0..n /\ (\A k \in 1..n : k \in 0..n /\ k - 1 \in 0..n)
  OBVIOUS
<1>3. next % n = Forth(f, 1, n)
  BY <1>1, <1>2, EntryIs, Zenon
<1>4. \A i \in 0..(n - 1) : /\ Place(i, from, n) = Dist(i, f, n)
                            /\ Place(i, next, n) = Dist(i, Forth(f, 1, n), n)
  BY <1>1, <1>3, PlaceIs, Zenon
<1>5. \A k \in 1..n : /\ (from + k) % n = Forth(f, k, n)
                      /\ (next + (k - 1)) % n = Forth(Forth(f, 1, n), k - 1, n)
  BY <1>1, <1>2, <1>3, EntryIs, Zenon
<1>6. ASSUME NEW i \in 0..(n - 1)
      PROVE  Place(i, next, n) = IF i = f THEN n - 1 ELSE Place(i, from, n) - 1
  <2>1. Dist(i, Forth(f, 1, n), n) = IF i = f THEN n - 1 ELSE Dist(i, f, n) - 1
    BY DistFacts
  <2> QED
    BY <1>4, <2>1, Zenon
<1>7. ASSUME NEW k \in 1..n
      PROVE  (next + (k - 1)) % n = (from + k) % n
  <2>1. Forth(Forth(f, 1, n), k - 1, n) = Forth(f, k, n)
    BY DistFacts, Zenon
  <2> QED
    BY <1>5, <2>1, Zenon
<1> QED
  BY <1>1, <1>6, <1>7, Zenon

\* The number of entries from dirty_tx to cur_tx, and what changes when one of
\* the two goes on by one.
LEMMA DeltaFacts ==
    ASSUME NEW n \in Nat \ {0}, NEW c \in 0..(2 * n - 1), NEW d \in 0..(2 * n - 1)
    PROVE  /\ (c - d) % (2 * n) \in 0..(2 * n - 1)
           /\ (c - d) % (2 * n) = IF d <= c THEN c - d ELSE c - d + 2 * n
<1>1. 2 * n \in Nat \ {0} /\ c - d \in Int
  OBVIOUS
<1>2. d <= c => (c - d) % (2 * n) = c - d
  OBVIOUS
<1>3. c < d => (c - d) % (2 * n) = c - d + 2 * n
  OBVIOUS
<1> QED
  BY <1>2, <1>3

LEMMA CountNext ==
    ASSUME NEW n \in Nat \ {0}, NEW c \in 0..(2 * n - 1)
    PROVE  /\ (c + 1) % (2 * n) = IF c + 1 < 2 * n THEN c + 1 ELSE 0
           /\ ((c + 1) % (2 * n)) % n = (c + 1) % n
<1>1. c + 1 < 2 * n => (c + 1) % (2 * n) = c + 1
  OBVIOUS
<1>2. 2 * n <= c + 1 => (c + 1) % (2 * n) = 0
  OBVIOUS
<1>3. (2 * n) % n = 0 /\ 0 % n = 0
  OBVIOUS
<1>4. CASE c + 1 < 2 * n
  BY <1>1, <1>4
<1>5. CASE ~(c + 1 < 2 * n)
  <2>1. c + 1 = 2 * n
    BY <1>5
  <2> QED
    BY <1>2, <1>3, <2>1
<1> QED
  BY <1>4, <1>5

LEMMA DeltaNext ==
    ASSUME NEW n \in Nat \ {0}, NEW c \in 0..(2 * n - 1), NEW d \in 0..(2 * n - 1)
    PROVE  LET delta == (c - d) % (2 * n)
               next(m) == (m + 1) % (2 * n)
           IN  /\ delta = 0 <=> c = d
               /\ delta < n => (next(c) - d) % (2 * n) = delta + 1
               /\ delta > 0 => (c - next(d)) % (2 * n) = delta - 1
               /\ delta < n => c % n = (d + delta) % n
<1>1. PICK b \in 0..(2 * n - 1) : b = (c - d) % (2 * n)
  BY DeltaFacts
<1>2. b = IF d <= c THEN c - d ELSE c - d + 2 * n
  BY <1>1, DeltaFacts
<1>3. PICK c2 \in 0..(2 * n - 1), d2 \in 0..(2 * n - 1) :
          /\ c2 = (c + 1) % (2 * n) /\ c2 = IF c + 1 < 2 * n THEN c + 1 ELSE 0
          /\ d2 = (d + 1) % (2 * n) /\ d2 = IF d + 1 < 2 * n THEN d + 1 ELSE 0
  BY CountNext
<1>4. /\ (c2 - d) % (2 * n) = IF d <= c2 THEN c2 - d ELSE c2 - d + 2 * n
      /\ (c - d2) % (2 * n) = IF d2 <= c THEN c - d2 ELSE c - d2 + 2 * n
  BY DeltaFacts, Zenon
<1>5. b = 0 <=> c = d
  BY <1>2
<1>6. b < n => (c2 - d) % (2 * n) = b + 1
  BY <1>2, <1>3, <1>4
<1>7. b > 0 => (c - d2) % (2 * n) = b - 1
  BY <1>2, <1>3, <1>4
<1>8. ASSUME b < n
      PROVE  c % n = (d + b) % n
  <2>1. d + b = c \/ d + b = c + 2 * n
    BY <1>2
  <2>2. (c + 2 * n) % n = c % n
    OBVIOUS
  <2> QED
    BY <2>1, <2>2
<1> QED
  BY <1>1, <1>3, <1>5, <1>6, <1>7, <1>8, Zenon

----------------------------------------------------------------------------
(* The transmit ring                                                        *)

TxPlace(i, dirty) == Place(i, dirty, TxRing)
TxPos(dirty, k) == (dirty + k) % TxRing
TxDelta(cur, dirty) == (cur - dirty) % (2 * TxRing)
TxNext(count) == (count + 1) % (2 * TxRing)

\* The lemmas above for the counters of the transmit ring.
LEMMA TxFacts ==
    ASSUME NEW cur \in Counts, NEW dirty \in Counts
    PROVE  /\ TxDelta(cur, dirty) \in 0..(2 * TxRing - 1)
           /\ TxDelta(cur, dirty) = 0 <=> cur = dirty
           /\ \A i \in TxEntries : TxPlace(i, dirty) \in 0..(TxRing - 1)
           /\ \A k \in 0..(TxRing - 1) : /\ TxPos(dirty, k) \in TxEntries
                                         /\ TxPlace(TxPos(dirty, k), dirty) = k
           /\ \A i, j \in TxEntries : TxPlace(i, dirty) = TxPlace(j, dirty) => i = j
           /\ dirty % TxRing \in TxEntries /\ TxPlace(dirty % TxRing, dirty) = 0
           /\ cur % TxRing \in TxEntries
           /\ TxDelta(cur, dirty) < TxRing =>
                  TxPlace(cur % TxRing, dirty) = TxDelta(cur, dirty)
<1>1. /\ TxRing \in Nat \ {0} /\ TxEntries = 0..(TxRing - 1)
      /\ cur \in 0..(2 * TxRing - 1) /\ dirty \in 0..(2 * TxRing - 1)
  BY LinuxAssumption DEF TxEntries, Counts
<1>2. PICK delta \in 0..(2 * TxRing - 1) : delta = TxDelta(cur, dirty)
  BY <1>1, DeltaFacts DEF TxDelta
<1>3. /\ delta = 0 <=> cur = dirty
      /\ delta < TxRing => cur % TxRing = TxPos(dirty, delta)
  <2>1. TxDelta(cur, dirty) = 0 <=> cur = dirty
    BY <1>1, DeltaNext, Zenon DEF TxDelta
  <2>2. TxDelta(cur, dirty) < TxRing =>
            cur % TxRing = TxPos(dirty, TxDelta(cur, dirty))
    BY <1>1, DeltaNext, Zenon DEF TxDelta, TxPos
  <2> QED
    BY <1>2, <2>1, <2>2, Zenon
<1>4. /\ \A i \in TxEntries : TxPlace(i, dirty) \in 0..(TxRing - 1)
      /\ \A k \in 0..(TxRing - 1) : /\ TxPos(dirty, k) \in TxEntries
                                    /\ TxPlace(TxPos(dirty, k), dirty) = k
      /\ \A i, j \in TxEntries : TxPlace(i, dirty) = TxPlace(j, dirty) => i = j
      /\ dirty % TxRing \in TxEntries /\ TxPlace(dirty % TxRing, dirty) = 0
  <2>1. \A i \in TxEntries : TxPlace(i, dirty) \in 0..(TxRing - 1)
    BY <1>1, PlaceFacts, Zenon DEF TxPlace, TxEntries
  <2>2. ASSUME NEW k \in 0..(TxRing - 1)
        PROVE  TxPos(dirty, k) \in TxEntries /\ TxPlace(TxPos(dirty, k), dirty) = k
    <3>1. (dirty + k) % TxRing \in 0..(TxRing - 1)
      BY <1>1, PlaceFacts, Zenon
    <3>2. Place((dirty + k) % TxRing, dirty, TxRing) = k
      BY <1>1, PlaceFacts
    <3> QED
      BY <3>1, <3>2, Zenon DEF TxPlace, TxPos, TxEntries
  <2>3. \A i, j \in TxEntries : TxPlace(i, dirty) = TxPlace(j, dirty) => i = j
    BY <1>1, PlaceFacts, Zenon DEF TxPlace, TxEntries
  <2>4. dirty % TxRing \in TxEntries /\ TxPlace(dirty % TxRing, dirty) = 0
    BY <1>1, PlaceFacts, Zenon DEF TxPlace, TxEntries
  <2> QED
    BY <2>1, <2>2, <2>3, <2>4
<1>5. cur % TxRing \in TxEntries
  BY <1>1, PlaceFacts, Zenon
<1>6. delta < TxRing => TxPlace(cur % TxRing, dirty) = delta
  <2>1. delta < TxRing => delta \in 0..(TxRing - 1)
    BY <1>1, <1>2
  <2> QED
    BY <1>3, <1>4, <2>1, Zenon
<1> QED
  BY <1>2, <1>3, <1>4, <1>5, <1>6, Zenon

\* When cur_tx goes on, and when dirty_tx does.
LEMMA TxNextFacts ==
    ASSUME NEW cur \in Counts, NEW dirty \in Counts
    PROVE  /\ TxNext(cur) \in Counts /\ TxNext(dirty) \in Counts
           /\ TxDelta(cur, dirty) < TxRing =>
                  TxDelta(TxNext(cur), dirty) = TxDelta(cur, dirty) + 1
           /\ TxDelta(cur, dirty) > 0 =>
                  TxDelta(cur, TxNext(dirty)) = TxDelta(cur, dirty) - 1
           /\ TxNext(cur) % TxRing = (cur + 1) % TxRing
           /\ \A i \in TxEntries :
                  TxPlace(i, TxNext(dirty)) = IF i = dirty % TxRing THEN TxRing - 1
                                              ELSE TxPlace(i, dirty) - 1
           /\ \A k \in 1..TxRing : TxPos(TxNext(dirty), k - 1) = TxPos(dirty, k)
<1>1. /\ TxRing \in Nat \ {0} /\ TxEntries = 0..(TxRing - 1)
      /\ cur \in 0..(2 * TxRing - 1) /\ dirty \in 0..(2 * TxRing - 1)
  BY LinuxAssumption DEF TxEntries, Counts
<1>2. TxNext(cur) \in Counts /\ TxNext(dirty) \in Counts
  BY RingFacts DEF TxNext
<1>3. /\ TxNext(cur) % TxRing = (cur + 1) % TxRing
      /\ TxNext(dirty) % TxRing = (dirty + 1) % TxRing
  BY <1>1, CountNext, Zenon DEF TxNext
<1>4. /\ TxDelta(cur, dirty) < TxRing =>
             TxDelta(TxNext(cur), dirty) = TxDelta(cur, dirty) + 1
      /\ TxDelta(cur, dirty) > 0 =>
             TxDelta(cur, TxNext(dirty)) = TxDelta(cur, dirty) - 1
  BY <1>1, DeltaNext, Zenon DEF TxDelta, TxNext
<1>5. /\ \A i \in TxEntries :
             TxPlace(i, TxNext(dirty)) = IF i = dirty % TxRing THEN TxRing - 1
                                         ELSE TxPlace(i, dirty) - 1
      /\ \A k \in 1..TxRing : TxPos(TxNext(dirty), k - 1) = TxPos(dirty, k)
  <2>1. TxNext(dirty) \in 0..(2 * TxRing - 1)
    BY <1>2 DEF Counts
  <2> QED
    BY <1>1, <1>3, <2>1, PlaceNext, Zenon DEF TxPlace, TxPos
<1> QED
  BY <1>2, <1>3, <1>4, <1>5

\* The entry after the one at cur_tx.
LEMMA HeadNext ==
    ASSUME NEW cur \in Counts
    PROVE  /\ ((cur % TxRing) + 1) % TxRing = (cur + 1) % TxRing
           /\ ((cur % TxRing) + 1) % TxRing # cur % TxRing
<1>1. cur % TxRing = IF cur < TxRing THEN cur ELSE cur - TxRing
  <2>1. TxRing \in Nat \ {0} /\ cur \in 0..(2 * TxRing - 1)
    BY LinuxAssumption DEF Counts
  <2> QED
    BY <2>1, ModFacts, Zenon
<1>2. CASE cur < TxRing
  <2>1. cur + 1 = TxRing => (cur + 1) % TxRing = 0
    BY LinuxAssumption
  <2>2. cur + 1 < TxRing => (cur + 1) % TxRing = cur + 1
    BY LinuxAssumption DEF Counts
  <2> QED
    BY <1>1, <1>2, <2>1, <2>2, LinuxAssumption DEF Counts
<1>3. CASE TxRing <= cur
  <2>1. PICK c \in 0..(TxRing - 1) : c = cur - TxRing
    BY <1>3, LinuxAssumption DEF Counts
  <2>2. (cur + 1) % TxRing = (c + 1) % TxRing
    BY <2>1, LinuxAssumption DEF Counts
  <2>3. c + 1 = TxRing => (c + 1) % TxRing = 0
    BY LinuxAssumption
  <2>4. c + 1 < TxRing => (c + 1) % TxRing = c + 1
    BY LinuxAssumption
  <2> QED
    BY <1>1, <1>3, <2>1, <2>2, <2>3, <2>4, LinuxAssumption DEF Counts
<1> QED
  BY <1>2, <1>3, LinuxAssumption DEF Counts

\* The position after the one k places on from dirty_tx.
LEMMA PosNext ==
    ASSUME NEW dirty \in Counts, NEW k \in 0..(TxRing - 1)
    PROVE  (TxPos(dirty, k) + 1) % TxRing = TxPos(dirty, k + 1)
<1>1. PICK a \in Nat : a = dirty + k /\ a < 3 * TxRing
  BY LinuxAssumption DEF Counts
<1>2. dirty + (k + 1) = a + 1
  BY <1>1, LinuxAssumption DEF Counts
<1>3. CASE a < 2 * TxRing
  <2>1. a \in Counts
    BY <1>1, <1>3, LinuxAssumption DEF Counts
  <2>2. ((a % TxRing) + 1) % TxRing = (a + 1) % TxRing
    BY <2>1, HeadNext
  <2> QED
    BY <1>1, <1>2, <2>2 DEF TxPos
<1>4. CASE 2 * TxRing <= a
  <2>1. PICK c \in 0..(TxRing - 1) : a = c + 2 * TxRing
    BY <1>1, <1>4, LinuxAssumption
  <2>2. a % TxRing = c
    BY <2>1, LinuxAssumption
  <2>3. c + 1 = TxRing => (a + 1) % TxRing = 0 /\ (c + 1) % TxRing = 0
    BY <2>1, LinuxAssumption
  <2>4. c + 1 < TxRing => (a + 1) % TxRing = c + 1 /\ (c + 1) % TxRing = c + 1
    BY <2>1, LinuxAssumption
  <2>5. ((a % TxRing) + 1) % TxRing = (a + 1) % TxRing
    BY <2>1, <2>2, <2>3, <2>4, LinuxAssumption
  <2> QED
    BY <1>1, <1>2, <2>5 DEF TxPos
<1> QED
  BY <1>1, <1>3, <1>4, LinuxAssumption

\* TxInStep in these terms.
TxSplit(sent) ==
    /\ chip.txd = TxPos(dirtyTx, sent)
    /\ \A i \in TxEntries :
           /\ tx[i].base <=> TxPlace(i, dirtyTx) < Delta
           /\ tx[i].skb = "packet" <=> TxPlace(i, dirtyTx) < Delta
           /\ tx[i].own <=> sent <= TxPlace(i, dirtyTx) /\ TxPlace(i, dirtyTx) < Delta

LEMMA TxSplitIn ==
    ASSUME LinuxTypeOK, TxInStep, chip.on
    PROVE  /\ Delta = TxDelta(curTx, dirtyTx)
           /\ Delta \in 0..TxRing
           /\ \E sent \in 0..Delta : TxSplit(sent)
<1>1. Delta = TxDelta(curTx, dirtyTx)
  BY DEF Delta, TxDelta
<1>2. curTx \in Counts /\ dirtyTx \in Counts
  BY DEF LinuxTypeOK
<1>3. Delta \in 0..TxRing
  BY <1>1, <1>2, TxFacts, LinuxAssumption DEF TxInStep
<1>4. \A i \in TxEntries : TxPlace(i, dirtyTx) \in 0..(TxRing - 1)
  BY <1>2, TxFacts
<1>5. PICK sent \in 0..Delta :
          /\ chip.txd = TxPos(dirtyTx, sent)
          /\ \A i \in TxEntries :
                 /\ tx[i].base <=> TxPlace(i, dirtyTx) < Delta
                 /\ tx[i].skb = "packet" <=> TxPlace(i, dirtyTx) < Delta
                 /\ tx[i].own <=> TxPlace(i, dirtyTx) \in sent..(Delta - 1)
  BY DEF TxInStep, TxPos, TxPlace
<1>6. TxSplit(sent)
  BY <1>3, <1>4, <1>5, LinuxAssumption DEF TxSplit
<1> QED
  BY <1>1, <1>3, <1>6

LEMMA TxSplitOut ==
    ASSUME LinuxTypeOK',
           chip'.on => Delta' \in 0..TxRing /\ \E sent \in 0..Delta' : TxSplit(sent)'
    PROVE  TxInStep'
<1> SUFFICES ASSUME chip'.on PROVE TxInStep'
  BY DEF TxInStep
<1>1. PICK sent \in 0..Delta' : TxSplit(sent)'
  OBVIOUS
<1>2. Delta' \in 0..TxRing /\ dirtyTx' \in Counts /\ curTx' \in Counts
  BY DEF LinuxTypeOK
<1>3. \A i \in TxEntries : TxPlace(i, dirtyTx') \in 0..(TxRing - 1)
  BY <1>2, TxFacts
<1>4. \A i \in TxEntries :
          sent <= TxPlace(i, dirtyTx') /\ TxPlace(i, dirtyTx') < Delta'
              <=> TxPlace(i, dirtyTx') \in sent..(Delta' - 1)
  BY <1>2, <1>3, LinuxAssumption
<1>5. /\ chip'.txd = TxPos(dirtyTx', sent)
      /\ \A i \in TxEntries :
             /\ tx'[i].base <=> TxPlace(i, dirtyTx') < Delta'
             /\ tx'[i].skb = "packet" <=> TxPlace(i, dirtyTx') < Delta'
             /\ tx'[i].own <=> TxPlace(i, dirtyTx') \in sent..(Delta' - 1)
  BY <1>1, <1>4 DEF TxSplit
<1>6. Delta' <= TxRing
  BY <1>2, LinuxAssumption
<1> HIDE DEF Delta
<1> QED
  BY <1>5, <1>6 DEF TxInStep, TxPos, TxPlace

TxRingInv == TxInStep /\ PacketsHaveBase /\ AwakeMeansRoom

\* Nothing of the ring is in use.
LEMMA TxFresh ==
    ASSUME LinuxTypeOK', curTx' = 0, dirtyTx' = 0,
           \A i \in TxEntries : tx'[i].skb # "packet",
           chip'.on => /\ chip'.txd = 0
                       /\ \A i \in TxEntries : ~tx'[i].base /\ ~tx'[i].own
    PROVE  TxRingInv'
<1>1. 0 \in Counts /\ TxDelta(0, 0) = 0
  BY RingFacts, TxFacts
<1>2. Delta' = 0
  BY <1>1 DEF Delta, TxDelta
<1>3. TxPos(0, 0) = 0
  BY LinuxAssumption DEF TxPos
<1>4. \A i \in TxEntries : TxPlace(i, 0) \in 0..(TxRing - 1)
  BY <1>1, TxFacts
<1>5. chip'.on => TxSplit(0)'
  BY <1>2, <1>3, <1>4, LinuxAssumption DEF TxSplit
<1>6. TxInStep'
  BY <1>2, <1>5, TxSplitOut, LinuxAssumption
<1>7. curTx' % TxRing \in TxEntries
  BY RingFacts
<1> QED
  BY <1>6, <1>7 DEF TxRingInv, PacketsHaveBase, AwakeMeansRoom

\* No chip and no packets.
LEMMA TxNone ==
    ASSUME LinuxTypeOK', ~chip'.on, \A i \in TxEntries : tx'[i].skb # "packet"
    PROVE  TxRingInv'
<1>1. curTx' % TxRing \in TxEntries
  BY RingFacts DEF LinuxTypeOK
<1> QED
  BY <1>1 DEF TxRingInv, TxInStep, PacketsHaveBase, AwakeMeansRoom

\* The ring is left alone.
LEMMA TxKept ==
    ASSUME TxRingInv, UNCHANGED <<tx, curTx, dirtyTx>>,
           chip'.on => chip.on /\ chip'.txd = chip.txd,
           life' = "up" /\ awake' => life = "up" /\ awake
    PROVE  TxRingInv'
  BY DEF TxRingInv, TxInStep, Delta, PacketsHaveBase, AwakeMeansRoom

LEMMA Cleared ==
    ASSUME NEW ring \in [TxEntries -> TxEntry], NEW i \in TxEntries
    PROVE  /\ ClearTx(ring)[i].skb = ring[i].skb
           /\ ~ClearTx(ring)[i].base /\ ~ClearTx(ring)[i].own
  BY DEF ClearTx, TxEntry

LEMMA Purged ==
    ASSUME LinuxTypeOK, NEW i \in TxEntries
    PROVE  PurgeTxRing[i].skb = "none" /\ ~PurgeTxRing[i].own
  BY DEF PurgeTxRing, LinuxTypeOK, TxEntry

LEMMA TxRestart ==
    ASSUME LinuxTypeOK, LinuxTypeOK', NEW inea \in BOOLEAN, Restart(inea)
    PROVE  TxRingInv'
<1>1. curTx' = 0 /\ dirtyTx' = 0
  BY DEF Restart, CountersToZero
<1>2. \A i \in TxEntries : PurgeTxRing[i].skb = "none"
  BY Purged
<1>3. \A i \in TxEntries : /\ ClearTx(PurgeTxRing)[i].skb = "none"
                           /\ ~ClearTx(PurgeTxRing)[i].base
                           /\ ~ClearTx(PurgeTxRing)[i].own
  <2>1. PurgeTxRing \in [TxEntries -> TxEntry]
    BY ValueTypes
  <2> QED
    BY <1>2, <2>1, Cleared
<1>4. \/ tx' = PurgeTxRing /\ chip' = Stopped
      \/ tx' = ClearTx(PurgeTxRing) /\ chip' = Started(inea)
  BY DEF Restart
<1> QED
  BY <1>1, <1>2, <1>3, <1>4, TxFresh DEF Stopped, Started

\* The kernel's calls but start_xmit.
LEMMA TxCalls ==
    ASSUME LinuxInv, LinuxTypeOK', TxRingInv,
           \/ Appears \/ Disappears \/ Open \/ StopAndRestart
           \/ CloseQueue \/ CloseStop \/ CloseFree \/ SelfTest
           \/ TestFrames \/ TestEnd
    PROVE  TxRingInv'
<1>0. LinuxTypeOK /\ LineAndChip /\ NoPacketLeft
  BY DEF LinuxInv
<1>1. CASE Appears
  BY <1>1, TxKept DEF Appears, ringVars
<1>2. CASE Disappears
  BY <1>0, <1>2, TxNone DEF Disappears, TxMemory, NoTx, LineAndChip
<1>3. ASSUME life \in {"down", "tested"}, OpenSucceeds \/ OpenRefused \/ OpenNoBuffers
      PROVE  TxRingInv'
  <2>1. (\A i \in TxEntries : tx[i].skb # "packet") /\ ~chip.on
    BY <1>0, <1>3 DEF NoPacketLeft, LineAndChip
  <2>2. CASE OpenSucceeds
    <3>1. \A i \in TxEntries : /\ tx'[i].skb # "packet"
                               /\ ~tx'[i].base /\ ~tx'[i].own
      BY <1>0, <2>1, <2>2, Cleared DEF OpenSucceeds, LinuxTypeOK
    <3> QED
      BY <2>2, <3>1, TxFresh DEF OpenSucceeds, CountersToZero, Started
  <2>3. CASE OpenRefused \/ OpenNoBuffers
    BY <2>1, <2>3, TxNone DEF OpenRefused, OpenNoBuffers, ringVars, Stopped
  <2> QED
    BY <1>3, <2>2, <2>3
<1>4. CASE Open
  BY <1>3, <1>4 DEF Open
<1>5. CASE StopAndRestart
  BY <1>0, <1>5, TxRestart DEF StopAndRestart
<1>6. CASE CloseQueue
  BY <1>6, TxKept DEF CloseQueue, ringVars
<1>7. CASE CloseStop
  BY <1>7, TxKept DEF CloseStop, ringVars, Stopped
<1>8. CASE CloseFree
  <2>1. \A i \in TxEntries : tx'[i].skb # "packet"
    BY <1>0, <1>8, Purged DEF CloseFree, FreedRings
  <2> QED
    BY <1>0, <1>8, <2>1, TxNone DEF CloseFree, LineAndChip
<1>9. CASE SelfTest
  BY <1>9, TxKept DEF SelfTest, ringVars
<1>10. CASE TestFrames
  <2>1. PICK sent \in 0..NumBuffs, looped \in 0..NumBuffs :
          tx' = [i \in TxEntries |->
                  IF i < sent
                  THEN [own |-> i >= looped, base |-> TRUE, skb |-> "test", uflo |-> FALSE]
                  ELSE PurgeTxRing[i]]
    BY <1>10 DEF TestFrames
  <2>2. \A i \in TxEntries : tx'[i].skb # "packet"
    BY <1>0, <2>1, Purged
  <2> QED
    BY <1>10, <2>2, TxNone DEF TestFrames, Stopped
<1>11. CASE TestEnd
  <2>1. CASE selfTest = "up"
    BY <1>3, <1>11, <2>1 DEF TestEnd
  <2>2. CASE selfTest = "down"
    BY <1>0, <1>11, <2>2, TxNone DEF TestEnd, ringVars, NoPacketLeft, LineAndChip
  <2> QED
    BY <1>11, <2>1, <2>2 DEF TestEnd
<1> QED
  BY <1>1, <1>2, <1>4, <1>5, <1>6, <1>7, <1>8, <1>9, <1>10, <1>11

\* start_xmit fills the entry behind the last one in use.
LEMMA TxXmit ==
    ASSUME LinuxTypeOK, LinuxTypeOK', TxRingInv, StartXmit
    PROVE  TxRingInv'
<1>1. curTx \in Counts /\ dirtyTx \in Counts /\ tx \in [TxEntries -> TxEntry]
  BY DEF LinuxTypeOK
<1>2. PICK head \in TxEntries, after \in TxEntries :
          head = curTx % TxRing /\ after = (head + 1) % TxRing /\ head # after
  BY <1>1, RingFacts, HeadNext
<1>3. /\ curTx' = TxNext(curTx) /\ dirtyTx' = dirtyTx
      /\ tx' = [tx EXCEPT ![head] =
                  [own |-> TRUE, base |-> TRUE, skb |-> "packet", uflo |-> FALSE]]
      /\ awake' = ~tx[after].base
      /\ chip' = [chip EXCEPT !.inea = chip.on]
      /\ life = "up" /\ awake
  BY <1>2 DEF StartXmit, RingFull, TxNext
<1>4. chip'.on = chip.on /\ chip'.txd = chip.txd
  BY <1>3 DEF LinuxTypeOK
<1>5. tx[head].skb # "packet"
  BY <1>2, <1>3 DEF TxRingInv, AwakeMeansRoom
<1>6. \A i \in TxEntries :
          /\ i # head => tx'[i] = tx[i]
          /\ i = head => tx'[i].own /\ tx'[i].base /\ tx'[i].skb = "packet"
  BY <1>1, <1>3
<1>7. PacketsHaveBase'
  BY <1>6 DEF TxRingInv, PacketsHaveBase
<1>8. AwakeMeansRoom'
  <2>1. curTx' % TxRing = (curTx + 1) % TxRing
    BY <1>1, <1>3, TxNextFacts
  <2>2. curTx' % TxRing = after
    BY <1>1, <1>2, <2>1, HeadNext
  <2>3. tx'[after] = tx[after]
    BY <1>2, <1>6
  <2> QED
    BY <1>3, <2>2, <2>3 DEF TxRingInv, PacketsHaveBase, AwakeMeansRoom
<1>9. ASSUME chip.on
      PROVE  Delta' \in 0..TxRing /\ \E sent \in 0..Delta' : TxSplit(sent)'
  <2>1. PICK delta \in 0..TxRing : delta = Delta /\ delta = TxDelta(curTx, dirtyTx)
    BY <1>9, TxSplitIn DEF TxRingInv
  <2>2. PICK sent \in 0..delta : TxSplit(sent)
    BY <1>9, <2>1, TxSplitIn DEF TxRingInv
  <2>3. \A i \in TxEntries : TxPlace(i, dirtyTx) \in 0..(TxRing - 1)
    BY <1>1, TxFacts
  <2>4. delta < TxRing
    BY <1>2, <1>5, <2>1, <2>2, <2>3, LinuxAssumption DEF TxSplit
  <2>5. Delta' = delta + 1
    BY <1>1, <1>3, <2>1, <2>4, TxNextFacts DEF Delta, TxDelta
  <2>6. TxPlace(head, dirtyTx) = delta
    BY <1>1, <1>2, <2>1, <2>4, TxFacts
  <2>7. \A i \in TxEntries : i # head => TxPlace(i, dirtyTx) # delta
    BY <1>1, <1>2, <2>6, TxFacts
  <2>8. TxSplit(sent)'
    <3>1. chip'.txd = TxPos(dirtyTx', sent)
      BY <1>3, <1>4, <2>2 DEF TxSplit
    <3>2. ASSUME NEW i \in TxEntries
          PROVE  /\ tx'[i].base <=> TxPlace(i, dirtyTx) < delta + 1
                 /\ tx'[i].skb = "packet" <=> TxPlace(i, dirtyTx) < delta + 1
                 /\ tx'[i].own <=> /\ sent <= TxPlace(i, dirtyTx)
                                   /\ TxPlace(i, dirtyTx) < delta + 1
      <4>1. CASE i = head
        BY <1>6, <2>1, <2>6, <4>1, LinuxAssumption
      <4>2. CASE i # head
        <5>1. /\ tx[i].base <=> TxPlace(i, dirtyTx) < delta
              /\ tx[i].skb = "packet" <=> TxPlace(i, dirtyTx) < delta
              /\ tx[i].own <=> sent <= TxPlace(i, dirtyTx) /\ TxPlace(i, dirtyTx) < delta
          BY <2>1, <2>2 DEF TxSplit
        <5>2. TxPlace(i, dirtyTx) < delta <=> TxPlace(i, dirtyTx) < delta + 1
          BY <2>3, <2>7, <4>2, LinuxAssumption
        <5> QED
          BY <1>6, <4>2, <5>1, <5>2
      <4> QED
        BY <4>1, <4>2
    <3> QED
      BY <1>3, <2>5, <3>1, <3>2 DEF TxSplit
  <2> QED
    BY <2>1, <2>4, <2>5, <2>8, LinuxAssumption
<1> QED
  BY <1>4, <1>7, <1>8, <1>9, TxSplitOut DEF TxRingInv

\* The chip sends the entry at its position.
LEMMA TxSends ==
    ASSUME LinuxTypeOK, LinuxTypeOK', TxRingInv, ChipSends
    PROVE  TxRingInv'
<1>1. curTx \in Counts /\ dirtyTx \in Counts /\ tx \in [TxEntries -> TxEntry]
  BY DEF LinuxTypeOK
<1>2. PICK at \in TxEntries : at = chip.txd
  BY DEF LinuxTypeOK
<1>3. PICK uflo \in BOOLEAN :
        /\ tx' = [tx EXCEPT ![at] = [@ EXCEPT !.own = FALSE, !.uflo = uflo]]
        /\ chip' = Raise([chip EXCEPT !.txd = (@ + 1) % TxRing, !.txon = ~uflo], "TINT")
  BY <1>2 DEF ChipSends
<1>4. /\ chip.on /\ tx[at].own
      /\ UNCHANGED <<life, awake, curTx, dirtyTx>>
  BY <1>2 DEF ChipSends, ChipOnly
<1>5. \A i \in TxEntries :
          /\ i # at => tx'[i] = tx[i]
          /\ tx'[i].base = tx[i].base /\ tx'[i].skb = tx[i].skb
          /\ i = at => ~tx'[i].own
  BY <1>1, <1>3 DEF TxEntry
<1>6. PacketsHaveBase' /\ AwakeMeansRoom'
  <2>1. curTx % TxRing \in TxEntries
    BY <1>1, RingFacts
  <2> QED
    BY <1>4, <1>5, <2>1 DEF TxRingInv, PacketsHaveBase, AwakeMeansRoom
<1>7. chip'.txd = (at + 1) % TxRing
  BY <1>2, <1>3 DEF Raise, LinuxTypeOK
<1>8. Delta' \in 0..TxRing /\ \E sent \in 0..Delta' : TxSplit(sent)'
  <2>1. PICK delta \in 0..TxRing : delta = Delta
    BY <1>4, TxSplitIn DEF TxRingInv
  <2>2. PICK sent \in 0..delta : TxSplit(sent)
    BY <1>4, <2>1, TxSplitIn DEF TxRingInv
  <2>3. \A i \in TxEntries : TxPlace(i, dirtyTx) \in 0..(TxRing - 1)
    BY <1>1, TxFacts
  <2>4. sent <= TxPlace(at, dirtyTx) /\ TxPlace(at, dirtyTx) < delta
    BY <1>4, <2>1, <2>2 DEF TxSplit
  <2>5. sent \in 0..(TxRing - 1)
    BY <2>1, <2>3, <2>4, LinuxAssumption
  <2>6. at = TxPos(dirtyTx, sent) /\ TxPlace(at, dirtyTx) = sent
    BY <1>1, <1>2, <2>2, <2>5, TxFacts DEF TxSplit
  <2>7. chip'.txd = TxPos(dirtyTx', sent + 1)
    BY <1>1, <1>4, <1>7, <2>5, <2>6, PosNext
  <2>8. \A i \in TxEntries : i # at => TxPlace(i, dirtyTx) # sent
    BY <1>1, <2>6, TxFacts
  <2>9. Delta' = delta /\ sent + 1 \in 0..delta
    BY <1>4, <2>1, <2>4, <2>6 DEF Delta
  <2>10. ASSUME NEW i \in TxEntries
         PROVE  /\ tx'[i].base <=> TxPlace(i, dirtyTx) < delta
                /\ tx'[i].skb = "packet" <=> TxPlace(i, dirtyTx) < delta
                /\ tx'[i].own <=> /\ sent + 1 <= TxPlace(i, dirtyTx)
                                  /\ TxPlace(i, dirtyTx) < delta
    <3>1. /\ tx[i].base <=> TxPlace(i, dirtyTx) < delta
          /\ tx[i].skb = "packet" <=> TxPlace(i, dirtyTx) < delta
          /\ tx[i].own <=> sent <= TxPlace(i, dirtyTx) /\ TxPlace(i, dirtyTx) < delta
      BY <2>1, <2>2 DEF TxSplit
    <3>2. CASE i = at
      BY <1>5, <2>6, <3>1, <3>2
    <3>3. CASE i # at
      <4>1. sent + 1 <= TxPlace(i, dirtyTx) <=> sent <= TxPlace(i, dirtyTx)
        BY <2>3, <2>5, <2>8, <3>3, LinuxAssumption
      <4> QED
        BY <1>5, <3>1, <3>3, <4>1
    <3> QED
      BY <3>2, <3>3
  <2>11. TxSplit(sent + 1)'
    BY <1>4, <2>7, <2>9, <2>10 DEF TxSplit
  <2> QED
    BY <2>9, <2>11
<1> QED
  BY <1>6, <1>8, TxSplitOut DEF TxRingInv

\* The handler takes a sent entry out of the ring.
LEMMA TxReapStep ==
    ASSUME LinuxTypeOK, LinuxTypeOK', TxRingInv, chip.on, TxReap
    PROVE  TxRingInv'
<1>1. curTx \in Counts /\ dirtyTx \in Counts /\ tx \in [TxEntries -> TxEntry]
  BY DEF LinuxTypeOK
<1>2. PICK tail \in TxEntries : tail = dirtyTx % TxRing
  BY <1>1, RingFacts
<1>3. /\ tx' = [tx EXCEPT ![tail] = [@ EXCEPT !.base = FALSE, !.skb = "none"]]
      /\ dirtyTx' = TxNext(dirtyTx)
      /\ UNCHANGED <<life, awake, curTx, chip>>
      /\ dirtyTx # curTx /\ ~tx[tail].own
  BY <1>2 DEF TxReap, Reaped, TxNext
<1>4. \A i \in TxEntries :
          /\ i # tail => tx'[i] = tx[i]
          /\ i = tail => ~tx'[i].base /\ tx'[i].skb = "none" /\ ~tx'[i].own
  BY <1>1, <1>3 DEF TxEntry
<1>5. PacketsHaveBase' /\ AwakeMeansRoom'
  <2>1. curTx % TxRing \in TxEntries
    BY <1>1, RingFacts
  <2> QED
    BY <1>3, <1>4, <2>1 DEF TxRingInv, PacketsHaveBase, AwakeMeansRoom
<1>6. Delta' \in 0..TxRing /\ \E sent \in 0..Delta' : TxSplit(sent)'
  <2>1. PICK delta \in 0..TxRing : delta = Delta /\ delta = TxDelta(curTx, dirtyTx)
    BY TxSplitIn DEF TxRingInv
  <2>2. PICK sent \in 0..delta : TxSplit(sent)
    BY <2>1, TxSplitIn DEF TxRingInv
  <2>3. \A i \in TxEntries : TxPlace(i, dirtyTx) \in 0..(TxRing - 1)
    BY <1>1, TxFacts
  <2>4. delta > 0
    BY <1>1, <1>3, <2>1, TxFacts, LinuxAssumption
  <2>5. TxPlace(tail, dirtyTx) = 0
    BY <1>1, <1>2, TxFacts
  <2>6. sent > 0
    BY <1>3, <2>1, <2>2, <2>4, <2>5 DEF TxSplit
  <2>7. Delta' = delta - 1
    BY <1>1, <1>3, <2>1, <2>4, TxNextFacts DEF Delta, TxDelta
  <2>8. chip'.txd = TxPos(dirtyTx', sent - 1)
    <3>1. sent \in 1..TxRing
      BY <2>1, <2>2, <2>6, LinuxAssumption
    <3> QED
      BY <1>1, <1>3, <2>2, <3>1, TxNextFacts DEF TxSplit
  <2>9. ASSUME NEW i \in TxEntries
        PROVE  /\ tx'[i].base <=> TxPlace(i, dirtyTx') < delta - 1
               /\ tx'[i].skb = "packet" <=> TxPlace(i, dirtyTx') < delta - 1
               /\ tx'[i].own <=> /\ sent - 1 <= TxPlace(i, dirtyTx')
                                 /\ TxPlace(i, dirtyTx') < delta - 1
    <3>1. TxPlace(i, dirtyTx') = IF i = tail THEN TxRing - 1
                                 ELSE TxPlace(i, dirtyTx) - 1
      BY <1>1, <1>2, <1>3, TxNextFacts
    <3>2. /\ tx[i].base <=> TxPlace(i, dirtyTx) < delta
          /\ tx[i].skb = "packet" <=> TxPlace(i, dirtyTx) < delta
          /\ tx[i].own <=> sent <= TxPlace(i, dirtyTx) /\ TxPlace(i, dirtyTx) < delta
      BY <2>1, <2>2 DEF TxSplit
    <3>3. CASE i = tail
      BY <1>4, <2>1, <3>1, <3>3, LinuxAssumption
    <3>4. CASE i # tail
      BY <1>4, <2>1, <2>3, <3>1, <3>2, <3>4, LinuxAssumption
    <3> QED
      BY <3>3, <3>4
  <2>10. TxSplit(sent - 1)'
    BY <2>7, <2>8, <2>9 DEF TxSplit
  <2> QED
    BY <2>1, <2>2, <2>4, <2>6, <2>7, <2>10, LinuxAssumption
<1> QED
  BY <1>5, <1>6, TxSplitOut DEF TxRingInv

\* When all sent entries are taken out, dirty_tx is where it should be, and a
\* queue that is woken has room.
LEMMA TxReapedStep ==
    ASSUME LinuxTypeOK, LinuxTypeOK', TxRingInv, chip.on, TxReaped
    PROVE  /\ TxRingInv' /\ dirtyTx' = dirtyTx
           /\ txFull /\ ~awake' => Delta > 0
<1>1. curTx \in Counts /\ dirtyTx \in Counts
  BY DEF LinuxTypeOK
<1>2. PICK delta \in 0..TxRing : delta = Delta /\ delta = TxDelta(curTx, dirtyTx)
  BY TxSplitIn DEF TxRingInv
<1>3. PICK sent \in 0..delta : TxSplit(sent)
  BY <1>2, TxSplitIn DEF TxRingInv
<1>4. dirtyTx' = dirtyTx /\ InSync(Delta) = delta
  BY <1>2, LinuxAssumption DEF TxReaped, InSync
<1>5. UNCHANGED <<tx, curTx, chip, life>>
  BY DEF TxReaped
<1>6. TxInStep' /\ PacketsHaveBase'
  BY <1>4, <1>5 DEF TxRingInv, TxInStep, PacketsHaveBase, Delta
<1>7. CASE txFull /\ ~awake /\ RoomAgain(delta)
  <2>1. PICK head \in TxEntries : head = curTx % TxRing
    BY <1>1, RingFacts
  <2>2. delta < TxRing
    BY <1>2, <1>7, LinuxAssumption DEF RoomAgain
  <2>3. TxPlace(head, dirtyTx) = delta
    BY <1>1, <1>2, <2>1, <2>2, TxFacts
  <2>4. tx[head].skb # "packet"
    BY <1>2, <1>3, <2>3, LinuxAssumption DEF TxSplit
  <2>5. awake' = TRUE
    BY <1>4, <1>7 DEF TxReaped
  <2> QED
    BY <1>4, <1>5, <1>6, <2>1, <2>4, <2>5 DEF TxRingInv, AwakeMeansRoom
<1>8. CASE ~(txFull /\ ~awake /\ RoomAgain(delta))
  <2>1. awake' = awake
    BY <1>4, <1>8 DEF TxReaped
  <2>2. TxRingInv'
    BY <1>4, <1>5, <1>6, <2>1 DEF TxRingInv, AwakeMeansRoom
  <2>3. txFull /\ ~awake => Delta > 0
    BY <1>2, <1>8, LinuxAssumption DEF RoomAgain
  <2> QED
    BY <1>4, <2>1, <2>2, <2>3
<1> QED
  BY <1>7, <1>8

----------------------------------------------------------------------------
(* The handler and the chip                                                 *)

\* What the next part of the handler has to do is among the causes left.
LEMMA GoOnCauses ==
    ASSUME NEW left \in SUBSET Causes, NEW must \in BOOLEAN, GoOn(left, must)
    PROVE  HandlerCauses' /\ pc' # "idle"
  BY DEF GoOn, HandlerCauses, Causes

\* The handler's own steps keep where it is in line with its causes.
LEMMA HandlerCausesNext ==
    ASSUME LinuxInv, HandlerCauses, LinuxNext
    PROVE  HandlerCauses'
<1>0. csr0 \subseteq Causes /\ chip.bits \subseteq Causes /\ mustRestart \in BOOLEAN
  BY DEF LinuxInv, LinuxTypeOK
<1>1. CASE UNCHANGED handlerVars
  BY <1>1 DEF HandlerCauses, handlerVars
<1>2. CASE IrqEnter \/ IrqLoop
  BY <1>0, <1>2, GoOnCauses DEF IrqEnter, IrqLoop, IrqRead
<1>3. CASE IrqReturn
  BY <1>3 DEF IrqReturn, HandlerCauses
<1>4. CASE RxDone
  BY <1>0, <1>4, GoOnCauses DEF RxDone
<1>5. CASE RxFrame \/ RxSqueeze \/ RxEmpty
  BY <1>4, <1>5 DEF RxFrame, RxSqueeze, RxEmpty, HandlerCauses
<1>6. CASE TxReap
  BY <1>6 DEF TxReap, HandlerCauses
<1>7. CASE TxReaped
  BY <1>0, <1>7, GoOnCauses DEF TxReaped
<1>8. CASE UnderflowRestart
  BY <1>0, <1>8, GoOnCauses DEF UnderflowRestart
<1>9. CASE \/ Appears \/ Disappears \/ Open \/ StartXmit \/ StopAndRestart
           \/ CloseQueue \/ CloseStop \/ CloseFree \/ SelfTest
           \/ TestFrames \/ TestEnd \/ ChipSends \/ ChipReceives
  BY <1>1, <1>9
  DEF Appears, Disappears, Open, StartXmit, StopAndRestart, CloseQueue, CloseStop,
      CloseFree, SelfTest, TestFrames, TestEnd, ChipSends, ChipReceives, ChipOnly
<1> QED
  BY <1>2, <1>3, <1>5, <1>6, <1>7, <1>8, <1>9
  DEF LinuxNext, HandlerStep, TxTimeout, SetMulticastList

\* A chip that has a handler runs, through every restart.
LEMMA ChipRunsNext ==
    ASSUME LinuxInv, ChipRuns, LinuxNext
    PROVE  ChipRuns'
<1> USE DEF ChipRuns, LockFree
<1>0. LinuxTypeOK /\ LineAndChip /\ UpHasBuffers
  BY DEF LinuxInv
<1>1. CASE Appears
  BY <1>0, <1>1 DEF Appears, LineAndChip, handlerVars
<1>2. CASE Disappears
  BY <1>0, <1>2 DEF Disappears, handlerVars
<1>3. ASSUME OpenSucceeds \/ OpenRefused \/ OpenNoBuffers, ~chip.on
      PROVE  ChipRuns'
  BY <1>3 DEF OpenSucceeds, OpenRefused, OpenNoBuffers, Started, Stopped
<1>4. CASE Open
  BY <1>0, <1>3, <1>4 DEF Open, LineAndChip
<1>5. CASE StartXmit
  <2>1. chip'.on = chip.on /\ chip'.inea = chip.on
    BY <1>0, <1>5 DEF StartXmit, LinuxTypeOK
  <2> QED
    BY <1>5, <2>1 DEF StartXmit
<1>6. CASE StopAndRestart
  <2>1. chip'.on => chip'.inea
    BY <1>6 DEF StopAndRestart, Restart, Started, Stopped
  <2>2. ASSUME irq PROVE chip'.on
    <3>1. Restart(TRUE) /\ \A i \in RxEntries : rx[i].skb
      BY <1>0, <1>6, <2>2 DEF StopAndRestart, UpHasBuffers
    <3>2. chip' = Started(TRUE)
      BY <3>1, RestartSucceeds
    <3> QED
      BY <3>2 DEF Started
  <2> QED
    BY <1>6, <2>1, <2>2 DEF StopAndRestart
<1>7. CASE CloseQueue \/ SelfTest
  BY <1>0, <1>7 DEF CloseQueue, SelfTest, ringVars, handlerVars, LineAndChip
<1>8. CASE CloseStop
  BY <1>8 DEF CloseStop, Stopped
<1>9. CASE CloseFree
  BY <1>9 DEF CloseFree, handlerVars
<1>10. CASE TestFrames
  BY <1>10 DEF TestFrames, Stopped
<1>11. CASE TestEnd
  <2>1. CASE selfTest = "up"
    BY <1>0, <1>3, <1>11, <2>1 DEF TestEnd, LineAndChip
  <2>2. CASE selfTest = "down"
    BY <1>0, <1>11, <2>2 DEF TestEnd, ringVars, handlerVars, LineAndChip
  <2> QED
    BY <1>11, <2>1, <2>2 DEF TestEnd
<1>12. CASE IrqEnter \/ IrqLoop
  <2>1. PICK left \in Int : IrqRead(left)
    BY <1>12, LinuxAssumption DEF IrqEnter, IrqLoop, LinuxInv, LinuxTypeOK
  <2>2. pc' # "idle"
    BY <1>0, <2>1, GoOnCauses DEF IrqRead, LinuxTypeOK
  <2>3. chip'.on = chip.on
    BY <1>0, <2>1 DEF IrqRead, LinuxTypeOK
  <2> QED
    BY <2>1, <2>2, <2>3 DEF IrqRead
<1>13. CASE IrqReturn
  <2>1. chip'.on = chip.on /\ chip'.inea = chip.on
    BY <1>0, <1>13 DEF IrqReturn, InterruptsOn, LinuxTypeOK
  <2> QED
    BY <1>13, <2>1 DEF IrqReturn
<1>14. CASE RxFrame \/ RxSqueeze \/ RxEmpty
  <2>1. csr0 \ {IF pc = "rx" THEN "RINT" ELSE "MISS"} \in SUBSET Causes
    BY <1>0 DEF LinuxTypeOK
  <2>2. RxDone => pc' # "idle"
    BY <1>0, <2>1, GoOnCauses DEF RxDone, LinuxTypeOK
  <2>3. pc' # "idle"
    BY <1>14, <2>2 DEF RxFrame, RxSqueeze, RxEmpty, InRx
  <2> QED
    BY <1>14, <2>3 DEF RxFrame, RxSqueeze, RxEmpty, RxUnchanged
<1>15. CASE TxReap
  BY <1>15 DEF TxReap
<1>16. CASE TxReaped
  <2>1. pc' # "idle"
    BY <1>0, <1>16, GoOnCauses DEF TxReaped, LinuxTypeOK
  <2> QED
    BY <1>16, <2>1 DEF TxReaped
<1>17. CASE UnderflowRestart
  <2>1. pc' # "idle"
    BY <1>0, <1>17, GoOnCauses DEF UnderflowRestart, LinuxTypeOK
  <2>2. chip'.on
    <3>1. Restart(FALSE) /\ \A i \in RxEntries : rx[i].skb
      BY <1>0, <1>17 DEF UnderflowRestart, LineAndChip, UpHasBuffers
    <3>2. chip' = Started(FALSE)
      BY <3>1, RestartSucceeds
    <3> QED
      BY <3>2 DEF Started
  <2> QED
    BY <2>1, <2>2
<1>18. CASE ChipSends
  <2>1. chip'.on = chip.on /\ chip'.inea = chip.inea
    BY <1>0, <1>18 DEF ChipSends, Raise, LinuxTypeOK
  <2> QED
    BY <1>18, <2>1 DEF ChipSends, ChipOnly, handlerVars
<1>19. CASE ChipReceives
  <2>1. chip'.on = chip.on /\ chip'.inea = chip.inea
    BY <1>0, <1>19 DEF ChipReceives, Raise, LinuxTypeOK
  <2> QED
    BY <1>19, <2>1 DEF ChipReceives, ChipOnly, handlerVars
<1> QED
  BY <1>1, <1>2, <1>4, <1>5, <1>6, <1>7, <1>8, <1>9, <1>10, <1>11, <1>12, <1>13,
     <1>14, <1>15, <1>16, <1>17, <1>18, <1>19
  DEF LinuxNext, HandlerStep, TxTimeout, SetMulticastList

----------------------------------------------------------------------------
(* What a stopped queue and a transmitter that is off wait for              *)

\* The handler keeps a noted interrupt for sent packets until pcnet32_tx runs.
LEMMA PendingRead ==
    ASSUME NEW left, LinuxTypeOK, HandlerCauses, pc \in {"idle", "loop"},
           IrqRead(left), TintPending
    PROVE  TintPending'
<1>1. "TINT" \in chip.bits
  BY DEF TintPending
<1>2. "TINT" \in csr0' /\ pc' \in {"rx", "tx"}
  BY <1>1 DEF IrqRead, GoOn
<1> QED
  BY <1>2 DEF TintPending

LEMMA PendingRx ==
    ASSUME LinuxTypeOK, InRx, RxDone, UNCHANGED chip, TintPending
    PROVE  TintPending'
<1>1. CASE "TINT" \in chip.bits
  BY <1>1 DEF TintPending
<1>2. CASE "TINT" \in csr0 /\ pc = "rx"
  <2>1. "TINT" \in csr0' /\ "RINT" \notin csr0' /\ pc' = "tx"
    BY <1>2 DEF RxDone, GoOn
  <2> QED
    BY <2>1 DEF TintPending
<1> QED
  BY <1>1, <1>2 DEF TintPending, InRx

LEMMA PendingKept ==
    ASSUME TintPending, UNCHANGED <<csr0, pc>>, chip.bits \subseteq chip'.bits
    PROVE  TintPending'
  BY DEF TintPending

\* The steps of one turn of the handler that leave the transmit side alone.
LEMMA PendingHandler ==
    ASSUME LinuxTypeOK, HandlerCauses, TintPending,
           IrqEnter \/ IrqLoop \/ IrqReturn \/ RxFrame \/ RxSqueeze \/ RxEmpty
    PROVE  TintPending'
<1>1. CASE IrqEnter \/ IrqLoop
  BY <1>1, PendingRead DEF IrqEnter, IrqLoop, LockFree
<1>2. CASE IrqReturn
  <2>1. "TINT" \in chip.bits /\ chip'.bits = chip.bits
    BY <1>2 DEF IrqReturn, InterruptsOn, TintPending, LinuxTypeOK
  <2> QED
    BY <2>1 DEF TintPending
<1>3. CASE RxFrame \/ RxSqueeze \/ RxEmpty
  <2>1. UNCHANGED chip /\ InRx
    BY <1>3 DEF RxFrame, RxSqueeze, RxEmpty, RxUnchanged
  <2>2. CASE RxDone
    BY <2>1, <2>2, PendingRx
  <2>3. CASE UNCHANGED <<pc, csr0>>
    BY <2>1, <2>3, PendingKept
  <2> QED
    BY <1>3, <2>2, <2>3 DEF RxFrame, RxSqueeze, RxEmpty
<1> QED
  BY <1>1, <1>2, <1>3

\* With packets in the ring that are not all sent, the entry at dirty_tx being
\* the chip's means that all of them are.
LEMMA TailOwned ==
    ASSUME LinuxTypeOK, TxInStep, chip.on, Reaped,
           NEW i \in TxEntries, TxPlace(i, dirtyTx) < Delta
    PROVE  tx[i].own
<1>1. curTx \in Counts /\ dirtyTx \in Counts
  BY DEF LinuxTypeOK
<1>2. PICK delta \in 0..TxRing : delta = Delta /\ delta = TxDelta(curTx, dirtyTx)
  BY TxSplitIn
<1>3. PICK sent \in 0..delta : TxSplit(sent)
  BY <1>2, TxSplitIn
<1>4. TxPlace(i, dirtyTx) \in 0..(TxRing - 1)
  BY <1>1, TxFacts
<1>5. dirtyTx # curTx
  BY <1>1, <1>2, <1>4, TxFacts, LinuxAssumption
<1>6. PICK tail \in TxEntries : tail = dirtyTx % TxRing
  BY <1>1, RingFacts
<1>7. tx[tail].own /\ TxPlace(tail, dirtyTx) = 0
  BY <1>1, <1>5, <1>6, TxFacts DEF Reaped
<1>8. sent = 0
  BY <1>2, <1>3, <1>7, LinuxAssumption DEF TxSplit
<1> QED
  BY <1>2, <1>3, <1>4, <1>8, LinuxAssumption DEF TxSplit

\* A stopped queue has a packet under way or an interrupt for one.
LEMMA StoppedWaitsNext ==
    ASSUME LinuxInv, LinuxTypeOK', TrafficInv, LinuxNext
    PROVE  StoppedWaits'
<1>0. /\ LinuxTypeOK /\ LineAndChip /\ HandlerCauses /\ ChipRuns
      /\ TxInStep /\ TxRingInv /\ StoppedWaits
  BY DEF LinuxInv, TrafficInv, TxRingInv
<1>1. ASSUME life' # "up" \/ awake' \/ ~irq'
      PROVE  StoppedWaits'
  BY <1>1 DEF StoppedWaits
<1>2. ASSUME UNCHANGED <<life, irq, awake, txFull, csr0, pc, tx>>,
             chip.bits \subseteq chip'.bits
      PROVE  StoppedWaits'
  BY <1>0, <1>2, PendingKept DEF StoppedWaits
<1>3. CASE \/ Appears \/ Disappears \/ Open \/ StopAndRestart
           \/ CloseQueue \/ CloseStop \/ CloseFree \/ TestFrames \/ TestEnd
           \/ UnderflowRestart
  BY <1>1, <1>3
  DEF Appears, Disappears, Open, OpenSucceeds, OpenRefused, OpenNoBuffers,
      StopAndRestart, CloseQueue, CloseStop, CloseFree, TestFrames, TestEnd,
      UnderflowRestart
<1>4. CASE SelfTest
  BY <1>1, <1>4 DEF SelfTest
<1>5. CASE StartXmit
  <2>1. PICK head \in TxEntries : head = curTx % TxRing
    BY <1>0, RingFacts DEF LinuxTypeOK
  <2>2. tx'[head].own /\ txFull' = (txFull \/ ~awake')
    BY <1>0, <1>5, <2>1 DEF StartXmit, RingFull, LinuxTypeOK, TxEntry
  <2> QED
    BY <2>1, <2>2 DEF StoppedWaits
<1>6. CASE IrqEnter \/ IrqLoop \/ IrqReturn \/ RxFrame \/ RxSqueeze \/ RxEmpty
  <2>1. UNCHANGED <<life, irq, awake, txFull, tx>>
    BY <1>6 DEF IrqEnter, IrqLoop, IrqRead, IrqReturn, RxFrame, RxSqueeze, RxEmpty,
                RxUnchanged, ringVars
  <2>2. TintPending => TintPending'
    BY <1>0, <1>6, PendingHandler
  <2> QED
    BY <1>0, <2>1, <2>2 DEF StoppedWaits
<1>7. CASE TxReap
  <2>1. \A i \in TxEntries : tx'[i].own = tx[i].own
    BY <1>0, <1>7 DEF TxReap, LinuxTypeOK, TxEntry
  <2>2. UNCHANGED <<life, irq, awake, txFull, csr0, pc, chip>>
    BY <1>7 DEF TxReap
  <2>3. TintPending => TintPending'
    BY <2>2 DEF TintPending
  <2> QED
    BY <1>0, <2>1, <2>2, <2>3 DEF StoppedWaits
<1>8. CASE TxReaped
  <2>1. chip.on
    BY <1>0, <1>8 DEF LineAndChip, ChipRuns, TxReaped, Reaped
  <2>2. SUFFICES ASSUME life' = "up", irq', ~awake'
                 PROVE  txFull' /\ \E i \in TxEntries : tx'[i].own
    BY DEF StoppedWaits
  <2>3. /\ UNCHANGED <<life, irq, tx>>
        /\ awake' = awake /\ txFull' = txFull
    BY <1>8, <2>2 DEF TxReaped
  <2>4. txFull
    BY <1>0, <2>2, <2>3 DEF StoppedWaits
  <2>5. Delta > 0
    BY <1>0, <1>8, <2>1, <2>2, <2>4, TxReapedStep
  <2>6. PICK tail \in TxEntries : tail = dirtyTx % TxRing /\ TxPlace(tail, dirtyTx) = 0
    BY <1>0, TxFacts DEF LinuxTypeOK
  <2>7. tx[tail].own
    <3>1. Delta \in 0..TxRing
      BY <1>0, <2>1, TxSplitIn
    <3>2. TxPlace(tail, dirtyTx) < Delta
      BY <2>5, <2>6, <3>1, LinuxAssumption
    <3> QED
      BY <1>0, <1>8, <2>1, <3>2, TailOwned DEF TxReaped
  <2> QED
    BY <2>3, <2>4, <2>6, <2>7
<1>9. CASE ChipSends
  <2>1. "TINT" \in chip'.bits
    BY <1>0, <1>9 DEF ChipSends, Raise, LinuxTypeOK
  <2> QED
    BY <1>0, <1>9, <2>1 DEF ChipSends, ChipOnly, StoppedWaits, TintPending
<1>10. CASE ChipReceives
  <2>1. chip.bits \subseteq chip'.bits
    BY <1>0, <1>10 DEF ChipReceives, Raise, LinuxTypeOK
  <2> QED
    BY <1>2, <1>10, <2>1 DEF ChipReceives, ChipOnly, handlerVars
<1> QED
  BY <1>3, <1>4, <1>5, <1>6, <1>7, <1>8, <1>9, <1>10
  DEF LinuxNext, HandlerStep, TxTimeout, SetMulticastList

\* A transmitter that an underflow has turned off is restarted by the handler.
LEMMA OffIsSeenNext ==
    ASSUME LinuxInv, LinuxTypeOK', TrafficInv, LinuxNext
    PROVE  OffIsSeen'
<1>0. /\ LinuxTypeOK /\ LineAndChip /\ HandlerCauses /\ ChipRuns
      /\ TxInStep /\ TxRingInv /\ OffIsSeen
      /\ curTx \in Counts /\ dirtyTx \in Counts
  BY DEF LinuxInv, TrafficInv, TxRingInv, LinuxTypeOK
<1>1. ASSUME ~chip'.on \/ chip'.txon
      PROVE  OffIsSeen'
  BY <1>1 DEF OffIsSeen
<1>2. ASSUME UNCHANGED <<tx, curTx, dirtyTx, csr0, pc, mustRestart>>,
             chip'.on = chip.on, chip'.txon = chip.txon, chip.bits \subseteq chip'.bits
      PROVE  OffIsSeen'
  <2>1. TintPending => TintPending'
    BY <1>2, PendingKept
  <2> QED
    BY <1>0, <1>2, <2>1 DEF OffIsSeen, Delta
<1>3. ASSUME ~chip.on, OpenSucceeds \/ OpenRefused \/ OpenNoBuffers
      PROVE  OffIsSeen'
  BY <1>1, <1>3 DEF OpenSucceeds, OpenRefused, OpenNoBuffers, Started, Stopped
<1>4. CASE Appears \/ Disappears
  BY <1>0, <1>1, <1>4 DEF Appears, Disappears, LineAndChip
<1>5. CASE Open \/ TestEnd
  <2>1. ~chip.on
    BY <1>0, <1>5 DEF Open, TestEnd, LineAndChip
  <2>2. (OpenSucceeds \/ OpenRefused \/ OpenNoBuffers) \/ UNCHANGED chip
    BY <1>5 DEF Open, TestEnd
  <2> QED
    BY <1>1, <1>3, <2>1, <2>2
<1>6. CASE StopAndRestart \/ UnderflowRestart
  <2>1. chip' = Stopped \/ chip' = Started(TRUE) \/ chip' = Started(FALSE)
    BY <1>6 DEF StopAndRestart, UnderflowRestart, Restart
  <2> QED
    BY <1>1, <2>1 DEF Started, Stopped
<1>7. CASE CloseQueue \/ SelfTest
  BY <1>2, <1>7 DEF CloseQueue, SelfTest, ringVars, handlerVars
<1>8. CASE CloseStop \/ TestFrames
  BY <1>1, <1>8 DEF CloseStop, TestFrames, Stopped
<1>9. CASE CloseFree
  BY <1>0, <1>1, <1>9 DEF CloseFree, LineAndChip
<1>10. CASE StartXmit
  <2>1. PICK head \in TxEntries : head = curTx % TxRing
    BY <1>0, RingFacts
  <2>2. /\ chip'.on = chip.on /\ chip'.txon = chip.txon /\ chip'.bits = chip.bits
        /\ UNCHANGED <<dirtyTx, csr0, pc>> /\ pc = "idle"
        /\ curTx' = TxNext(curTx)
        /\ \A i \in TxEntries : i # head => tx'[i] = tx[i]
    BY <1>0, <1>10, <2>1 DEF StartXmit, LinuxTypeOK, LockFree, TxNext, handlerVars
  <2>3. SUFFICES ASSUME chip.on, ~chip.txon
                 PROVE  OffIsSeen'
    BY <1>1, <2>2
  <2>4. TintPending'
    BY <1>0, <2>2, <2>3 DEF OffIsSeen, TintPending
  <2>5. PICK i \in TxEntries : tx[i].uflo /\ ~tx[i].own /\ TxPlace(i, dirtyTx) < Delta
    BY <1>0, <2>2, <2>3 DEF OffIsSeen, TxPlace
  <2>6. PICK delta \in 0..TxRing : delta = Delta /\ delta = TxDelta(curTx, dirtyTx)
    BY <1>0, <2>3, TxSplitIn
  <2>7. PICK sent \in 0..delta : TxSplit(sent)
    BY <1>0, <2>3, <2>6, TxSplitIn
  <2>8. tx[head].skb # "packet" /\ tx[i].skb = "packet"
    BY <1>0, <1>10, <2>1, <2>5, <2>7 DEF TxRingInv, AwakeMeansRoom, StartXmit, TxSplit
  <2>9. delta < TxRing
    <3>1. TxPlace(head, dirtyTx) \in 0..(TxRing - 1)
      BY <1>0, TxFacts
    <3>2. ~(TxPlace(head, dirtyTx) < delta)
      BY <2>6, <2>7, <2>8 DEF TxSplit
    <3> QED
      BY <2>6, <3>1, <3>2, LinuxAssumption
  <2>10. Delta' = delta + 1
    BY <1>0, <2>2, <2>6, <2>9, TxNextFacts DEF Delta, TxDelta
  <2>11. TxPlace(i, dirtyTx') < Delta'
    <3>1. TxPlace(i, dirtyTx) \in 0..(TxRing - 1)
      BY <1>0, TxFacts
    <3> QED
      BY <2>2, <2>5, <2>6, <2>10, <3>1, LinuxAssumption
  <2>12. tx'[i] = tx[i]
    BY <2>2, <2>8
  <2> HIDE DEF Delta
  <2> QED
    BY <2>4, <2>5, <2>11, <2>12 DEF OffIsSeen, TxPlace
<1>11. CASE IrqEnter \/ IrqLoop \/ IrqReturn
  <2>1. /\ chip'.on = chip.on /\ chip'.txon = chip.txon
        /\ UNCHANGED <<tx, curTx, dirtyTx>>
        /\ pc \in {"idle", "loop"}
    BY <1>0, <1>11 DEF IrqEnter, IrqLoop, IrqRead, IrqReturn, InterruptsOn, LinuxTypeOK,
                       ringVars, LockFree
  <2>2. TintPending => TintPending'
    BY <1>0, <1>11, PendingHandler
  <2> QED
    BY <1>0, <2>1, <2>2 DEF OffIsSeen, Delta
<1>12. CASE RxFrame \/ RxSqueeze \/ RxEmpty
  <2>1. UNCHANGED <<chip, tx, curTx, dirtyTx>> /\ pc \in {"rx", "miss"}
    BY <1>12 DEF RxFrame, RxSqueeze, RxEmpty, RxUnchanged, InRx
  <2>2. TintPending => TintPending'
    BY <1>0, <1>12, PendingHandler
  <2>3. ASSUME mustRestart, pc = "miss"
        PROVE  mustRestart' /\ pc' \in {"miss", "restart"}
    <3>1. CASE RxDone
      <4>1. csr0 = {"MISS"}
        BY <1>0, <2>3 DEF HandlerCauses
      <4>2. csr0 \ {IF pc = "rx" THEN "RINT" ELSE "MISS"} = {}
        BY <2>3, <4>1
      <4>3. GoOn({}, mustRestart)
        BY <3>1, <4>2 DEF RxDone
      <4> QED
        BY <2>3, <4>3 DEF GoOn
    <3>2. CASE UNCHANGED <<pc, mustRestart>>
      BY <2>3, <3>2
    <3> QED
      BY <1>12, <3>1, <3>2 DEF RxFrame, RxSqueeze, RxEmpty
  <2> QED
    BY <1>0, <2>1, <2>2, <2>3 DEF OffIsSeen, Delta
<1>13. ASSUME pc # "idle"
       PROVE  chip.on
  BY <1>0, <1>13 DEF LineAndChip, ChipRuns
<1>14. CASE TxReap
  <2>1. PICK tail \in TxEntries : tail = dirtyTx % TxRing
    BY <1>0, RingFacts
  <2>2. /\ UNCHANGED <<chip, csr0, pc, curTx>> /\ pc = "tx"
        /\ dirtyTx' = TxNext(dirtyTx)
        /\ mustRestart' = (mustRestart \/ tx[tail].uflo)
        /\ dirtyTx # curTx
        /\ \A i \in TxEntries : i # tail => tx'[i] = tx[i]
    BY <1>0, <1>14, <2>1 DEF TxReap, Reaped, TxNext, LinuxTypeOK
  <2>3. SUFFICES ASSUME chip.on, ~chip.txon, ~mustRestart'
                 PROVE  OffIsSeen'
    BY <2>2 DEF OffIsSeen
  <2>4. TintPending'
    BY <1>0, <2>2, <2>3 DEF OffIsSeen, TintPending
  <2>5. PICK i \in TxEntries : tx[i].uflo /\ ~tx[i].own /\ TxPlace(i, dirtyTx) < Delta
    BY <1>0, <2>2, <2>3 DEF OffIsSeen, TxPlace
  <2>6. i # tail
    BY <2>2, <2>3, <2>5
  <2>7. PICK delta \in 0..TxRing : delta = Delta /\ delta = TxDelta(curTx, dirtyTx)
    BY <1>0, <2>3, TxSplitIn
  <2>8. TxPlace(i, dirtyTx') < Delta'
    <3>1. Delta' = delta - 1
      <4>1. delta > 0
        BY <1>0, <2>2, <2>7, TxFacts, LinuxAssumption
      <4> QED
        BY <1>0, <2>2, <2>7, <4>1, TxNextFacts DEF Delta, TxDelta
    <3>2. TxPlace(i, dirtyTx') = TxPlace(i, dirtyTx) - 1
      BY <1>0, <2>1, <2>2, <2>6, TxNextFacts
    <3>3. TxPlace(i, dirtyTx) \in 0..(TxRing - 1)
      BY <1>0, TxFacts
    <3> QED
      BY <2>5, <2>7, <3>1, <3>2, <3>3, LinuxAssumption
  <2> HIDE DEF Delta
  <2> QED
    BY <2>2, <2>4, <2>5, <2>6, <2>8 DEF OffIsSeen, TxPlace
<1>15. CASE TxReaped
  <2>1. pc = "tx" /\ Reaped /\ UNCHANGED chip /\ GoOn(csr0 \ {"TINT"}, mustRestart)
    BY <1>15 DEF TxReaped, Reaped
  <2>2. SUFFICES ASSUME chip.on, ~chip.txon
                 PROVE  mustRestart' /\ pc' \in {"miss", "restart"}
    BY <2>1 DEF OffIsSeen
  <2>3. mustRestart
    <3>1. \A i \in TxEntries : TxPlace(i, dirtyTx) < Delta => tx[i].own
      BY <1>0, <2>1, <2>2, TailOwned
    <3> QED
      BY <1>0, <2>2, <3>1 DEF OffIsSeen, TxPlace
  <2> QED
    BY <1>0, <2>1, <2>3 DEF GoOn, HandlerCauses
<1>16. CASE ChipSends
  <2>1. PICK at \in TxEntries : at = chip.txd
    BY <1>0 DEF LinuxTypeOK
  <2>2. PICK uflo \in BOOLEAN :
          /\ tx' = [tx EXCEPT ![at] = [@ EXCEPT !.own = FALSE, !.uflo = uflo]]
          /\ chip' = Raise([chip EXCEPT !.txd = (@ + 1) % TxRing, !.txon = ~uflo], "TINT")
    BY <1>16, <2>1 DEF ChipSends
  <2>3. chip.on /\ tx[at].own /\ UNCHANGED <<curTx, dirtyTx>>
    BY <1>16, <2>1 DEF ChipSends, ChipOnly
  <2>4. chip'.txon = ~uflo /\ "TINT" \in chip'.bits
    BY <1>0, <2>2 DEF Raise, LinuxTypeOK
  <2>5. ~tx'[at].own /\ tx'[at].uflo = uflo
    BY <1>0, <2>2 DEF LinuxTypeOK, TxEntry
  <2>6. TxPlace(at, dirtyTx') < Delta'
    <3>1. PICK sent \in 0..Delta : TxSplit(sent)
      BY <1>0, <2>3, TxSplitIn
    <3> QED
      BY <2>3, <3>1 DEF TxSplit, Delta
  <2>7. TintPending'
    BY <2>4 DEF TintPending
  <2> HIDE DEF Delta
  <2> QED
    BY <2>4, <2>5, <2>6, <2>7 DEF OffIsSeen, TxPlace
<1>17. CASE ChipReceives
  <2>1. /\ chip.bits \subseteq chip'.bits
        /\ chip'.on = chip.on /\ chip'.txon = chip.txon
    BY <1>0, <1>17 DEF ChipReceives, Raise, LinuxTypeOK
  <2> QED
    BY <1>2, <1>17, <2>1 DEF ChipReceives, ChipOnly, handlerVars
<1> QED
  BY <1>4, <1>5, <1>6, <1>7, <1>8, <1>9, <1>10, <1>11, <1>12, <1>14, <1>15, <1>16, <1>17
  DEF LinuxNext, HandlerStep, TxTimeout, SetMulticastList

----------------------------------------------------------------------------
(* The receive ring                                                         *)

RxPlace(i, cur) == Place(i, cur, RxRing)
RxPos(cur, k) == (cur + k) % RxRing

LEMMA RxFacts ==
    ASSUME NEW cur \in RxEntries
    PROVE  /\ \A i \in RxEntries : RxPlace(i, cur) \in 0..(RxRing - 1)
           /\ \A k \in 0..(RxRing - 1) : /\ RxPos(cur, k) \in RxEntries
                                         /\ RxPlace(RxPos(cur, k), cur) = k
           /\ \A i, j \in RxEntries : RxPlace(i, cur) = RxPlace(j, cur) => i = j
           /\ RxPlace(cur, cur) = 0
<1>1. /\ RxRing \in Nat \ {0} /\ RxEntries = 0..(RxRing - 1)
      /\ cur \in 0..(2 * RxRing - 1) /\ cur % RxRing = cur
  BY LinuxAssumption DEF RxEntries
<1>2. ASSUME NEW k \in 0..(RxRing - 1)
      PROVE  RxPos(cur, k) \in RxEntries /\ RxPlace(RxPos(cur, k), cur) = k
  <2>1. (cur + k) % RxRing \in 0..(RxRing - 1)
    BY <1>1, PlaceFacts, Zenon
  <2>2. Place((cur + k) % RxRing, cur, RxRing) = k
    BY <1>1, PlaceFacts
  <2> QED
    BY <2>1, <2>2, Zenon DEF RxPlace, RxPos, RxEntries
<1>3. /\ \A i \in RxEntries : RxPlace(i, cur) \in 0..(RxRing - 1)
      /\ \A i, j \in RxEntries : RxPlace(i, cur) = RxPlace(j, cur) => i = j
  BY <1>1, PlaceFacts, Zenon DEF RxPlace, RxEntries
<1>4. RxPlace(cur, cur) = 0
  BY <1>1, PlaceFacts, Zenon DEF RxPlace
<1> QED
  BY <1>2, <1>3, <1>4

\* When cur_rx goes on, and when the chip does.
LEMMA RxNextFacts ==
    ASSUME NEW cur \in RxEntries, NEW next \in RxEntries, next = (cur + 1) % RxRing
    PROVE  /\ \A i \in RxEntries :
                  RxPlace(i, next) = IF i = cur THEN RxRing - 1 ELSE RxPlace(i, cur) - 1
           /\ \A k \in 1..RxRing : RxPos(next, k - 1) = RxPos(cur, k)
<1>1. /\ RxRing \in Nat \ {0} /\ RxEntries = 0..(RxRing - 1)
      /\ cur \in 0..(2 * RxRing - 1) /\ next \in 0..(2 * RxRing - 1)
      /\ cur % RxRing = cur
  BY LinuxAssumption DEF RxEntries
<1>2. next % RxRing = (cur + 1) % RxRing
  <2>1. next % RxRing = next
    BY LinuxAssumption DEF RxEntries
  <2> QED
    BY <2>1
<1>3. /\ \A i \in 0..(RxRing - 1) :
             Place(i, next, RxRing) = IF i = cur % RxRing THEN RxRing - 1
                                      ELSE Place(i, cur, RxRing) - 1
      /\ \A k \in 1..RxRing : (next + (k - 1)) % RxRing = (cur + k) % RxRing
  BY <1>1, <1>2, PlaceNext, Zenon
<1> QED
  BY <1>1, <1>3, Zenon DEF RxPlace, RxPos

LEMMA RxPosNext ==
    ASSUME NEW cur \in RxEntries, NEW k \in 0..(RxRing - 1)
    PROVE  (RxPos(cur, k) + 1) % RxRing = RxPos(cur, k + 1)
<1>1. PICK a \in 0..(2 * RxRing - 2) : a = cur + k
  BY LinuxAssumption DEF RxEntries
<1>2. cur + (k + 1) = a + 1
  BY <1>1, LinuxAssumption DEF RxEntries
<1>3. CASE a < RxRing
  <2>1. a \in Nat /\ RxRing \in Nat \ {0} /\ a < RxRing
    BY <1>3, LinuxAssumption
  <2>2. a % RxRing = a
    BY <2>1
  <2> QED
    BY <1>1, <1>2, <2>2 DEF RxPos
<1>4. CASE RxRing <= a
  <2>1. a % RxRing = a - RxRing
    BY <1>4, LinuxAssumption
  <2>2. PICK b \in Nat : b = a - RxRing + 1 /\ b < RxRing /\ a + 1 = b + RxRing
    BY <1>4, LinuxAssumption
  <2>3. RxRing \in Nat \ {0}
    BY LinuxAssumption
  <2>4. b % RxRing = b /\ (b + RxRing) % RxRing = b
    BY <2>2, <2>3
  <2> QED
    BY <1>1, <1>2, <2>1, <2>2, <2>4 DEF RxPos
<1> QED
  BY <1>3, <1>4, LinuxAssumption

RxSplit(unread) ==
    /\ chip.rxd = RxPos(curRx, unread)
    /\ \A i \in RxEntries : rx[i].own <=> RxPlace(i, curRx) >= unread

RxRingInv == LinuxRxInStep /\ SqueezeSeen

LEMMA RxSplitIn ==
    ASSUME LinuxRxInStep, chip.on
    PROVE  \E unread \in 0..RxRing : RxSplit(unread)
  BY DEF LinuxRxInStep, RxSplit, RxPlace, RxPos

LEMMA RxSplitOut ==
    ASSUME NEW unread \in 0..RxRing, RxSplit(unread)'
    PROVE  LinuxRxInStep'
  BY DEF LinuxRxInStep, RxSplit, RxPlace, RxPos

\* All entries belong to the chip, or it is off.
LEMMA RxFresh ==
    ASSUME \/ ~chip'.on
           \/ /\ curRx' = 0 /\ chip'.rxd = 0
              /\ \A i \in RxEntries : rx'[i].own
    PROVE  RxRingInv'
<1>1. CASE ~chip'.on
  BY <1>1 DEF RxRingInv, LinuxRxInStep, SqueezeSeen
<1>2. CASE curRx' = 0 /\ chip'.rxd = 0 /\ \A i \in RxEntries : rx'[i].own
  <2>1. 0 \in RxEntries /\ \A i \in RxEntries : RxPlace(i, 0) \in 0..(RxRing - 1)
    BY RingFacts, RxFacts
  <2>2. RxPos(0, 0) = 0
    BY LinuxAssumption DEF RxPos
  <2>3. RxSplit(0)'
    BY <1>2, <2>1, <2>2, LinuxAssumption DEF RxSplit
  <2>4. 0 \in 0..RxRing
    BY LinuxAssumption
  <2>5. LinuxRxInStep'
    BY <2>3, <2>4, RxSplitOut
  <2> QED
    BY <1>2, <2>1, <2>5 DEF RxRingInv, SqueezeSeen
<1> QED
  BY <1>1, <1>2

LEMMA RxFilled ==
    ASSUME LinuxTypeOK, NEW i \in RxEntries
    PROVE  FillRx(RxRing)[i].own
  BY LinuxAssumption DEF FillRx, RxEntries

LEMMA RxRestart ==
    ASSUME LinuxTypeOK, NEW inea \in BOOLEAN, Restart(inea)
    PROVE  RxRingInv'
<1>1. \/ chip' = Stopped
      \/ chip' = Started(inea) /\ rx' = FillRx(RxRing)
  BY DEF Restart
<1>2. curRx' = 0
  BY DEF Restart, CountersToZero
<1> QED
  BY <1>1, <1>2, RxFilled, RxFresh DEF Stopped, Started

\* The ring is left alone.
LEMMA RxKept ==
    ASSUME RxRingInv, UNCHANGED <<rx, curRx>>,
           chip'.on => chip.on /\ chip'.rxd = chip.rxd,
           "RINT" \in chip.bits => "RINT" \in chip'.bits \/ pc' = "rx",
           pc = "rx" => pc' = "rx"
    PROVE  RxRingInv'
  BY DEF RxRingInv, LinuxRxInStep, SqueezeSeen

\* A frame leaves the ring, and its entry goes back to the chip.
LEMMA RxGiveBack ==
    ASSUME LinuxTypeOK, LinuxTypeOK', RxRingInv, GiveBack, ~rx[curRx].own, UNCHANGED chip
    PROVE  RxRingInv'
<1>0. /\ curRx \in RxEntries /\ curRx' \in RxEntries /\ curRx' = (curRx + 1) % RxRing
      /\ rx'[curRx].own
      /\ \A i \in RxEntries : i # curRx => rx'[i] = rx[i]
  BY DEF LinuxTypeOK, GiveBack, RxEntry
<1>1. SqueezeSeen'
  BY <1>0 DEF SqueezeSeen
<1>2. SUFFICES ASSUME chip.on PROVE LinuxRxInStep'
  BY <1>1 DEF RxRingInv, LinuxRxInStep
<1>3. PICK unread \in 0..RxRing : RxSplit(unread)
  BY <1>2, RxSplitIn DEF RxRingInv
<1>4. \A i \in RxEntries : RxPlace(i, curRx) \in 0..(RxRing - 1)
  BY <1>0, RxFacts
<1>5. unread \in 1..RxRing
  <2>1. RxPlace(curRx, curRx) = 0
    BY <1>0, RxFacts
  <2> QED
    BY <1>0, <1>3, <2>1, LinuxAssumption DEF RxSplit
<1>6. chip'.rxd = RxPos(curRx', unread - 1)
  BY <1>0, <1>3, <1>5, RxNextFacts DEF RxSplit
<1>7. ASSUME NEW i \in RxEntries
      PROVE  rx'[i].own <=> RxPlace(i, curRx') >= unread - 1
  <2>1. RxPlace(i, curRx') = IF i = curRx THEN RxRing - 1 ELSE RxPlace(i, curRx) - 1
    BY <1>0, RxNextFacts
  <2>2. CASE i = curRx
    BY <1>0, <1>5, <2>1, <2>2, LinuxAssumption
  <2>3. CASE i # curRx
    <3>1. rx[i].own <=> RxPlace(i, curRx) >= unread
      BY <1>3 DEF RxSplit
    <3>2. RxPlace(i, curRx) >= unread <=> RxPlace(i, curRx) - 1 >= unread - 1
      BY <1>4, <1>5
    <3> QED
      BY <1>0, <2>1, <2>3, <3>1, <3>2
  <2> QED
    BY <2>2, <2>3
<1>8. RxSplit(unread - 1)' /\ unread - 1 \in 0..RxRing
  BY <1>5, <1>6, <1>7, LinuxAssumption DEF RxSplit
<1> QED
  BY <1>8, RxSplitOut

\* A frame comes in.
LEMMA RxReceives ==
    ASSUME LinuxTypeOK, LinuxTypeOK', RxRingInv, ChipReceives
    PROVE  RxRingInv'
<1>0. chip.on /\ curRx \in RxEntries /\ UNCHANGED <<curRx, pc>>
  BY DEF ChipReceives, ChipOnly, LinuxTypeOK, handlerVars
<1>1. CASE ~rx[chip.rxd].own
  <2>1. chip'.on = chip.on /\ chip'.rxd = chip.rxd /\ chip.bits \subseteq chip'.bits
    BY <1>1 DEF ChipReceives, Raise, LinuxTypeOK
  <2> QED
    BY <1>0, <1>1, <2>1, RxKept DEF ChipReceives
<1>2. CASE rx[chip.rxd].own
  <2>1. PICK at \in RxEntries : at = chip.rxd
    BY DEF LinuxTypeOK
  <2>2. /\ chip'.rxd = (at + 1) % RxRing /\ "RINT" \in chip'.bits
        /\ ~rx'[at].own
        /\ \A i \in RxEntries : i # at => rx'[i] = rx[i]
    <3>1. /\ rx' = [rx EXCEPT ![at].own = FALSE]
          /\ chip' = [chip EXCEPT !.rxd = (at + 1) % RxRing,
                                  !.bits = chip.bits \cup {"RINT"}]
      BY <1>2, <2>1 DEF ChipReceives, Raise
    <3>2. chip'.rxd = (at + 1) % RxRing /\ "RINT" \in chip'.bits
      BY <3>1 DEF LinuxTypeOK
    <3>3. ~rx'[at].own /\ \A i \in RxEntries : i # at => rx'[i] = rx[i]
      BY <2>1, <3>1 DEF LinuxTypeOK, RxEntry
    <3> QED
      BY <3>2, <3>3
  <2>3. PICK unread \in 0..RxRing : RxSplit(unread)
    BY <1>0, RxSplitIn DEF RxRingInv
  <2>4. \A i \in RxEntries : RxPlace(i, curRx) \in 0..(RxRing - 1)
    BY <1>0, RxFacts
  <2>5. unread \in 0..(RxRing - 1)
    BY <1>2, <2>1, <2>3, <2>4, LinuxAssumption DEF RxSplit
  <2>6. at = RxPos(curRx, unread) /\ RxPlace(at, curRx) = unread
    BY <1>0, <2>1, <2>3, <2>5, RxFacts DEF RxSplit
  <2>7. chip'.rxd = RxPos(curRx', unread + 1)
    BY <1>0, <2>2, <2>5, <2>6, RxPosNext
  <2>8. ASSUME NEW i \in RxEntries
        PROVE  rx'[i].own <=> RxPlace(i, curRx) >= unread + 1
    <3>1. CASE i = at
      BY <2>2, <2>5, <2>6, <3>1, LinuxAssumption
    <3>2. CASE i # at
      <4>1. RxPlace(i, curRx) # unread
        BY <1>0, <2>1, <2>6, <3>2, RxFacts
      <4>2. RxPlace(i, curRx) >= unread <=> RxPlace(i, curRx) >= unread + 1
        BY <2>4, <2>5, <4>1
      <4>3. rx[i].own <=> RxPlace(i, curRx) >= unread
        BY <2>3 DEF RxSplit
      <4> QED
        BY <2>2, <3>2, <4>2, <4>3
    <3> QED
      BY <3>1, <3>2
  <2>9. RxSplit(unread + 1)' /\ unread + 1 \in 0..RxRing
    BY <1>0, <2>5, <2>7, <2>8, LinuxAssumption DEF RxSplit
  <2> QED
    BY <2>2, <2>9, RxSplitOut DEF RxRingInv, SqueezeSeen
<1> QED
  BY <1>1, <1>2

\* The count of pcnet32_rx finds a full ring full.
LEMMA UnreadFull ==
    ASSUME LinuxTypeOK, \A i \in RxEntries : ~rx[i].own
    PROVE  Squeezed
<1> DEFINE Counted(n) == /\ \A i \in 0..(n - 1) : ~rx[(curRx + i) % RxRing].own
                         /\ n = RxRing \/ rx[(curRx + n) % RxRing].own
<1>1. curRx \in RxEntries
  BY DEF LinuxTypeOK
<1>2. \A i \in 0..(RxRing - 1) : ~rx[(curRx + i) % RxRing].own
  BY <1>1, RxFacts DEF RxPos
<1>3. Counted(RxRing) /\ RxRing \in 0..RxRing
  BY <1>2, LinuxAssumption
<1>4. Unread \in 0..RxRing /\ Counted(Unread)
  <2>1. \E n \in 0..RxRing : Counted(n)
    BY <1>3
  <2>2. Unread = CHOOSE n \in 0..RxRing : Counted(n)
    BY DEF Unread
  <2> HIDE DEF Counted
  <2> QED
    BY <2>1, <2>2
<1>5. Unread = RxRing
  <2>1. ASSUME Unread # RxRing
        PROVE  FALSE
    <3>1. rx[(curRx + Unread) % RxRing].own
      BY <1>4, <2>1
    <3>2. Unread \in 0..(RxRing - 1)
      BY <1>4, <2>1, LinuxAssumption
    <3> QED
      BY <1>2, <3>1, <3>2, Zenon
  <2> QED
    BY <2>1
<1> QED
  BY <1>5, LinuxAssumption DEF Squeezed

\* The receive ring and the chip stay in step, and the chip is left without an
\* entry only with its interrupt on the way.
LEMMA RxRingNext ==
    ASSUME LinuxInv, LinuxTypeOK', TrafficInv, LinuxNext
    PROVE  RxRingInv'
<1>0. LinuxTypeOK /\ LineAndChip /\ RxRingInv
  BY DEF LinuxInv, TrafficInv, RxRingInv
<1>1. CASE Appears \/ Disappears \/ CloseFree
  BY <1>0, <1>1, RxFresh DEF Appears, Disappears, CloseFree, LineAndChip
<1>2. CASE Open \/ TestEnd
  <2>1. ~chip.on
    BY <1>0, <1>2 DEF Open, TestEnd, LineAndChip
  <2>2. CASE OpenSucceeds
    BY <1>0, <2>2, RxFilled, RxFresh DEF OpenSucceeds, CountersToZero, Started
  <2>3. CASE OpenRefused \/ OpenNoBuffers \/ UNCHANGED chip
    BY <2>1, <2>3, RxFresh DEF OpenRefused, OpenNoBuffers, Stopped
  <2> QED
    BY <1>2, <2>2, <2>3 DEF Open, TestEnd
<1>3. CASE StartXmit
  <2>1. chip'.on = chip.on /\ chip'.rxd = chip.rxd /\ chip'.bits = chip.bits
    BY <1>0, <1>3 DEF StartXmit, LinuxTypeOK
  <2> QED
    BY <1>0, <1>3, <2>1, RxKept DEF StartXmit, handlerVars
<1>4. CASE StopAndRestart \/ UnderflowRestart
  BY <1>0, <1>4, RxRestart DEF StopAndRestart, UnderflowRestart
<1>5. CASE CloseQueue \/ SelfTest
  BY <1>0, <1>5, RxKept DEF CloseQueue, SelfTest, ringVars, handlerVars
<1>6. CASE CloseStop \/ TestFrames
  BY <1>6, RxFresh DEF CloseStop, TestFrames, Stopped
<1>7. CASE IrqEnter \/ IrqLoop
  <2>1. PICK left \in Int : IrqRead(left)
    BY <1>7, LinuxAssumption DEF IrqEnter, IrqLoop, LinuxInv, LinuxTypeOK
  <2>2. chip'.on = chip.on /\ chip'.rxd = chip.rxd
    BY <1>0, <2>1 DEF IrqRead, LinuxTypeOK
  <2>3. "RINT" \in chip.bits => pc' = "rx"
    BY <2>1 DEF IrqRead, GoOn
  <2>4. pc # "rx"
    BY <1>7 DEF IrqEnter, IrqLoop, LockFree
  <2> QED
    BY <1>0, <2>1, <2>2, <2>3, <2>4, RxKept DEF IrqRead, ringVars
<1>8. CASE IrqReturn
  <2>1. chip'.on = chip.on /\ chip'.rxd = chip.rxd /\ chip'.bits = chip.bits
    BY <1>0, <1>8 DEF IrqReturn, InterruptsOn, LinuxTypeOK
  <2> QED
    BY <1>0, <1>8, <2>1, RxKept DEF IrqReturn, ringVars
<1>9. CASE RxFrame \/ RxSqueeze \/ RxEmpty
  <2>1. UNCHANGED chip
    BY <1>9 DEF RxFrame, RxSqueeze, RxEmpty, RxUnchanged
  <2>2. CASE GiveBack /\ ~rx[curRx].own
    BY <1>0, <2>1, <2>2, RxGiveBack
  <2>3. CASE UNCHANGED <<rx, curRx>> /\ \E i \in RxEntries : rx[i].own
    BY <1>0, <2>1, <2>3 DEF RxRingInv, LinuxRxInStep, SqueezeSeen
  <2>4. CASE RxFrame
    BY <2>2, <2>4 DEF RxFrame
  <2>5. CASE RxSqueeze
    <3>1. ~Squeezed => \E i \in RxEntries : rx[i].own
      BY <1>0, UnreadFull
    <3> QED
      BY <2>2, <2>3, <2>5, <3>1 DEF RxSqueeze
  <2>6. CASE RxEmpty
    BY <1>0, <2>3, <2>6 DEF RxEmpty, LinuxTypeOK
  <2> QED
    BY <1>9, <2>4, <2>5, <2>6
<1>10. CASE TxReap \/ TxReaped
  <2>1. pc = "tx" /\ UNCHANGED <<rx, curRx, chip>>
    BY <1>10 DEF TxReap, TxReaped, Reaped
  <2> QED
    BY <1>0, <2>1, RxKept
<1>11. CASE ChipSends
  <2>1. /\ chip'.on = chip.on /\ chip'.rxd = chip.rxd
        /\ chip.bits \subseteq chip'.bits
    BY <1>0, <1>11 DEF ChipSends, Raise, LinuxTypeOK
  <2> QED
    BY <1>0, <1>11, <2>1, RxKept DEF ChipSends, ChipOnly, handlerVars
<1>12. CASE ChipReceives
  BY <1>0, <1>12, RxReceives
<1> QED
  BY <1>1, <1>2, <1>3, <1>4, <1>5, <1>6, <1>7, <1>8, <1>9, <1>10, <1>11, <1>12
  DEF LinuxNext, HandlerStep, TxTimeout, SetMulticastList

----------------------------------------------------------------------------
(* The invariant and what it says                                           *)

\* The transmit ring through every step.
LEMMA TxRingNext ==
    ASSUME LinuxInv, LinuxTypeOK', TrafficInv, LinuxNext
    PROVE  TxRingInv'
<1>0. LinuxTypeOK /\ LineAndChip /\ ChipRuns /\ TxRingInv
  BY DEF LinuxInv, TrafficInv, TxRingInv
<1>1. CASE \/ Appears \/ Disappears \/ Open \/ StopAndRestart
           \/ CloseQueue \/ CloseStop \/ CloseFree \/ SelfTest
           \/ TestFrames \/ TestEnd
  BY <1>0, <1>1, TxCalls
<1>2. CASE StartXmit
  BY <1>0, <1>2, TxXmit
<1>3. CASE ChipSends
  BY <1>0, <1>3, TxSends
<1>4. CASE TxReap \/ TxReaped
  <2>1. chip.on
    BY <1>0, <1>4 DEF LineAndChip, ChipRuns, TxReap, TxReaped, Reaped
  <2> QED
    BY <1>0, <1>4, <2>1, TxReapStep, TxReapedStep
<1>5. CASE UnderflowRestart
  BY <1>0, <1>5, TxRestart DEF UnderflowRestart
<1>6. CASE IrqEnter \/ IrqLoop \/ IrqReturn
  <2>1. /\ chip'.on = chip.on /\ chip'.txd = chip.txd
        /\ UNCHANGED <<tx, curTx, dirtyTx, life, awake>>
    BY <1>0, <1>6 DEF IrqEnter, IrqLoop, IrqRead, IrqReturn, InterruptsOn, ringVars,
                      LinuxTypeOK
  <2> QED
    BY <1>0, <2>1, TxKept
<1>7. CASE RxFrame \/ RxSqueeze \/ RxEmpty
  BY <1>0, <1>7, TxKept DEF RxFrame, RxSqueeze, RxEmpty, RxUnchanged
<1>8. CASE ChipReceives
  <2>1. chip'.on = chip.on /\ chip'.txd = chip.txd
    BY <1>0, <1>8 DEF ChipReceives, Raise, LinuxTypeOK
  <2> QED
    BY <1>0, <1>8, <2>1, TxKept DEF ChipReceives, ChipOnly
<1> QED
  BY <1>1, <1>2, <1>3, <1>4, <1>5, <1>6, <1>7, <1>8
  DEF LinuxNext, HandlerStep, TxTimeout, SetMulticastList

LEMMA TrafficInit == LinuxInit => TrafficInv
<1> SUFFICES ASSUME LinuxInit PROVE TrafficInv
  OBVIOUS
<1>1. ~chip.on /\ ~irq /\ ~awake /\ pc = "idle" /\ csr0 = {} /\ life = "absent"
  BY DEF LinuxInit, Stopped
<1>2. \A i \in TxEntries : tx[i].skb # "packet"
  BY DEF LinuxInit, TxMemory, NoTx
<1> QED
  BY <1>1, <1>2
  DEF TrafficInv, ChipRuns, HandlerCauses, TxInStep, PacketsHaveBase, AwakeMeansRoom,
      OffIsSeen, StoppedWaits, LinuxRxInStep, SqueezeSeen

LEMMA TrafficNext ==
    LinuxInv /\ LinuxInv' /\ TrafficInv /\ [LinuxNext]_linuxVars => TrafficInv'
<1> SUFFICES ASSUME LinuxInv, LinuxInv', TrafficInv, [LinuxNext]_linuxVars
             PROVE  TrafficInv'
  OBVIOUS
<1>1. CASE LinuxNext
  <2>1. LinuxTypeOK' /\ ChipRuns /\ HandlerCauses
    BY DEF LinuxInv, TrafficInv
  <2>2. ChipRuns' /\ HandlerCauses'
    BY <1>1, <2>1, ChipRunsNext, HandlerCausesNext
  <2>3. TxRingInv' /\ RxRingInv' /\ OffIsSeen' /\ StoppedWaits'
    BY <1>1, <2>1, TxRingNext, RxRingNext, OffIsSeenNext, StoppedWaitsNext
  <2> QED
    BY <2>2, <2>3 DEF TrafficInv, TxRingInv, RxRingInv
<1>2. CASE UNCHANGED linuxVars
  BY <1>2
  DEF linuxVars, ringVars, handlerVars, TrafficInv, ChipRuns, HandlerCauses, LockFree,
      TxInStep, Delta, PacketsHaveBase, AwakeMeansRoom, OffIsSeen, StoppedWaits,
      TintPending, LinuxRxInStep, SqueezeSeen
<1> QED
  BY <1>1, <1>2

THEOREM TrafficInvariant == LinuxSpec => []TrafficInv
<1>1. LinuxSpec => []LinuxInv
  BY LinuxInvariant
<1> QED
  BY <1>1, TrafficInit, TrafficNext, PTL DEF LinuxSpec

\* dirty_tx, the chip and cur_tx follow each other round the transmit ring,
\* and the descriptors between them say so, through restarts and underflows.
THEOREM TxStaysInStep == LinuxSpec => []TxInStep
<1>1. TrafficInv => TxInStep
  BY DEF TrafficInv
<1> QED
  BY <1>1, TrafficInvariant, PTL

\* start_xmit, which does not look, never finds a packet in its entry.
THEOREM NoOverwrite == LinuxSpec => []AwakeMeansRoom
<1>1. TrafficInv => AwakeMeansRoom
  BY DEF TrafficInv
<1> QED
  BY <1>1, TrafficInvariant, PTL

\* cur_rx and the chip enclose exactly the frames not looked at.
THEOREM RxStaysInStep == LinuxSpec => []LinuxRxInStep
<1>1. TrafficInv => LinuxRxInStep
  BY DEF TrafficInv
<1> QED
  BY <1>1, TrafficInvariant, PTL

\* The receive ring never ends up full with no interrupt to empty it.
THEOREM ReceiverNotWedged == LinuxSpec => []NeverWedged
<1>1. TrafficInv => NeverWedged
  BY DEF TrafficInv, NeverWedged, SqueezeSeen, ChipRuns, LockFree
<1> QED
  BY <1>1, TrafficInvariant, PTL

\* A stopped queue never depends on the watchdog of the stack.
THEOREM StoppedQueueWaits == LinuxSpec => []QueueWaits
<1>1. TrafficInv => QueueWaits
  <2> SUFFICES ASSUME TrafficInv, life = "up", irq, ~awake, LockFree
               PROVE  /\ txFull /\ chip.on /\ chip.inea
                      /\ \/ "TINT" \in chip.bits
                         \/ chip.txon /\ \E i \in TxEntries : tx[i].own
    BY DEF QueueWaits
  <2>1. chip.on /\ chip.inea
    BY DEF TrafficInv, ChipRuns
  <2>2. txFull /\ (TintPending \/ \E i \in TxEntries : tx[i].own)
    BY DEF TrafficInv, StoppedWaits
  <2>3. TintPending => "TINT" \in chip.bits
    BY DEF TintPending, LockFree
  <2>4. chip.txon \/ "TINT" \in chip.bits
    BY <2>1, <2>3 DEF TrafficInv, OffIsSeen, LockFree
  <2> QED
    BY <2>1, <2>2, <2>3, <2>4
<1> QED
  BY <1>1, TrafficInvariant, PTL
=============================================================================
