--------------------------- MODULE PCNetTxProofs ---------------------------
(* Theorems about the transmit ring, for every ring size, every number of   *)
(* packets and every bound on the environment.                              *)
EXTENDS PCNetTx, TLAPS

----------------------------------------------------------------------------
(* Ring arithmetic.                                                         *)

\* A ring position k places on is a ring position; none and a full turn of
\* places lead back; one step of LNC_INC_MD_PTR is one place.
LEMMA AddFacts ==
    ASSUME NEW i \in Idx
    PROVE  /\ \A k \in 0 .. NTx : Add(i, k) \in Idx
           /\ Add(i, 0) = i
           /\ Add(i, NTx) = i
           /\ Inc(i) \in Idx
           /\ \A k \in 0 .. NTx - 1 : Inc(Add(i, k)) = Add(i, k + 1)
           /\ \A k \in 0 .. NTx - 1 : Add(Inc(i), k) = Add(i, k + 1)
           /\ Steps(i, Inc(i)) = 1
  BY TxAssumption DEF Idx, Add, Inc, Steps

\* The first fact again for a distance below a full turn.
LEMMA AddBelow ==
    ASSUME NEW i \in Idx, NEW k \in 0 .. NTx - 1
    PROVE  Add(i, k) \in Idx
  BY TxAssumption DEF Idx, Add

\* Different distances below a full turn lead to different descriptors.
LEMMA AddInjective ==
    ASSUME NEW i \in Idx, NEW k \in 0 .. NTx - 1, NEW l \in 0 .. NTx - 1,
           Add(i, k) = Add(i, l)
    PROVE  k = l
  BY TxAssumption DEF Idx, Add

\* Every descriptor is at some distance below a full turn.
LEMMA AddOnto ==
    ASSUME NEW i \in Idx, NEW j \in Idx
    PROVE  \E k \in 0 .. NTx - 1 : j = Add(i, k)
  <1>1. CASE i <= j
    <2>1. j - i \in 0 .. NTx - 1 /\ j = Add(i, j - i)
      BY <1>1, TxAssumption DEF Idx, Add
    <2> QED  BY <2>1
  <1>2. CASE j < i
    <2>1. j - i + NTx \in 0 .. NTx - 1 /\ j = Add(i, j - i + NTx)
      BY <1>2, TxAssumption DEF Idx, Add
    <2> QED  BY <2>1
  <1> QED  BY <1>1, <1>2 DEF Idx

\* The library's minimum of a set of numbers, where it is known.
LEMMA MinIs ==
    ASSUME NEW S \in SUBSET Nat, NEW m \in S, \A x \in S : m <= x
    PROVE  Min(S) = m
  <1>1. \A x \in S : (\A y \in S : x <= y) => x = m
    <2> SUFFICES ASSUME NEW x \in S, \A y \in S : x <= y
                 PROVE  x = m
      OBVIOUS
    <2>1. x <= m /\ m <= x /\ x \in Nat /\ m \in Nat
      OBVIOUS
    <2> QED  BY <2>1
  <1>2. Min(S) \in S /\ \A y \in S : Min(S) <= y
    BY DEF Min
  <1> QED  BY <1>1, <1>2

----------------------------------------------------------------------------
(* The invariant TxInv.                                                     *)

\* The ring right after lnc_init.
FreshRing ==
    /\ trans = [i \in Idx |-> Free]
    /\ trans_next = 0
    /\ next_to_send = 0
    /\ pending_transmits = 0
    /\ txd = 0
    /\ ~tintDue
    /\ pc \in {"idle", "read"}
    /\ "TINT" \notin csr0

\* There is nothing in it, so nothing to be ahead of.
LEMMA FreshRingInStep == FreshRing /\ TxTypeOK => TxInv
  <1> SUFFICES ASSUME FreshRing, TxTypeOK PROVE TxInv
    OBVIOUS
  <1> USE DEF FreshRing
  <1>1. 0 \in Idx
    BY TxAssumption DEF Idx
  <1>2. ASSUME NEW k \in 0 .. NTx - 1
        PROVE  DescriptorAt(0, k)
    <2>1. Add(0, k) \in Idx
      BY <1>1, AddBelow
    <2>2. trans[Add(0, k)].status = {}
      BY <2>1 DEF Free
    <2> QED  BY <2>2, TxAssumption DEF DescriptorAt
  <1>3. InStep(0)
    BY <1>1, <1>2, AddFacts DEF InStep, TintMeansDone
  <1>4. 0 \in 0 .. NTx
    BY TxAssumption
  <1> QED  BY <1>1, <1>3, <1>4, AddFacts DEF TxInv

\* A step that leaves the ring and both pointers into it alone.
LEMMA RingKept ==
    ASSUME NEW done \in 0 .. NTx, InStep(done),
           UNCHANGED <<trans, trans_next, pending_transmits, txd>>,
           TintMeansDone(done)'
    PROVE  InStep(done)'
  BY DEF InStep, DescriptorAt

LEMMA TxInvInit == TxInit => TxInv
  <1> SUFFICES ASSUME TxInit PROVE TxInv
    OBVIOUS
  <1>1. TxTypeOK
    <2>1. IntrTypeOK
      BY IntrAssumption
         DEF TxInit, IntrInit, IntrTypeOK, IntrPCs, CsrInit, CsrStart,
             Csr0Bits, Latched
    <2>2. Free \in [status : SUBSET TMDFlags, pkt : 0 .. MaxPackets]
      BY TxAssumption DEF Free
    <2>3. trans \in [Idx -> [status : SUBSET TMDFlags, pkt : 0 .. MaxPackets]]
      BY <2>2 DEF TxInit
    <2>4. 0 \in Idx /\ 0 \in 0 .. NTx /\ 0 \in 0 .. MaxPackets /\ 0 \in 0 .. 0
      BY TxAssumption DEF Idx
    <2> QED  BY <2>1, <2>3, <2>4 DEF TxInit, TxTypeOK
  <1>2. pc = "idle" /\ "TINT" \notin csr0
    BY DEF TxInit, IntrInit, CsrInit, CsrStart, CsrStop
  <1> QED  BY <1>1, <1>2, FreshRingInStep DEF TxInit, FreshRing

\* What lnc_init leaves behind in the chip has no TINT in it.
LEMMA InitChipFacts ==
    ASSUME NEW ok \in InitOutcomes, InitChip(ok), IntrTypeOK
    PROVE  /\ csr0' \subseteq Csr0Bits
           /\ "TINT" \notin csr0'
           /\ initDone' \in BOOLEAN
           /\ resets' \in Nat
  BY IntrAssumption
     DEF InitChip, CsrInit, CsrStart, CsrStop, Csr0Bits, Latched, IntrTypeOK

\* A write to CSR0 keeps the register within its bits and sets no latch.
LEMMA CsrWriteFacts ==
    ASSUME NEW c \in SUBSET Csr0Bits, NEW v \in SUBSET Csr0Bits
    PROVE  /\ CsrWrite(c, v) \subseteq Csr0Bits
           /\ "TINT" \in CsrWrite(c, v) => "TINT" \in c /\ "TINT" \notin v
  BY DEF CsrWrite, Csr0Bits, Latched

----------------------------------------------------------------------------
(* Each action preserves TxInv.                                             *)

\* Outside lnc_tint and without the chip, TintMeansDone only asks that TINT
\* does not appear from nowhere and that lnc_tint is entered because of it.
LEMMA ControlStep ==
    ASSUME TxInv, TxTypeOK',
           UNCHANGED <<trans, driverTxVars, txd, tintDue>>,
           pc' \notin {"hang", "rintReset", "rintEnd"},
           \A done \in 0 .. NTx : InStep(done) => TintMeansDone(done)'
    PROVE  TxInv'
  <1>1. PICK done \in 0 .. NTx : InStep(done)
    BY DEF TxInv
  <1>2. InStep(done)'
    BY <1>1, RingKept DEF driverTxVars
  <1>3. (next_to_send = Add(trans_next, pending_transmits))'
    BY DEF TxInv, driverTxVars, Add
  <1> QED  BY <1>2, <1>3 DEF TxInv

LEMMA EnqueueInv == ASSUME TxInv, Enqueue PROVE TxInv'
  <1>1. TxTypeOK'
    BY TxAssumption
       DEF TxInv, Enqueue, TxTypeOK, IntrTypeOK, intrVars, driverTxVars
  <1> QED
    BY <1>1, ControlStep
       DEF TxInv, Enqueue, InStep, TintMeansDone, intrVars, driverTxVars

LEMMA QueueInv == ASSUME TxInv, OutputStall \/ Watchdog PROVE TxInv'
  <1>1. TxTypeOK'
    BY DEF TxInv, OutputStall, RingFull, Watchdog, TxTypeOK, IntrTypeOK, intrVars, driverTxVars
  <1> QED
    BY <1>1, ControlStep
       DEF TxInv, OutputStall, RingFull, Watchdog, InStep, TintMeansDone, intrVars, driverTxVars

LEMMA HandlerControlInv ==
    ASSUME TxInv, Aligned,
           TxIntrEnter \/ TxIntrRead \/ TxIntrReturn \/ TintTest
    PROVE  TxInv'
  <1>1. CASE TxIntrEnter \/ TxIntrRead \/ TxIntrReturn
    <2>1. TxTypeOK'
      BY <1>1
         DEF TxInv, TxIntrEnter, TxIntrRead, TxIntrReturn, IntrEnter, IntrRead,
             IntrReturn, TxTypeOK, IntrTypeOK, IntrPCs, txVars, driverTxVars,
             queueVars
    <2> QED
      BY <1>1, <2>1, ControlStep
         DEF TxInv, TxIntrEnter, TxIntrRead, TxIntrReturn, IntrEnter, IntrRead,
             IntrReturn, InStep, TintMeansDone, txVars, driverTxVars, queueVars
  <1>2. CASE TintTest
    <2>1. TxTypeOK'
      BY <1>2 DEF TxInv, TintTest, MoreDone, TxTypeOK, IntrTypeOK, IntrPCs, txVars,
                  driverTxVars, queueVars
    <2>2. ASSUME NEW done \in 0 .. NTx, InStep(done), pc' = "tint"
          PROVE  done > 0
      <3>1. pending_transmits # 0 /\ ~Has(trans_next, {"OWN"})
        BY <1>2, <2>2 DEF TintTest, MoreDone
      <3>2. SUFFICES ASSUME done = 0 PROVE FALSE
        BY TxAssumption
      <3>3. DescriptorAt(0, 0) /\ Add(trans_next, 0) = trans_next
        BY <2>2, <3>2, AddFacts, TxAssumption DEF InStep, TxInv, TxTypeOK
      <3>4. trans[trans_next].status = {"OWN", "STP", "ENP"}
        BY <3>1, <3>3, TxAssumption DEF DescriptorAt, TxInv, TxTypeOK
      <3> QED  BY <3>1, <3>4 DEF Has
    <2> QED
      BY <1>2, <2>1, <2>2, ControlStep
         DEF TxInv, TintTest, MoreDone, InStep, TintMeansDone, txVars, driverTxVars,
             queueVars
  <1> QED  BY <1>1, <1>2

\* Steps that write CSR0 and move on.
LEMMA Csr0StepInv ==
    ASSUME TxInv, Aligned,
           TxIntrAck \/ TintEnd \/ RintEnd \/ ChipEvent
    PROVE  TxInv'
  <1> DEFINE rest == <<trans, driverTxVars, queueVars, txd, tintDue, handled>>
  <1> USE DEF txVars
  <1>0. IntrTypeOK /\ csr0 \subseteq Csr0Bits /\ lcsr \subseteq Csr0Bits
    BY DEF TxInv, TxTypeOK, IntrTypeOK
  <1>t. ASSUME IntrTypeOK', lookahead' \in BOOLEAN, serviceOutputQ' \in BOOLEAN,
               UNCHANGED rest
        PROVE  TxTypeOK'
    BY <1>t DEF TxInv, TxTypeOK, driverTxVars, queueVars
  <1>1. CASE TxIntrAck
    <2>1. csr0' \subseteq Csr0Bits
          /\ ("TINT" \in csr0' => "TINT" \in csr0 /\ "TINT" \notin lcsr)
      BY <1>0, <1>1, CsrWriteFacts DEF TxIntrAck, IntrAck, AckValue
    <2>2. pc' \in {"reset", "rint", "tint", "read"}
          /\ (pc' = "tint" => "TINT" \in lcsr)
      BY <1>1 DEF TxIntrAck, IntrAck, AckValue, Dispatch, AfterRint
    <2>3. IntrTypeOK'
      BY <1>0, <1>1, <2>1, <2>2 DEF TxIntrAck, IntrAck, AckValue, IntrTypeOK, IntrPCs
    <2>4. TxTypeOK'
      BY <1>1, <1>t, <2>3 DEF TxIntrAck, TxInv, TxTypeOK
    <2>5. ASSUME NEW done \in 0 .. NTx, InStep(done)
          PROVE  TintMeansDone(done)'
      BY <1>1, <2>1, <2>2, <2>5
         DEF TxIntrAck, IntrAck, AckValue, InStep, TintMeansDone
    <2> QED
      BY <1>1, <2>2, <2>4, <2>5, ControlStep DEF TxIntrAck, TxInv
  <1>2. CASE TintEnd
    <2>1. csr0' \subseteq Csr0Bits /\ "TINT" \notin csr0'
      BY <1>0, <1>2, CsrWriteFacts DEF TintEnd, TintEndWrite, Csr0Bits, Latched
    <2>2. IntrTypeOK'
      BY <1>0, <1>2, <2>1 DEF TintEnd, TintEndWrite, IntrTypeOK, IntrPCs
    <2>3. TxTypeOK'
      BY <1>2, <1>t, <2>2 DEF TintEnd, TintEndWrite, TxInv, TxTypeOK
    <2> QED
      BY <1>2, <2>1, <2>3, ControlStep DEF TintEnd, TintEndWrite, TintMeansDone
  <1>3. CASE RintEnd
    <2>1. csr0' \subseteq Csr0Bits /\ ("TINT" \in csr0' => "TINT" \in csr0)
      BY <1>0, <1>3, CsrWriteFacts DEF RintEnd, Csr0Bits, Latched
    <2>2. pc' \in {"tint", "read"} /\ (pc' = "tint" => "TINT" \in lcsr)
      BY <1>3 DEF RintEnd, AfterRint
    <2>3. IntrTypeOK'
      BY <1>0, <1>3, <2>1, <2>2 DEF RintEnd, IntrTypeOK, IntrPCs
    <2>4. TxTypeOK'
      BY <1>3, <1>t, <2>3 DEF RintEnd, TxInv, TxTypeOK
    <2>5. ASSUME NEW done \in 0 .. NTx, InStep(done)
          PROVE  TintMeansDone(done)'
      BY <1>3, <2>1, <2>2, <2>5 DEF RintEnd, InStep, TintMeansDone
    <2> QED
      BY <1>3, <2>2, <2>4, <2>5, ControlStep DEF RintEnd
  <1>4. CASE ChipEvent
    <2>1. PICK bit \in {"MERR", "MISS", "RINT"} : ChipRaise(bit)
      BY <1>4 DEF ChipEvent
    <2>2. IntrTypeOK' /\ ("TINT" \in csr0' => "TINT" \in csr0)
      BY <1>0, <2>1, IntrAssumption
         DEF ChipRaise, IntrTypeOK, Csr0Bits, Latched
    <2>3. TxTypeOK'
      BY <1>4, <1>t, <2>2 DEF ChipEvent, TxInv, TxTypeOK
    <2>4. ASSUME NEW done \in 0 .. NTx, InStep(done)
          PROVE  TintMeansDone(done)'
      BY <2>1, <2>2, <2>4 DEF ChipRaise, InStep, TintMeansDone
    <2> QED
      BY <1>4, <2>1, <2>3, <2>4, ControlStep DEF ChipEvent, ChipRaise, TxInv
  <1> QED  BY <1>1, <1>2, <1>3, <1>4

LEMMA InitInv ==
    ASSUME TxInv, Aligned, LncReset \/ SetPromiscuousMode
    PROVE  TxInv'
  <1>1. PICK ok \in InitOutcomes :
            /\ ResetChip(ok) \/ PromiscChip(ok)
            /\ InitRing(ok)
    BY DEF LncReset, SetPromiscuousMode
  <1>2. InitChip(ok) /\ pc' \in {"idle", "read"}
    BY <1>1 DEF ResetChip, PromiscChip, ResetReturn, TxInv
  <1>3. IntrTypeOK'
    BY <1>1, <1>2, InitChipFacts, IntrAssumption
       DEF ResetChip, PromiscChip, TxInv, TxTypeOK, IntrTypeOK, IntrPCs
  <1>4. trans' \in [Idx -> [status : SUBSET TMDFlags, pkt : 0 .. MaxPackets]]
    BY <1>1, TxAssumption DEF InitRing, StalledAfterInit, Free
  <1>5. 0 \in Idx /\ 0 \in 0 .. NTx
    BY TxAssumption DEF Idx
  <1>6. TxTypeOK'
    BY <1>1, <1>3, <1>4, <1>5 DEF InitRing, StalledAfterInit, TxInv, TxTypeOK
  <1>7. FreshRing'
    BY <1>1, <1>2, InitChipFacts DEF InitRing, StalledAfterInit, FreshRing, TxInv, TxTypeOK
  <1>8. (FreshRing /\ TxTypeOK => TxInv)'
    BY FreshRingInStep, PTL
  <1> QED  BY <1>6, <1>7, <1>8

LEMMA MulticastInv == ASSUME TxInv, Aligned, SetMulticastList PROVE TxInv'
  <1>1. UNCHANGED <<trans, driverTxVars, txd, tintDue>>
    BY DEF SetMulticastList, MulticastChip, Aligned, TxInv, TxTypeOK
  <1>2. csr0' \subseteq Csr0Bits /\ "TINT" \notin csr0'
    BY DEF SetMulticastList, MulticastChip, CsrStart, CsrStop, Csr0Bits, Latched
  <1>3. TxTypeOK'
    <2>1. IntrTypeOK'
      BY <1>2, IntrAssumption
         DEF SetMulticastList, MulticastChip, TxInv, TxTypeOK, IntrTypeOK
    <2> QED
      BY <1>1, <2>1 DEF SetMulticastList, TxInv, TxTypeOK, driverTxVars, queueVars
  <1>4. ASSUME NEW done \in 0 .. NTx, InStep(done)
        PROVE  TintMeansDone(done)'
    BY <1>2, <1>4 DEF SetMulticastList, MulticastChip, TintMeansDone
  <1> QED
    BY <1>1, <1>3, <1>4, ControlStep
       DEF SetMulticastList, MulticastChip, TxInv

\* Filling the next descriptor touches the first free place and no other.
LEMMA OutputInv == ASSUME TxInv, OutputPacket PROVE TxInv'
  <1>1. PICK done \in 0 .. NTx : InStep(done)
    BY DEF TxInv
  <1>2. /\ trans_next \in Idx /\ next_to_send \in Idx
        /\ pending_transmits \in 0 .. NTx - 1
        /\ next_to_send = Add(trans_next, pending_transmits)
        /\ trans \in [Idx -> [status : SUBSET TMDFlags, pkt : 0 .. MaxPackets]]
        /\ done <= pending_transmits
    BY <1>1, TxAssumption DEF TxInv, TxTypeOK, OutputPacket, OutputWrite, RingFull, InStep
  <1>3. csr0' \subseteq Csr0Bits /\ ("TINT" \in csr0' => "TINT" \in csr0)
    BY CsrWriteFacts DEF OutputPacket, OutputWrite, RingFull, TxInv, TxTypeOK, IntrTypeOK, Csr0Bits
  <1>4. TxTypeOK'
    <2>1. IntrTypeOK'
      BY <1>3 DEF OutputPacket, OutputWrite, RingFull, TxInv, TxTypeOK, IntrTypeOK
    <2>2. accepted + 1 \in 0 .. MaxPackets /\ accepted' \in 0 .. offered'
      BY TxAssumption DEF OutputPacket, OutputWrite, RingFull, CanOutput, TxInv, TxTypeOK
    <2>3. trans' \in [Idx -> [status : SUBSET TMDFlags, pkt : 0 .. MaxPackets]]
      BY <1>2, <2>2 DEF OutputPacket, OutputWrite, RingFull, TMDFlags
    <2>4. next_to_send' \in Idx /\ pending_transmits' \in 0 .. NTx
      BY <1>2, AddFacts, TxAssumption DEF OutputPacket, OutputWrite, RingFull
    <2> QED
      BY <2>1, <2>2, <2>3, <2>4 DEF OutputPacket, OutputWrite, RingFull, TxInv, TxTypeOK
  <1>5. (next_to_send = Add(trans_next, pending_transmits))'
    BY <1>2, AddFacts DEF OutputPacket, OutputWrite, RingFull, Add
  <1>6. ASSUME NEW k \in 0 .. NTx - 1
        PROVE  DescriptorAt(done, k)'
    <2>1. DescriptorAt(done, k)
      BY <1>1 DEF InStep
    <2>2. Add(trans_next, k) \in Idx
      BY <1>2, AddBelow
    <2>3. CASE k = pending_transmits
      <3>1. trans'[Add(trans_next, k)].status = {"OWN", "STP", "ENP"}
        BY <1>2, <2>2, <2>3 DEF OutputPacket, OutputWrite, RingFull
      <3> QED
        BY <1>2, <2>3, <3>1, TxAssumption DEF DescriptorAt, OutputPacket, OutputWrite, RingFull, Add
    <2>4. CASE k # pending_transmits
      <3>1. Add(trans_next, k) # next_to_send
        BY <1>2, <2>4, AddInjective
      <3>2. trans'[Add(trans_next, k)] = trans[Add(trans_next, k)]
        BY <1>2, <2>2, <3>1 DEF OutputPacket, OutputWrite, RingFull
      <3> QED
        BY <1>2, <2>1, <2>4, <3>2 DEF DescriptorAt, OutputPacket, OutputWrite, RingFull, Add
    <2> QED  BY <2>3, <2>4
  <1>7. InStep(done)'
    BY <1>1, <1>2, <1>3, <1>6
       DEF InStep, TintMeansDone, OutputPacket, OutputWrite, RingFull, Add
  <1> QED  BY <1>4, <1>5, <1>7 DEF TxInv, OutputPacket, OutputWrite, RingFull

\* The chip's descriptor, when it owns it, is the first one not finished.
LEMMA ChipOwns ==
    ASSUME TxInv, NEW done \in 0 .. NTx, InStep(done), Has(txd, {"OWN"})
    PROVE  done < pending_transmits
  <1>1. /\ trans_next \in Idx
        /\ pending_transmits \in 0 .. NTx
        /\ txd = Add(trans_next, done)
        /\ done <= pending_transmits
    BY DEF TxInv, TxTypeOK, InStep
  <1>2. SUFFICES ASSUME done = pending_transmits PROVE FALSE
    BY <1>1, TxAssumption
  <1>3. CASE done = NTx
    <2>1. txd = Add(trans_next, 0) /\ DescriptorAt(done, 0) /\ 0 < done
      BY <1>1, <1>3, AddFacts, TxAssumption DEF InStep
    <2> QED  BY <2>1 DEF DescriptorAt, Has
  <1>4. CASE done # NTx
    <2>1. done \in 0 .. NTx - 1 /\ DescriptorAt(done, done)
      BY <1>4, TxAssumption DEF InStep
    <2>2. trans[txd].status = {}
      BY <1>1, <1>2, <2>1 DEF DescriptorAt
    <2> QED  BY <2>2 DEF Has
  <1> QED  BY <1>3, <1>4

LEMMA ChipInv == ASSUME TxInv, Aligned, ChipStep PROVE TxInv'
  <1>1. PICK done \in 0 .. NTx : InStep(done)
    BY DEF TxInv
  <1>2. PICK r \in TxResults : ChipTransmit(r)
    BY DEF ChipStep, ChipRaiseTint, TxInv
  <1>3. done < pending_transmits
    BY <1>1, <1>2, ChipOwns DEF ChipTransmit
  <1>4. /\ trans_next \in Idx
        /\ pending_transmits \in 0 .. NTx
        /\ txd \in Idx
        /\ txd = Add(trans_next, done)
        /\ done \in 0 .. NTx - 1 /\ done + 1 \in 0 .. NTx
        /\ done + 1 <= pending_transmits
        /\ trans \in [Idx -> [status : SUBSET TMDFlags, pkt : 0 .. MaxPackets]]
    BY <1>1, <1>3, TxAssumption DEF TxInv, TxTypeOK, InStep
  <1> DEFINE written == {"STP", "ENP"} \cup (IF r = "ok" THEN {} ELSE {"ERR"})
                            \cup (IF r = "uflo" THEN {"UFLO"} ELSE {})
  <1>5. trans' = [trans EXCEPT ![txd].status = written]
    BY <1>2 DEF ChipTransmit
  <1>6. /\ written \subseteq TMDFlags
        /\ {"STP", "ENP"} \subseteq written
        /\ "OWN" \notin written
    BY DEF TMDFlags
  <1> HIDE DEF written
  <1>7. TxTypeOK'
    <2>1. IntrTypeOK'
      BY <1>2 DEF ChipTransmit, TxInv, TxTypeOK, IntrTypeOK, Csr0Bits, Latched
    <2>2. trans' \in [Idx -> [status : SUBSET TMDFlags, pkt : 0 .. MaxPackets]]
      BY <1>4, <1>5, <1>6
    <2>3. txd' \in Idx /\ handled' \in 0 .. MaxPackets /\ tintDue' \in BOOLEAN
      BY <1>2, <1>4, AddFacts, TxAssumption DEF ChipTransmit
    <2> QED
      BY <1>2, <2>1, <2>2, <2>3
         DEF ChipTransmit, TxInv, TxTypeOK, driverTxVars, queueVars
  <1>8. ASSUME NEW k \in 0 .. NTx - 1
        PROVE  DescriptorAt(done + 1, k)'
    <2>1. DescriptorAt(done, k)
      BY <1>1 DEF InStep
    <2>2. Add(trans_next, k) \in Idx
      <3>1. trans_next \in Idx /\ k \in 0 .. NTx
        BY <1>4, TxAssumption
      <3> QED  BY <3>1, AddFacts
    <2>3. CASE k = done
      <3>1. trans'[Add(trans_next, k)].status = written
        BY <1>4, <1>5, <2>2, <2>3
      <3> QED
        BY <1>2, <1>3, <1>4, <1>6, <2>3, <3>1
           DEF DescriptorAt, ChipTransmit, driverTxVars, Add
    <2>4. CASE k # done
      <3>1. Add(trans_next, k) # txd
        BY <1>4, <2>4, AddInjective
      <3>2. trans'[Add(trans_next, k)] = trans[Add(trans_next, k)]
        BY <1>4, <1>5, <2>2, <3>1
      <3>3. (k < done + 1 <=> k < done) /\ (done + 1 <= k <=> done <= k)
        BY <1>4, <2>4
      <3> QED
        BY <1>2, <2>1, <3>2, <3>3
           DEF DescriptorAt, ChipTransmit, driverTxVars, Add
    <2> QED  BY <2>3, <2>4
  <1>9. InStep(done + 1)'
    <2>1. txd' = Add(trans_next', done + 1)
      BY <1>2, <1>4, AddFacts DEF ChipTransmit, driverTxVars
    <2>2. TintMeansDone(done + 1)'
      BY <1>4 DEF TintMeansDone
    <2>3. done + 1 <= pending_transmits'
      BY <1>2, <1>4 DEF ChipTransmit, driverTxVars
    <2> QED  BY <1>8, <2>1, <2>2, <2>3 DEF InStep
  <1> QED
    BY <1>2, <1>4, <1>7, <1>9
       DEF TxInv, ChipTransmit, driverTxVars, Aligned, Add

\* In step, a turn of lnc_tint finds the end of its packet at once and the
\* next packet, or free space, right behind it: one descriptor is reclaimed.
LEMMA OneDescriptor ==
    ASSUME TxInv, pc = "tint"
    PROVE  /\ ScanResult = "end"
           /\ PacketEnd = trans_next
           /\ NextStart = Inc(trans_next)
           /\ Steps(trans_next, NextStart) = 1
           /\ pending_transmits > 0
           /\ Has(trans_next, {"STP"}) /\ ~Has(trans_next, {"OWN"})
  <1>1. PICK done \in 0 .. NTx : InStep(done)
    BY DEF TxInv
  <1>2. /\ trans_next \in Idx
        /\ pending_transmits \in 0 .. NTx
        /\ next_to_send = Add(trans_next, pending_transmits)
        /\ done > 0 /\ done <= pending_transmits
    BY <1>1 DEF TxInv, TxTypeOK, InStep, TintMeansDone
  <1>3. /\ Has(trans_next, {"STP"})
        /\ ~Has(trans_next, {"OWN"})
        /\ Has(trans_next, {"ENP", "ERR"})
    <2>1. Add(trans_next, 0) = trans_next
      BY <1>2, AddFacts
    <2>2. DescriptorAt(done, 0) /\ 0 < done
      BY <1>1, <1>2, TxAssumption DEF InStep
    <2>3. {"STP", "ENP"} \subseteq trans[trans_next].status
          /\ "OWN" \notin trans[trans_next].status
      BY <2>1, <2>2 DEF DescriptorAt
    <2> QED  BY <2>3 DEF Has
  <1>4. ScanResult = "end"
    BY <1>3 DEF ScanResult
  <1>5. PacketEnd = trans_next
    <2>1. ScanStops = {0}
      BY <1>3 DEF ScanStops
    <2>2. Min({0}) = 0
      BY MinIs
    <2> QED  BY <1>2, <2>1, <2>2, AddFacts DEF PacketEnd
  <1>6. NextStart = Inc(trans_next)
    <2>1. CASE Has(PacketEnd, {"ERR"})
      <3> DEFINE stops == {k \in 1 .. NTx :
                              \/ Has(Add(PacketEnd, k), {"STP"})
                              \/ Add(PacketEnd, k) = next_to_send}
      <3>1. 1 \in stops
        <4>1. CASE pending_transmits = 1
          BY <1>2, <1>5, <4>1, TxAssumption
        <4>2. CASE pending_transmits # 1
          <5>1. 1 \in 0 .. NTx - 1 /\ 1 < pending_transmits
            BY <1>2, <4>2, TxAssumption
          <5>2. DescriptorAt(done, 1)
            BY <1>1, <5>1 DEF InStep
          <5>3. "STP" \in trans[Add(trans_next, 1)].status
            BY <1>2, <5>1, <5>2 DEF DescriptorAt
          <5> QED  BY <1>5, <5>3, TxAssumption DEF Has
        <4> QED  BY <4>1, <4>2
      <3>2. stops \in SUBSET Nat /\ \A x \in stops : 1 <= x
        BY TxAssumption
      <3>3. Min(stops) = 1
        BY <3>1, <3>2, MinIs
      <3> QED  BY <1>5, <2>1, <3>3 DEF NextStart, Inc
    <2>2. CASE ~Has(PacketEnd, {"ERR"})
      BY <1>5, <2>2 DEF NextStart
    <2> QED  BY <2>1, <2>2
  <1>7. Steps(trans_next, NextStart) = 1
    BY <1>2, <1>6, AddFacts
  <1> QED  BY <1>2, <1>3, <1>4, <1>5, <1>6, <1>7

\* So reclaiming moves trans_next on by one and clears that descriptor.
LEMMA ReclaimOne ==
    ASSUME TxInv, pc = "tint", Reclaim
    PROVE  /\ trans_next' = Inc(trans_next)
           /\ pending_transmits' = pending_transmits - 1
           /\ trans' = [i \in Idx |-> IF i = trans_next THEN Free ELSE trans[i]]
  <1>1. trans_next \in Idx
    BY DEF TxInv, TxTypeOK
  <1>2. 0 .. 1 - 1 = {0}
    OBVIOUS
  <1>3. \A i : i \in Span(trans_next, 1) <=> i = trans_next
    BY <1>1, <1>2, AddFacts DEF Span
  <1> QED  BY <1>3, OneDescriptor DEF Reclaim, Cleared

LEMMA TintInv == ASSUME TxInv, TintPacket PROVE TxInv'
  <1>0. pc = "tint"
    BY DEF TintPacket
  <1>1. PICK done \in 0 .. NTx : InStep(done)
    BY DEF TxInv
  <1>2. /\ trans_next \in Idx
        /\ pending_transmits \in 1 .. NTx
        /\ next_to_send = Add(trans_next, pending_transmits)
        /\ done > 0 /\ done <= pending_transmits
        /\ done - 1 \in 0 .. NTx - 1
        /\ trans \in [Idx -> [status : SUBSET TMDFlags, pkt : 0 .. MaxPackets]]
    BY <1>0, <1>1, TxAssumption DEF TxInv, TxTypeOK, InStep, TintMeansDone
  <1>3. CASE Has(PacketEnd, {"UFLO"})
    <2>1. pc' = "reset" /\ UNCHANGED <<csr0, lcsr, initDone, resets, events, txVars>>
      BY <1>0, <1>3, OneDescriptor DEF TintPacket
    <2>2. TxTypeOK'
      BY <2>1 DEF TxInv, TxTypeOK, IntrTypeOK, IntrPCs, txVars, driverTxVars,
                  queueVars
    <2> QED
      BY <2>1, <2>2, ControlStep
         DEF TintMeansDone, txVars, driverTxVars
  <1>4. CASE ~Has(PacketEnd, {"UFLO"})
    <2>1. Reclaim
      BY <1>0, <1>4, OneDescriptor DEF TintPacket
    <2>2. /\ trans_next' = Inc(trans_next)
          /\ pending_transmits' = pending_transmits - 1
          /\ trans' = [i \in Idx |-> IF i = trans_next THEN Free ELSE trans[i]]
      BY <1>0, <2>1, ReclaimOne
    <2>3. TxTypeOK'
      <3>1. IntrTypeOK'
        BY <2>1 DEF Reclaim, Cleared, TxInv, TxTypeOK, IntrTypeOK, IntrPCs
      <3>2. Free \in [status : SUBSET TMDFlags, pkt : 0 .. MaxPackets]
        BY TxAssumption DEF Free
      <3>3. trans' \in [Idx -> [status : SUBSET TMDFlags, pkt : 0 .. MaxPackets]]
        BY <1>2, <2>2, <3>2
      <3>4. trans_next' \in Idx /\ pending_transmits' \in 0 .. NTx
        BY <1>2, <2>2, AddFacts, TxAssumption
      <3> QED
        BY <2>1, <3>1, <3>3, <3>4 DEF Reclaim, Cleared, TxInv, TxTypeOK
    <2>4. (next_to_send = Add(trans_next, pending_transmits))'
      <3>1. pending_transmits - 1 \in 0 .. NTx - 1
            /\ (pending_transmits - 1) + 1 = pending_transmits
        BY <1>2, TxAssumption
      <3>2. Add(Inc(trans_next), pending_transmits - 1)
                = Add(trans_next, pending_transmits)
        BY <1>2, <3>1, AddFacts
      <3> QED  BY <1>2, <2>1, <2>2, <3>2 DEF Reclaim, Cleared, Add
    <2>5. ASSUME NEW k \in 0 .. NTx - 1
          PROVE  DescriptorAt(done - 1, k)'
      <3>1. trans_next' \in Idx /\ Add(trans_next', k) = Add(trans_next, k + 1)
        BY <1>2, <2>2, AddFacts
      <3>2. CASE k = NTx - 1
        <4>1. Add(trans_next', k) = trans_next
          BY <1>2, <3>1, <3>2, AddFacts, TxAssumption
        <4>2. trans'[Add(trans_next', k)].status = {}
          BY <1>2, <2>2, <4>1 DEF Free
        <4>3. ~(k < done - 1) /\ ~(k < pending_transmits')
          BY <1>2, <2>2, <3>2, TxAssumption
        <4> QED  BY <1>2, <4>2, <4>3 DEF DescriptorAt, Add
      <3>3. CASE k # NTx - 1
        <4>1. k + 1 \in 0 .. NTx - 1
          BY <3>3, TxAssumption
        <4>2. DescriptorAt(done, k + 1)
          BY <1>1, <4>1 DEF InStep
        <4>3. Add(trans_next, k + 1) # trans_next /\ Add(trans_next, k + 1) \in Idx
          <5>1. 0 \in 0 .. NTx - 1 /\ k + 1 # 0 /\ k + 1 \in 0 .. NTx
            BY <4>1, TxAssumption
          <5> QED  BY <1>2, <4>1, <5>1, AddFacts, AddInjective
        <4>4. trans'[Add(trans_next', k)] = trans[Add(trans_next, k + 1)]
          BY <2>2, <3>1, <4>3
        <4>5. /\ k < done - 1 <=> k + 1 < done
              /\ done - 1 <= k <=> done <= k + 1
              /\ k < pending_transmits' <=> k + 1 < pending_transmits
              /\ pending_transmits' <= k <=> pending_transmits <= k + 1
          BY <1>2, <2>2, TxAssumption
        <4> QED  BY <4>2, <4>4, <4>5 DEF DescriptorAt, Add
      <3> QED  BY <3>2, <3>3
    <2>6. InStep(done - 1)'
      <3>1. txd' = Add(trans_next', done - 1)
        <4>1. txd = Add(trans_next, (done - 1) + 1)
          BY <1>1, <1>2, TxAssumption DEF InStep
        <4>2. Add(Inc(trans_next), done - 1) = Add(trans_next, (done - 1) + 1)
          BY <1>2, AddFacts
        <4> QED  BY <2>1, <2>2, <4>1, <4>2 DEF Reclaim, Cleared
      <3>2. TintMeansDone(done - 1)'
        BY <2>1 DEF Reclaim, Cleared, TintMeansDone
      <3>3. done - 1 <= pending_transmits'
        BY <1>2, <2>2
      <3> QED  BY <2>5, <3>1, <3>2, <3>3 DEF InStep
    <2>7. done - 1 \in 0 .. NTx
      BY <1>2, TxAssumption
    <2> QED  BY <2>1, <2>3, <2>4, <2>6, <2>7 DEF TxInv, Reclaim, Cleared
  <1> QED  BY <1>3, <1>4

LEMMA TxInvNext == ASSUME TxInv, Aligned, [TxNext]_vars PROVE TxInv'
  <1>1. CASE UNCHANGED vars
    <2>1. TxTypeOK'
      BY <1>1 DEF TxInv, TxTypeOK, IntrTypeOK, vars, intrVars, txVars,
                  driverTxVars, queueVars
    <2> QED
      BY <1>1, <2>1, ControlStep
         DEF TxInv, InStep, TintMeansDone, vars, intrVars, txVars, driverTxVars
  <1>2. ~RintOutOfSync
    BY DEF RintOutOfSync, Aligned
  <1> QED
    BY <1>1, <1>2, EnqueueInv, QueueInv, OutputInv, InitInv, MulticastInv,
       HandlerControlInv, Csr0StepInv, TintInv, ChipInv
       DEF TxNext, HandlerStep

\* PCNet_lnc.cpp:232-246, 638-818: the driver and the chip walk the ring in
\* step, whatever the ring size and the traffic.
THEOREM TxInvariant == ASSUME Aligned PROVE TxSpec => []TxInv
  <1>1. TxInit => TxInv
    BY TxInvInit
  <1>2. TxInv /\ [TxNext]_vars => TxInv'
    BY TxInvNext
  <1> QED  BY <1>1, <1>2, PTL DEF TxSpec

\* Every variable of the transmit half keeps its type; in particular
\* pending_transmits never leaves 0 .. NTx.
THEOREM TxTypeCorrect == ASSUME Aligned PROVE TxSpec => []TxTypeOK
  <1>1. TxInv => TxTypeOK
    BY DEF TxInv
  <1> QED  BY <1>1, TxInvariant, PTL

\* The two diagnostic checks of lnc_tint (PCNet_lnc.cpp:602-619, 643) never
\* find anything.
THEOREM TintInSync == ASSUME Aligned PROVE TxSpec => []TintSync
  <1>1. TxInv => TintSync
    BY OneDescriptor DEF TintSync
  <1> QED  BY <1>1, TxInvariant, PTL

\* pending_transmits, the two ring pointers and the descriptors agree, so
\* lnc_output_packet never writes over a packet in the ring.
THEOREM AccountingCorrect == ASSUME Aligned PROVE TxSpec => []RingAccounting
  <1>1. ASSUME TxInv PROVE RingAccounting
    <2>1. PICK done \in 0 .. NTx : InStep(done)
      BY <1>1 DEF TxInv
    <2>2. ASSUME NEW k \in 0 .. NTx - 1
          PROVE  Has(Add(trans_next, k), TMDFlags) <=> k < pending_transmits
      <3>1. DescriptorAt(done, k)
        BY <2>1 DEF InStep
      <3>2. pending_transmits \in Nat /\ done <= pending_transmits
        BY <1>1, <2>1 DEF TxInv, TxTypeOK, InStep
      <3> QED
        BY <3>1, <3>2, TxAssumption DEF DescriptorAt, Has, TMDFlags
    <2> QED  BY <1>1, <2>2 DEF RingAccounting, TxInv
  <1> QED  BY <1>1, TxInvariant, PTL

----------------------------------------------------------------------------
(* The output queue.                                                        *)

\* A stalled queue waits for a full ring, or its wake-up is on the way: the
\* ring has just run empty or lnc_tint has asked for service().
StallInv ==
    stalled /\ initDone =>
        \/ pending_transmits >= NTx
        \/ pending_transmits = 0 /\ pc \in {"tintTest", "tintEnd"}
        \/ serviceOutputQ /\ pc # "idle"

LEMMA StallStep == StallInv /\ [TxNext]_vars => StallInv'
  <1> SUFFICES ASSUME StallInv, [TxNext]_vars PROVE StallInv'
    OBVIOUS
  <1> USE DEF StallInv
  <1>1. CASE Enqueue \/ OutputStall \/ OutputPacket \/ Watchdog
    BY <1>1 DEF Enqueue, OutputStall, RingFull, OutputPacket, OutputWrite, RingFull, Watchdog, CanOutput,
                intrVars, driverTxVars
  <1>2. CASE LncReset \/ SetPromiscuousMode
    BY <1>2 DEF LncReset, SetPromiscuousMode, ResetChip, PromiscChip, InitChip,
                InitRing, StalledAfterInit
  <1>3. CASE SetMulticastList
    BY <1>3 DEF SetMulticastList, MulticastChip, driverTxVars, queueVars
  <1>4. CASE TxIntrEnter \/ TxIntrRead \/ TxIntrAck \/ TxIntrReturn
    BY <1>4 DEF TxIntrEnter, TxIntrRead, TxIntrAck, TxIntrReturn, IntrEnter,
                IntrRead, IntrAck, AckValue, IntrReturn, Dispatch, AfterRint, txVars,
                driverTxVars, queueVars
  <1>5. CASE TintPacket
    <2>1. CASE Reclaim
      BY <1>5, <2>1 DEF Reclaim, Cleared
    <2>2. CASE ~Reclaim
      BY <1>5, <2>2 DEF TintPacket, ScanResult, txVars, driverTxVars, queueVars
    <2> QED  BY <2>1, <2>2
  <1>6. CASE TintTest \/ TintEnd
    BY <1>6 DEF TintTest, MoreDone, TintEnd, TintEndWrite, txVars, driverTxVars, queueVars
  <1>7. CASE RintEnd \/ RintOutOfSync
    BY <1>7 DEF RintEnd, RintOutOfSync, AfterRint, txVars, driverTxVars, queueVars
  <1>8. CASE ChipStep \/ ChipEvent
    BY <1>8 DEF ChipStep, ChipTransmit, ChipRaiseTint, ChipEvent, ChipRaise,
                txVars, driverTxVars, queueVars
  <1>9. CASE UNCHANGED vars
    BY <1>9 DEF vars, intrVars, txVars, driverTxVars, queueVars
  <1> QED
    BY <1>1, <1>2, <1>3, <1>4, <1>5, <1>6, <1>7, <1>8, <1>9
       DEF TxNext, HandlerStep

\* No service() call is ever forgotten, even with the ring out of step: an
\* idle, running driver with a stalled queue has a full ring.
THEOREM QueueWoken == TxSpec => []StalledMeansFull
  <1>1. TxInit => StallInv
    BY DEF TxInit, StallInv
  <1>2. StallInv => StalledMeansFull
    BY TxAssumption DEF StallInv, StalledMeansFull
  <1> QED  BY <1>1, <1>2, StallStep, PTL DEF TxSpec

----------------------------------------------------------------------------
(* The ring implements TxPath.                                              *)

\* What is known of the ring while TxInv holds.
LEMMA RingType ==
    ASSUME TxInv
    PROVE  /\ trans \in [Idx -> [status : SUBSET TMDFlags, pkt : 0 .. MaxPackets]]
           /\ trans_next \in Idx /\ txd \in Idx /\ next_to_send \in Idx
           /\ pending_transmits \in 0 .. NTx
           /\ accepted \in Nat
           /\ \A k \in 0 .. NTx - 1 : PktAt(k) \in Nat
  BY AddBelow, TxAssumption DEF TxInv, TxTypeOK, PktAt

\* A free place is not the chip's.
LEMMA FreeNotOwned ==
    ASSUME TxInv, NEW k \in 0 .. NTx - 1, OwnedAt(k)
    PROVE  k < pending_transmits
  <1>1. PICK done \in 0 .. NTx : DescriptorAt(done, k)
    BY DEF TxInv, InStep
  <1>2. pending_transmits \in Nat
    BY RingType
  <1> QED  BY <1>1, <1>2 DEF DescriptorAt, OwnedAt, Has

\* Accepting a packet puts it behind all others.
LEMMA OutputAt ==
    ASSUME TxInv, OutputPacket
    PROVE  /\ pending_transmits \in 0 .. NTx - 1
           /\ next_to_send = Add(trans_next, pending_transmits)
           /\ \A i \in Idx :
                  trans'[i] = IF i = next_to_send
                              THEN [status |-> {"OWN", "STP", "ENP"},
                                    pkt |-> accepted + 1]
                              ELSE trans[i]
           /\ ~Has(next_to_send, {"OWN"})
  <1>1. pending_transmits \in 0 .. NTx - 1
    BY RingType, TxAssumption DEF OutputPacket, RingFull
  <1>2. next_to_send = Add(trans_next, pending_transmits)
    BY DEF TxInv
  <1>3. ~Has(next_to_send, {"OWN"})
    BY <1>1, <1>2, FreeNotOwned DEF OwnedAt
  <1> QED  BY <1>1, <1>2, <1>3, RingType DEF OutputPacket

\* What the chip does to the ring: the descriptor at its pointer is done with.
LEMMA TransmitAt ==
    ASSUME TxInv, NEW r \in TxResults, ChipTransmit(r)
    PROVE  /\ \A i \in Idx : trans'[i].pkt = trans[i].pkt
           /\ \A i \in Idx : i # txd => trans'[i] = trans[i]
           /\ "OWN" \notin trans'[txd].status
  BY RingType DEF ChipTransmit

LEMMA OrderStep ==
    ASSUME TxInv, PacketsInOrder, Aligned, [TxNext]_vars
    PROVE  PacketsInOrder'
  <1>1. ASSUME UNCHANGED <<trans, trans_next, accepted>>
        PROVE  PacketsInOrder'
    BY <1>1 DEF PacketsInOrder, PktAt, OwnedAt, Has, Add
  <1>2. CASE OutputPacket
    <2>1. ASSUME NEW k \in 0 .. NTx - 1
          PROVE  IF k = pending_transmits THEN PktAt(k)' = accepted + 1
                 ELSE PktAt(k)' = PktAt(k) /\ (OwnedAt(k)' <=> OwnedAt(k))
      <3>1. Add(trans_next, k) \in Idx /\ Add(trans_next, k)' = Add(trans_next, k)
        BY <1>2, RingType, AddBelow DEF OutputPacket, Add
      <3>2. Add(trans_next, k) = next_to_send <=> k = pending_transmits
        BY <1>2, OutputAt, RingType, AddInjective
      <3> QED
        BY <1>2, <3>1, <3>2, OutputAt DEF PktAt, OwnedAt, Has
    <2>2. accepted' = accepted + 1 /\ accepted \in Nat
      BY <1>2, RingType DEF OutputPacket
    <2>3. ASSUME NEW k \in 0 .. NTx - 1, OwnedAt(k)'
          PROVE  /\ PktAt(k)' <= accepted'
                 /\ \A l \in 0 .. k - 1 : OwnedAt(l)' => PktAt(l)' < PktAt(k)'
      <3>1. \A l \in 0 .. k - 1 : l \in 0 .. NTx - 1 /\ PktAt(l) \in Nat
        BY RingType, TxAssumption
      <3>2. CASE k = pending_transmits
        BY <2>1, <2>2, <3>1, <3>2 DEF PacketsInOrder
      <3>3. CASE k # pending_transmits
        <4>1. OwnedAt(k) /\ PktAt(k)' = PktAt(k) /\ PktAt(k) \in Nat
          BY <2>1, <2>3, <3>3, RingType
        <4>2. k < pending_transmits
          BY <4>1, FreeNotOwned
        <4>3. \A l \in 0 .. k - 1 : l # pending_transmits
          BY <4>2, RingType
        <4> QED  BY <2>1, <2>2, <3>1, <4>1, <4>3 DEF PacketsInOrder
      <3> QED  BY <3>2, <3>3
    <2> QED  BY <2>3 DEF PacketsInOrder
  <1>3. CASE \E r \in TxResults : ChipTransmit(r)
    <2>1. ASSUME NEW k \in 0 .. NTx - 1
          PROVE  PktAt(k)' = PktAt(k) /\ (OwnedAt(k)' => OwnedAt(k))
      <3>1. Add(trans_next, k) \in Idx /\ Add(trans_next, k)' = Add(trans_next, k)
        BY <1>3, RingType, AddBelow DEF ChipTransmit, driverTxVars, Add
      <3> QED  BY <1>3, <3>1, TransmitAt DEF PktAt, OwnedAt, Has
    <2>2. accepted' = accepted
      BY <1>3 DEF ChipTransmit, queueVars
    <2>3. \A k \in 0 .. NTx - 1 : \A l \in 0 .. k - 1 : l \in 0 .. NTx - 1
      BY TxAssumption
    <2> QED  BY <2>1, <2>2, <2>3 DEF PacketsInOrder
  <1>4. CASE TintPacket
    <2>1. CASE Reclaim
      <3>1. /\ pc = "tint" /\ trans_next \in Idx
            /\ trans_next' = Inc(trans_next)
            /\ \A i \in Idx : trans'[i] = IF i = trans_next THEN Free ELSE trans[i]
            /\ accepted' = accepted
        BY <1>4, <2>1, ReclaimOne, RingType DEF TintPacket, Reclaim
      <3>2. ASSUME NEW k \in 0 .. NTx - 1
            PROVE  IF k = NTx - 1 THEN ~OwnedAt(k)'
                   ELSE PktAt(k)' = PktAt(k + 1) /\ (OwnedAt(k)' <=> OwnedAt(k + 1))
        <4>1. /\ Add(trans_next, k)' = Add(trans_next, k + 1)
              /\ Add(trans_next, k + 1) \in Idx
          <5>1. k + 1 \in 0 .. NTx
            BY TxAssumption
          <5> QED  BY <3>1, <5>1, AddFacts DEF Add
        <4>2. CASE k = NTx - 1
          BY <3>1, <4>1, <4>2, AddFacts, TxAssumption DEF OwnedAt, Has, Free
        <4>3. CASE k # NTx - 1
          <5>1. Add(trans_next, k + 1) # trans_next
            <6>1. k + 1 \in 0 .. NTx - 1 /\ 0 \in 0 .. NTx - 1 /\ k + 1 # 0
              BY <4>3, TxAssumption
            <6> QED  BY <3>1, <6>1, AddFacts, AddInjective
          <5> QED  BY <3>1, <4>1, <4>3, <5>1 DEF PktAt, OwnedAt, Has
        <4> QED  BY <4>2, <4>3
      <3>3. ASSUME NEW k \in 0 .. NTx - 1, OwnedAt(k)'
            PROVE  /\ PktAt(k)' <= accepted'
                   /\ \A l \in 0 .. k - 1 : OwnedAt(l)' => PktAt(l)' < PktAt(k)'
        <4>1. k # NTx - 1 /\ k + 1 \in 0 .. NTx - 1 /\ OwnedAt(k + 1)
          BY <3>2, <3>3, TxAssumption
        <4>2. \A l \in 0 .. k - 1 : /\ l \in 0 .. NTx - 1 /\ l # NTx - 1
                                    /\ l + 1 \in 0 .. (k + 1) - 1
          BY TxAssumption
        <4> QED  BY <3>1, <3>2, <4>1, <4>2 DEF PacketsInOrder
      <3> QED  BY <3>3 DEF PacketsInOrder
    <2>2. CASE ~Reclaim
      BY <1>1, <1>4, <2>2 DEF TintPacket, txVars, driverTxVars, queueVars
    <2> QED  BY <2>1, <2>2
  <1>5. CASE LncReset \/ SetPromiscuousMode
    <2>1. \A i \in Idx : trans'[i].status = {}
      BY <1>5 DEF LncReset, SetPromiscuousMode, InitRing, Free
    <2>2. trans_next' \in Idx
      BY <1>5, TxAssumption DEF LncReset, SetPromiscuousMode, InitRing, Idx
    <2>3. ASSUME NEW k \in 0 .. NTx - 1 PROVE ~OwnedAt(k)'
      <3>1. Add(trans_next, k)' \in Idx
        BY <2>2, AddBelow DEF Add
      <3> QED  BY <2>1, <3>1 DEF OwnedAt, Has
    <2> QED  BY <2>3 DEF PacketsInOrder
  <1>6. CASE Enqueue \/ OutputStall \/ Watchdog \/ SetMulticastList
    BY <1>1, <1>6
       DEF Enqueue, OutputStall, Watchdog, SetMulticastList, driverTxVars, queueVars
  <1>7. CASE TxIntrEnter \/ TxIntrRead \/ TxIntrAck \/ TxIntrReturn
             \/ TintTest \/ TintEnd \/ RintEnd \/ RintOutOfSync
    BY <1>1, <1>7
       DEF TxIntrEnter, TxIntrRead, TxIntrAck, TxIntrReturn, TintTest, TintEnd,
           RintEnd, RintOutOfSync, txVars, driverTxVars, queueVars
  <1>8. CASE ChipRaiseTint \/ ChipEvent \/ UNCHANGED vars
    BY <1>1, <1>8
       DEF ChipRaiseTint, ChipEvent, vars, txVars, driverTxVars, queueVars
  <1> QED
    BY <1>2, <1>3, <1>4, <1>5, <1>6, <1>7, <1>8 DEF TxNext, HandlerStep, ChipStep

\* The chip's descriptor, when it owns it, holds the oldest packet it has.
LEMMA ChipOldest ==
    ASSUME TxInv, PacketsInOrder, Has(txd, {"OWN"}), NEW i \in Idx,
           Has(i, {"OWN"}), i # txd
    PROVE  trans[txd].pkt < trans[i].pkt
  <1>1. PICK done \in 0 .. NTx : InStep(done)
    BY DEF TxInv
  <1>2. done < pending_transmits /\ txd = Add(trans_next, done)
    BY <1>1, ChipOwns DEF InStep
  <1>3. done \in 0 .. NTx - 1
    BY <1>2, RingType, TxAssumption
  <1>4. PICK k \in 0 .. NTx - 1 : i = Add(trans_next, k)
    BY AddOnto, RingType
  <1>5. DescriptorAt(done, k)
    BY <1>1 DEF InStep
  <1>6. done < k
    <2>1. ~(k < done)
      BY <1>4, <1>5 DEF DescriptorAt, Has
    <2>2. k # done
      BY <1>2, <1>4
    <2> QED  BY <1>3, <2>1, <2>2
  <1>7. OwnedAt(k) /\ OwnedAt(done) /\ done \in 0 .. k - 1
    BY <1>2, <1>3, <1>4, <1>6 DEF OwnedAt
  <1>8. PktAt(done) < PktAt(k)
    BY <1>7 DEF PacketsInOrder
  <1> QED  BY <1>2, <1>4, <1>8 DEF PktAt

\* Each step of the ring is a step of the path or stutters.
LEMMA TxPathStep ==
    ASSUME TxInv, PacketsInOrder, Aligned, [TxNext]_vars
    PROVE  [Path!Next]_(Path!vars)
  <1>s. ASSUME UNCHANGED <<trans, accepted, handled, resets>>
        PROVE  UNCHANGED Path!vars
    BY <1>s DEF Path!vars, Waiting, Has
  <1>1. CASE OutputPacket
    <2>1. Waiting' = Waiting \cup {accepted + 1}
      <3>1. \A i \in Idx : Has(i, {"OWN"})' <=> "OWN" \in trans'[i].status
        BY DEF Has
      <3> QED
        BY <1>1, <3>1, OutputAt, RingType DEF Waiting, Has
    <2> QED
      BY <1>1, <2>1 DEF OutputPacket, Path!Next, Path!Accept
  <1>2. CASE \E r \in TxResults : ChipTransmit(r)
    <2>1. PICK r \in TxResults : ChipTransmit(r)
      BY <1>2
    <2>2. Has(txd, {"OWN"}) /\ txd \in Idx /\ handled' = trans[txd].pkt
      BY <2>1, RingType DEF ChipTransmit
    <2>3. ASSUME NEW i \in Idx, Has(i, {"OWN"}), i # txd
          PROVE  trans[txd].pkt < trans[i].pkt
      BY <2>2, <2>3, ChipOldest
    <2>4. \A i \in Idx : trans[i].pkt \in Nat
      BY RingType, TxAssumption
    <2>5. Waiting' = Waiting \ {trans[txd].pkt}
      <3>1. \A i \in Idx : Has(i, {"OWN"})' <=> Has(i, {"OWN"}) /\ i # txd
        BY <2>1, <2>2, TransmitAt DEF Has
      <3>2. \A i \in Idx : Has(i, {"OWN"}) /\ i # txd => trans[i].pkt # trans[txd].pkt
        BY <2>2, <2>3, <2>4
      <3> QED  BY <2>1, <2>2, <3>1, <3>2, TransmitAt DEF Waiting
    <2>6. trans[txd].pkt \in Waiting /\ \A q \in Waiting : trans[txd].pkt <= q
      BY <2>2, <2>3, <2>4 DEF Waiting
    <2> QED
      BY <2>1, <2>2, <2>5, <2>6
         DEF ChipTransmit, queueVars, Path!Next, Path!Handle
  <1>3. CASE LncReset \/ SetPromiscuousMode
    <2>1. \A i \in Idx : trans'[i].status = {}
      BY <1>3 DEF LncReset, SetPromiscuousMode, InitRing, Free
    <2>2. Waiting' = {}
      BY <2>1 DEF Waiting, Has
    <2> QED
      BY <1>3, <2>2
         DEF LncReset, SetPromiscuousMode, ResetChip, PromiscChip, InitChip,
             InitRing, Path!Next, Path!Flush
  <1>4. CASE TintPacket
    <2>1. CASE Reclaim
      <3>1. \A i \in Idx : trans'[i] = IF i = trans_next THEN Free ELSE trans[i]
        BY <1>4, <2>1, ReclaimOne DEF TintPacket
      <3>2. ~Has(trans_next, {"OWN"})
        BY <1>4, OneDescriptor DEF TintPacket
      <3>3. \A i \in Idx : Has(i, {"OWN"})' <=> Has(i, {"OWN"})
        BY <3>1, <3>2 DEF Has, Free
      <3>4. Waiting' = Waiting
        BY <3>1, <3>2, <3>3 DEF Waiting
      <3> QED  BY <2>1, <3>4 DEF Reclaim, Path!vars
    <2>2. CASE ~Reclaim
      BY <1>4, <1>s, <2>2 DEF TintPacket, txVars, queueVars
    <2> QED  BY <2>1, <2>2
  <1>5. CASE Enqueue \/ OutputStall \/ Watchdog \/ SetMulticastList
    BY <1>5, <1>s
       DEF Enqueue, OutputStall, Watchdog, SetMulticastList, MulticastChip,
           intrVars, queueVars
  <1>6. CASE TxIntrEnter \/ TxIntrRead \/ TxIntrAck \/ TxIntrReturn
    BY <1>6, <1>s
       DEF TxIntrEnter, TxIntrRead, TxIntrAck, TxIntrReturn, IntrEnter, IntrRead,
           IntrAck, IntrReturn, txVars, queueVars
  <1>7. CASE TintTest \/ TintEnd \/ RintEnd \/ RintOutOfSync
    BY <1>7, <1>s
       DEF TintTest, TintEnd, RintEnd, RintOutOfSync, txVars, queueVars
  <1>8. CASE ChipRaiseTint \/ ChipEvent \/ UNCHANGED vars
    BY <1>8, <1>s
       DEF ChipRaiseTint, ChipEvent, ChipRaise, vars, intrVars, txVars, queueVars
  <1> QED
    BY <1>1, <1>2, <1>3, <1>4, <1>5, <1>6, <1>7, <1>8 DEF TxNext, HandlerStep, ChipStep

\* What lnc_output_packet accepts the chip finishes in that order, none of it
\* twice, and only lnc_init throws packets away: the transmit ring implements
\* TxPath whatever its size and the traffic.
THEOREM TxImplementsPath == ASSUME Aligned PROVE TxSpec => TxInOrder
  <1>1. TxInit => Path!Init /\ PacketsInOrder
    <2> SUFFICES ASSUME TxInit PROVE Path!Init /\ PacketsInOrder
      OBVIOUS
    <2>1. \A i \in Idx : ~Has(i, {"OWN"})
      BY DEF TxInit, Has, Free
    <2>2. \A k \in 0 .. NTx - 1 : ~OwnedAt(k)
      <3>1. trans_next \in Idx
        BY TxAssumption DEF TxInit, Idx
      <3> QED  BY <2>1, <3>1, AddBelow DEF OwnedAt
    <2> QED
      BY <2>1, <2>2 DEF TxInit, IntrInit, Waiting, Path!Init, PacketsInOrder
  <1>2. TxInv /\ PacketsInOrder /\ [TxNext]_vars => PacketsInOrder'
    BY OrderStep
  <1>3. TxInv /\ PacketsInOrder /\ [TxNext]_vars => [Path!Next]_(Path!vars)
    BY TxPathStep
  <1>4. TxSpec => []TxInv
    BY TxInvariant
  <1> QED  BY <1>1, <1>2, <1>3, <1>4, PTL DEF TxSpec, TxInOrder, Path!Spec

----------------------------------------------------------------------------
(* A full ring is awake.                                                    *)

LEMMA WakeStep ==
    ASSUME TxInv, WakeInv, TintReliable, [TxNext]_vars
    PROVE  WakeInv'
  <1>0. /\ Aligned /\ pending_transmits \in 0 .. NTx /\ NTx > 0 /\ NTx \in Nat
        /\ pc \notin {"hang", "rintReset", "rintEnd"}
    BY TxAssumption DEF TintReliable, TxInv, TxTypeOK
  <1>1. CASE OutputPacket
    <2>1. PICK done \in 0 .. NTx : InStep(done)
      BY DEF TxInv
    <2>2. /\ pending_transmits \in 0 .. NTx - 1
          /\ next_to_send = Add(trans_next, pending_transmits)
          /\ next_to_send \in Idx /\ txd \in Idx
          /\ \A i \in Idx : Has(i, {"OWN"})' <=> i = next_to_send \/ Has(i, {"OWN"})
      <3>1. \A i \in Idx : Has(i, {"OWN"})' <=> "OWN" \in trans'[i].status
        BY DEF Has
      <3> QED  BY <1>1, <3>1, OutputAt, RingType DEF Has
    <2>3. Has(txd, {"OWN"})'
      <3>1. done <= pending_transmits /\ done \in 0 .. NTx - 1 /\ txd = Add(trans_next, done)
        BY <2>1, <2>2, TxAssumption DEF InStep
      <3>2. CASE done = pending_transmits
        BY <1>1, <2>2, <3>1, <3>2 DEF OutputPacket, Has
      <3>3. CASE done < pending_transmits
        <4>1. DescriptorAt(done, done)
          BY <2>1, <3>1 DEF InStep
        <4>2. Has(txd, {"OWN"})
          BY <3>1, <3>3, <4>1 DEF DescriptorAt, Has
        <4> QED  BY <1>1, <2>2, <4>2 DEF OutputPacket, Has
      <3> QED  BY <2>2, <3>1, <3>2, <3>3
    <2>4. {"IENA", "TXON"} \subseteq csr0 => {"IENA", "TXON"} \subseteq csr0'
      BY <1>1 DEF OutputPacket, OutputWrite, CsrWrite, Latched
    <2> QED  BY <1>1, <2>3, <2>4 DEF WakeInv, OutputPacket, CanOutput
  <1>2. CASE \E r \in TxResults : ChipTransmit(r)
    <2>1. PICK r \in TxResults : ChipTransmit(r) /\ r # "uflo"
      BY <1>2 DEF TintReliable
    <2>2. "TINT" \in csr0' /\ csr0 \subseteq csr0'
      BY <2>1, <1>0 DEF ChipTransmit, Aligned
    <2> QED  BY <2>1, <2>2 DEF WakeInv, ChipTransmit, driverTxVars
  <1>3. CASE TintPacket
    <2>1. CASE Reclaim
      <3>1. pending_transmits' < NTx
        BY <1>0, <1>3, <2>1, ReclaimOne DEF TintPacket
      <3> QED  BY <1>0, <1>3, <2>1, <3>1 DEF WakeInv, Reclaim
    <2>2. CASE ~Reclaim
      <3>1. pc' = "reset" /\ UNCHANGED <<csr0, lcsr, initDone, resets, events, txVars>>
        BY <1>3, <2>2, OneDescriptor DEF TintPacket
      <3> QED  BY <3>1 DEF WakeInv, txVars, driverTxVars
    <2> QED  BY <2>1, <2>2
  <1>4. CASE LncReset \/ SetPromiscuousMode
    <2>1. PICK ok \in InitOutcomes :
              (ResetChip(ok) \/ PromiscChip(ok)) /\ InitRing(ok)
      BY <1>4 DEF LncReset, SetPromiscuousMode
    <2>2. pc' \in {"idle", "read"} /\ pending_transmits' # NTx
          /\ (initDone' => {"IENA", "TXON"} \subseteq csr0')
      BY <1>0, <2>1
         DEF ResetChip, PromiscChip, ResetReturn, InitChip, InitRing, CsrInit, CsrStart
    <2> QED  BY <2>2 DEF WakeInv
  <1>5. CASE TxIntrRead \/ TxIntrReturn \/ TxIntrEnter
    BY <1>5
       DEF WakeInv, TxIntrRead, TxIntrReturn, TxIntrEnter, IntrRead, IntrReturn,
           IntrEnter, txVars, driverTxVars, Has
  <1>6. CASE TxIntrAck
    <2>1. /\ initDone => {"IENA", "TXON"} \subseteq csr0'
          /\ "TINT" \in csr0 => "TINT" \in csr0' \/ "TINT" \in lcsr
      BY <1>6 DEF WakeInv, TxIntrAck, IntrAck, AckValue, CsrWrite, Latched
    <2>2. /\ pc = "ack" /\ pc' \in {"reset", "rint", "tint", "read"}
          /\ "TINT" \in lcsr => pc' \in {"reset", "rint", "tint"}
          /\ lcsr' = lcsr /\ initDone' = initDone
      BY <1>6 DEF TxIntrAck, IntrAck, AckValue, Dispatch, AfterRint
    <2> QED
      BY <1>6, <2>1, <2>2
         DEF WakeInv, TxIntrAck, txVars, driverTxVars, Has
  <1>7. CASE TintTest \/ TintEnd
    <2>1. {"IENA", "TXON"} \subseteq csr0 => {"IENA", "TXON"} \subseteq csr0'
      BY <1>7 DEF TintTest, TintEnd, TintEndWrite, CsrWrite, Latched
    <2>2. pending_transmits < NTx /\ pending_transmits' = pending_transmits
          /\ pc' # "ack" /\ initDone' = initDone
      BY <1>7 DEF WakeInv, TintTest, TintEnd, txVars, driverTxVars
    <2> QED  BY <1>0, <2>1, <2>2 DEF WakeInv
  <1>8. CASE RintEnd
    <2>1. /\ {"IENA", "TXON"} \subseteq csr0 => {"IENA", "TXON"} \subseteq csr0'
          /\ "TINT" \in csr0 => "TINT" \in csr0'
      BY <1>8 DEF RintEnd, CsrWrite, Latched
    <2>2. /\ pc' \in {"tint", "read"}
          /\ "TINT" \in lcsr => pc' = "tint"
          /\ pc = "rint" /\ UNCHANGED <<lcsr, initDone, txVars>>
      BY <1>8 DEF RintEnd, AfterRint
    <2> QED  BY <2>1, <2>2 DEF WakeInv, txVars, driverTxVars, Has
  <1>9. CASE Enqueue \/ OutputStall \/ Watchdog \/ UNCHANGED vars
    BY <1>9
       DEF WakeInv, Enqueue, OutputStall, Watchdog, vars, intrVars, txVars,
           driverTxVars, Has
  <1>10. CASE ChipEvent
    BY <1>10 DEF WakeInv, ChipEvent, ChipRaise, txVars, driverTxVars, Has
  <1>11. ~SetMulticastList /\ ~RintOutOfSync /\ ~ChipRaiseTint
    BY DEF TintReliable, Aligned, SetMulticastList, MulticastChip, RintOutOfSync,
           ChipRaiseTint, TxInv
  <1> QED
    BY <1>1, <1>2, <1>3, <1>4, <1>5, <1>6, <1>7, <1>8, <1>9, <1>10, <1>11
       DEF TxNext, HandlerStep, ChipStep

\* A driver that rests with a full ring will be called: interrupts are on and
\* TINT is pending or comes with the packet the running chip works at.
THEOREM FullRingAwake == ASSUME TintReliable PROVE TxSpec => []FullRingWakes
  <1>1. TxInit => WakeInv
    BY TxAssumption
       DEF TxInit, IntrInit, CsrInit, CsrStart, WakeInv
  <1>2. TxInv /\ WakeInv /\ [TxNext]_vars => WakeInv'
    BY WakeStep
  <1>3. WakeInv => FullRingWakes
    BY DEF WakeInv, FullRingWakes
  <1>4. Aligned
    BY DEF TintReliable
  <1>5. TxSpec => []TxInv
    BY <1>4, TxInvariant
  <1> QED  BY <1>1, <1>2, <1>3, <1>5, PTL DEF TxSpec
=============================================================================
