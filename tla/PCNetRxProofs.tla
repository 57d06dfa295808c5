--------------------------- MODULE PCNetRxProofs ---------------------------
(* Theorems about the receive ring, for every ring size, every number of    *)
(* frames and every bound on the environment.                               *)
EXTENDS PCNetRx, TLAPS

----------------------------------------------------------------------------
(* Ring arithmetic.                                                         *)

\* A ring position k places on is a ring position; none and a full turn of
\* places lead back; one step of LNC_INC_MD_PTR is one place.
LEMMA AddFacts ==
    ASSUME NEW i \in Idx
    PROVE  /\ \A k \in 0 .. NRx : Add(i, k) \in Idx
           /\ Add(i, 0) = i
           /\ Add(i, NRx) = i
           /\ Inc(i) \in Idx
           /\ Inc(i) = Add(i, 1)
           /\ \A k \in 0 .. NRx - 1 : Inc(Add(i, k)) = Add(i, k + 1)
  BY RxAssumption DEF Idx, Add, Inc

\* The first fact again for a distance below a full turn.
LEMMA AddBelow ==
    ASSUME NEW i \in Idx, NEW k \in 0 .. NRx - 1
    PROVE  Add(i, k) \in Idx
  BY RxAssumption DEF Idx, Add

\* Different distances below a full turn lead to different descriptors.
LEMMA AddInjective ==
    ASSUME NEW i \in Idx, NEW k \in 0 .. NRx - 1, NEW l \in 0 .. NRx - 1,
           Add(i, k) = Add(i, l)
    PROVE  k = l
  BY RxAssumption DEF Idx, Add

\* Distances add up, around the ring's end too.
LEMMA AddAdd ==
    ASSUME NEW i \in Idx, NEW n \in 0 .. NRx, NEW k \in 0 .. NRx
    PROVE  /\ n + k <= NRx => Add(Add(i, n), k) = Add(i, n + k)
           /\ n + k > NRx => Add(Add(i, n), k) = Add(i, n + k - NRx)
  BY RxAssumption DEF Idx, Add

\* Every descriptor is at some distance below a full turn.
LEMMA AddOnto ==
    ASSUME NEW i \in Idx, NEW j \in Idx
    PROVE  \E k \in 0 .. NRx - 1 : j = Add(i, k)
  <1>1. CASE i <= j
    <2>1. j - i \in 0 .. NRx - 1 /\ j = Add(i, j - i)
      BY <1>1, RxAssumption DEF Idx, Add
    <2> QED  BY <2>1
  <1>2. CASE j < i
    <2>1. j - i + NRx \in 0 .. NRx - 1 /\ j = Add(i, j - i + NRx)
      BY <1>2, RxAssumption DEF Idx, Add
    <2> QED  BY <2>1
  <1> QED  BY <1>1, <1>2 DEF Idx

\* A do-while from i to the position behind one, or behind two descriptors
\* makes one turn, or two.
LEMMA StepsFacts ==
    ASSUME NEW i \in Idx
    PROVE  Steps(i, Inc(i)) = 1 /\ Steps(i, Inc(Inc(i))) = 2
  BY RxAssumption DEF Idx, Add, Inc, Steps

\* The library's minimum of a set of numbers, where it is known.
LEMMA MinIs ==
    ASSUME NEW S \in SUBSET Nat, NEW m \in S, \A x \in S : m <= x
    PROVE  Min(S) = m
  <1>1. \A x \in S : (\A y \in S : x <= y) => x = m
    <2> SUFFICES ASSUME NEW x \in S, \A y \in S : x <= y
                 PROVE  x = m
      OBVIOUS
    <2>1. x <= m /\ m <= x /\ x \in Nat /\ m \in Nat
      OBVIOUS
    <2> QED  BY <2>1
  <1>2. Min(S) \in S /\ \A y \in S : Min(S) <= y
    BY DEF Min
  <1> QED  BY <1>1, <1>2

----------------------------------------------------------------------------
(* What the ring looks like from recv_next on.                              *)

\* The type of the ring.
Ring == [Idx -> [status : SUBSET RMDFlags, frame : 0 .. MaxFrames]]

\* A place below a full turn holds a descriptor.
LEMMA AtType ==
    ASSUME recv \in Ring, recv_next \in Idx, NEW k \in 0 .. NRx - 1
    PROVE  At(k) \in [status : SUBSET RMDFlags, frame : 0 .. MaxFrames]
  BY AddBelow DEF At, Ring

\* The chip's writing a descriptor changes the place of its pointer only.
LEMMA WriteAt ==
    ASSUME recv \in Ring, recv_next \in Idx, NEW done \in 0 .. NRx - 1,
           rxd = Add(recv_next, done),
           NEW r, recv' = [recv EXCEPT ![rxd] = r], recv_next' = recv_next
    PROVE  \A k \in 0 .. NRx - 1 : At(k)' = IF k = done THEN r ELSE At(k)
  <1> SUFFICES ASSUME NEW k \in 0 .. NRx - 1
               PROVE  At(k)' = IF k = done THEN r ELSE At(k)
    OBVIOUS
  <1>1. Add(recv_next, k) \in Idx /\ Add(recv_next, done) \in Idx
    BY AddBelow
  <1>2. Add(recv_next, k) = Add(recv_next, done) <=> k = done
    BY AddInjective
  <1> QED  BY <1>1, <1>2 DEF At, Ring

\* Giving back n descriptors moves the others n places up.
LEMMA ConsumeAt ==
    ASSUME recv \in Ring, recv_next \in Idx, NEW n \in 1 .. NRx,
           recv' = [i \in Idx |->
                       IF i \in Span(recv_next, n) THEN Owned ELSE recv[i]],
           recv_next' = Add(recv_next, n)
    PROVE  \A k \in 0 .. NRx - 1 :
               At(k)' = IF k < NRx - n THEN At(k + n) ELSE Owned
  <1> SUFFICES ASSUME NEW k \in 0 .. NRx - 1
               PROVE  At(k)' = IF k < NRx - n THEN At(k + n) ELSE Owned
    OBVIOUS
  <1>1. At(k)' = recv'[Add(Add(recv_next, n), k)]
    BY DEF At, Add
  <1>2. CASE k < NRx - n
    <2>1. Add(Add(recv_next, n), k) = Add(recv_next, k + n)
      BY <1>2, AddAdd, RxAssumption
    <2>2. k + n \in 0 .. NRx - 1 /\ Add(recv_next, k + n) \in Idx
      BY <1>2, AddBelow, RxAssumption
    <2>3. Add(recv_next, k + n) \notin Span(recv_next, n)
      <3> SUFFICES ASSUME NEW j \in 0 .. n - 1,
                          Add(recv_next, k + n) = Add(recv_next, j)
                   PROVE  FALSE
        BY DEF Span
      <3>1. j \in 0 .. NRx - 1
        BY RxAssumption
      <3>2. k + n = j
        BY <2>2, <3>1, AddInjective
      <3> QED  BY <3>2, RxAssumption
    <2> QED  BY <1>1, <1>2, <2>1, <2>2, <2>3 DEF At
  <1>3. CASE k >= NRx - n
    <2>1. /\ k + n - NRx \in 0 .. n - 1
          /\ Add(Add(recv_next, n), k) = Add(recv_next, k + n - NRx)
      <3>1. k + n - NRx \in 0 .. n - 1 /\ n \in 0 .. NRx /\ k \in 0 .. NRx
        BY <1>3, RxAssumption
      <3>2. CASE n + k > NRx
        BY <3>1, <3>2, AddAdd, RxAssumption
      <3>3. CASE n + k = NRx
        <4>1. n + k <= NRx /\ k + n - NRx = 0
          BY <3>1, <3>3, RxAssumption
        <4>2. Add(Add(recv_next, n), k) = recv_next
          BY <3>1, <3>3, <4>1, AddAdd, AddFacts
        <4> QED  BY <3>1, <4>1, <4>2, AddFacts
      <3> QED  BY <1>3, <3>1, <3>2, <3>3, RxAssumption
    <2>2. k + n - NRx \in 0 .. NRx - 1
      BY <2>1, RxAssumption
    <2>3. Add(recv_next, k + n - NRx) \in Idx
      BY <2>2, AddBelow
    <2> QED  BY <1>1, <1>3, <2>1, <2>3, RxAssumption DEF Span
  <1> QED  BY <1>2, <1>3, RxAssumption

\* The search for the end of a packet never goes past the second descriptor:
\* a buffer with no bit at all would not end it, and there is none.
LEMMA PacketEndFacts ==
    ASSUME RxTypeOK, FramesKnown
    PROVE  /\ Has(recv_next, {"ENP", "ERR"}) => PacketEnd = recv_next
           /\ ~Has(recv_next, {"ENP", "ERR"}) => PacketEnd = Inc(recv_next)
           /\ PacketEnd \in Idx
           /\ Inc(PacketEnd) \in Idx
  <1>1. recv_next \in Idx /\ recv \in Ring /\ Inc(recv_next) \in Idx
    BY AddFacts DEF RxTypeOK, Ring
  <1>2. ASSUME ~Has(recv_next, {"ENP", "ERR"})
        PROVE  PacketEnd = Inc(recv_next)
    <2> DEFINE S == {k \in 1 .. NRx : Has(Add(recv_next, k), RMDFlags)}
    <2>1. Has(Inc(recv_next), RMDFlags)
      <3>1. /\ recv[Inc(recv_next)].status \in SUBSET RMDFlags
            /\ recv[Inc(recv_next)].status # {}
        BY <1>1 DEF FramesKnown, Ring
      <3> QED  BY <3>1 DEF Has
    <2>2. 1 \in S /\ S \in SUBSET Nat /\ \A x \in S : 1 <= x
      BY <1>1, <2>1, AddFacts, RxAssumption
    <2>3. Min(S) = 1
      BY <2>2, MinIs
    <2> QED  BY <1>1, <1>2, <2>3, AddFacts DEF PacketEnd
  <1>3. Has(recv_next, {"ENP", "ERR"}) => PacketEnd = recv_next
    BY DEF PacketEnd
  <1>4. PacketEnd \in Idx
    BY <1>1, <1>2, <1>3
  <1> QED  BY <1>2, <1>3, <1>4, AddFacts

----------------------------------------------------------------------------
(* The invariant RxInv.                                                     *)

\* The ring right after lnc_init.
FreshState ==
    /\ recv = FreshRing
    /\ recv_next = 0
    /\ rxd = 0
    /\ ~midFrame
    /\ ~rintDue
    /\ inputQ => flushInputQ /\ pc # "idle"
    /\ pc \notin {"ack", "rint", "rintReset"}
    /\ "RINT" \notin csr0

\* There is nothing in it to be out of order or incomplete.
LEMMA FreshInStep == FreshState /\ RxTypeOK => RxInv
  <1> SUFFICES ASSUME FreshState, RxTypeOK PROVE RxInv
    OBVIOUS
  <1> USE DEF FreshState
  <1>1. 0 \in Idx /\ 0 \in 0 .. NRx
    BY RxAssumption DEF Idx
  <1>2. \A i \in Idx : recv[i] = Owned
    BY DEF FreshRing
  <1>3. ASSUME NEW k \in 0 .. NRx - 1 PROVE At(k) = Owned
    BY <1>1, <1>2, AddBelow DEF At
  <1>4. Split(0)
    BY <1>1, <1>3, AddFacts, RxAssumption DEF Split
  <1>5. Ordered(0) /\ Whole(0) /\ RintMeansPacket(0)
    BY DEF Ordered, Whole, RintMeansPacket
  <1>6. FramesKnown
    BY <1>2, RxAssumption DEF FramesKnown, Owned, Has, RxTypeOK
  <1>7. \A i \in Idx : ~Has(i, {"STP"})
    BY <1>2 DEF Owned, Has
  <1> QED  BY <1>1, <1>4, <1>5, <1>6, <1>7 DEF RxInv, RingInStep

LEMMA RxInvInit == RxInit => RxInv
  <1> SUFFICES ASSUME RxInit PROVE RxInv
    OBVIOUS
  <1>1. RxTypeOK
    <2>1. IntrTypeOK
      BY IntrAssumption
         DEF RxInit, IntrInit, IntrTypeOK, IntrPCs, CsrInit, CsrStart,
             Csr0Bits, Latched
    <2>2. Owned \in [status : SUBSET RMDFlags, frame : 0 .. MaxFrames]
      BY RxAssumption DEF Owned, RMDFlags
    <2>3. recv \in [Idx -> [status : SUBSET RMDFlags, frame : 0 .. MaxFrames]]
      BY <2>2 DEF RxInit
    <2>4. 0 \in Idx /\ 0 \in 0 .. MaxFrames /\ 0 \in 0 .. 0
      BY RxAssumption DEF Idx
    <2> QED  BY <2>1, <2>3, <2>4 DEF RxInit, RxTypeOK
  <1>2. pc = "idle" /\ "RINT" \notin csr0
    BY DEF RxInit, IntrInit, CsrInit, CsrStart, CsrStop
  <1> QED  BY <1>1, <1>2, FreshInStep DEF RxInit, FreshState, FreshRing

\* What lnc_init leaves behind in the chip has no RINT in it.
LEMMA InitChipFacts ==
    ASSUME NEW ok \in InitOutcomes, InitChip(ok), IntrTypeOK
    PROVE  /\ csr0' \subseteq Csr0Bits
           /\ "RINT" \notin csr0'
           /\ initDone' \in BOOLEAN
           /\ resets' \in Nat
  BY IntrAssumption
     DEF InitChip, CsrInit, CsrStart, CsrStop, Csr0Bits, Latched, IntrTypeOK

\* A write to CSR0 keeps the register within its bits, sets no latch and
\* clears the ones written.
LEMMA CsrWriteFacts ==
    ASSUME NEW c \in SUBSET Csr0Bits, NEW v \in SUBSET Csr0Bits
    PROVE  /\ CsrWrite(c, v) \subseteq Csr0Bits
           /\ "RINT" \in CsrWrite(c, v) => "RINT" \in c /\ "RINT" \notin v
  BY DEF CsrWrite, Csr0Bits, Latched

----------------------------------------------------------------------------
(* Each action preserves RxInv.                                             *)

\* A step that leaves the ring alone, announces no packet that is not there
\* and does not give up in lnc_rint; flushInputQ is only reset by the step
\* that flushes the queue.
LEMMA RingKept ==
    ASSUME RxInv, RxTypeOK',
           UNCHANGED <<recv, recv_next, rxd, midFrame, arrived>>,
           inputQ' => flushInputQ' /\ pc' # "idle",
           rintDue' => rintDue,
           RxWhole => pc' # "rintReset",
           RxWhole /\ Jabber =>
               \A done \in 0 .. NRx :
                   Whole(done) /\ RintMeansPacket(done) => RintMeansPacket(done)'
    PROVE  RxInv'
  <1>1. FramesKnown'
    BY DEF RxInv, FramesKnown, Has
  <1>2. ASSUME RxAligned
        PROVE  \E done \in 0 .. NRx : RingInStep(done)'
    <2>1. PICK done \in 0 .. NRx : RingInStep(done)
      BY <1>2 DEF RxInv
    <2>2. Split(done)' /\ Ordered(done)'
      BY <2>1 DEF RingInStep, Split, Ordered, At, Starts
    <2>3. ASSUME Whole(done) PROVE Whole(done)'
      BY <2>3 DEF Whole, At, Starts, Ends
    <2> QED  BY <2>1, <2>2, <2>3 DEF RingInStep
  <1>3. ~Jabber => ~midFrame' /\ \A i \in Idx : Has(i, {"STP"})' => Has(i, {"ENP"})'
    BY DEF RxInv, Has
  <1> QED  BY <1>1, <1>2, <1>3 DEF RxInv

\* The same for a step of which the receiver sees nothing but CSR0 and the
\* place in the handler.
LEMMA RxKept ==
    ASSUME RxInv, IntrTypeOK', UNCHANGED rxVars,
           pc' = "idle" => pc = "idle",
           pc' # "rintReset",
           \A done \in 0 .. NRx : RintMeansPacket(done) => RintMeansPacket(done)'
    PROVE  RxInv'
  <1>1. RxTypeOK'
    BY DEF RxInv, RxTypeOK, rxVars
  <1> QED  BY <1>1, RingKept DEF RxInv, rxVars

\* The handler is entered and left: the queue is flushed on the way out.
LEMMA EnterReturnInv ==
    ASSUME RxInv,
           \/ IntrEnter /\ EnterRing
           \/ IntrReturn /\ ReturnRing
    PROVE  RxInv'
  <1>1. RxTypeOK'
    BY DEF RxInv, RxTypeOK, IntrTypeOK, IntrPCs, IntrEnter, EnterRing,
           IntrReturn, ReturnRing
  <1>2. inputQ' => flushInputQ' /\ pc' # "idle"
    BY DEF RxInv, RxTypeOK, IntrEnter, EnterRing, IntrReturn, ReturnRing
  <1>3. ASSUME NEW done, RintMeansPacket(done)
        PROVE  RintMeansPacket(done)'
    BY <1>3 DEF IntrEnter, EnterRing, IntrReturn, ReturnRing, RintMeansPacket,
                FirstComplete, Ends, At
  <1> QED
    BY <1>1, <1>2, <1>3, RingKept
       DEF IntrEnter, EnterRing, IntrReturn, ReturnRing

\* The test of lnc_intr's loop, and acknowledging what it has read.
LEMMA ReadAckInv ==
    ASSUME RxInv, IntrRead \/ IntrAck, UNCHANGED rxVars
    PROVE  RxInv'
  <1>0. csr0 \in SUBSET Csr0Bits /\ lcsr \in SUBSET Csr0Bits /\ IntrTypeOK
    BY DEF RxInv, RxTypeOK, IntrTypeOK
  <1>f. ASSUME NEW done
        PROVE  FirstComplete(done)' <=> FirstComplete(done)
    BY DEF rxVars, FirstComplete, Ends, At
  <1>1. CASE IntrRead
    <2>1. IntrTypeOK'
      BY <1>0, <1>1 DEF IntrRead, IntrTypeOK, IntrPCs
    <2>2. ASSUME NEW done, RintMeansPacket(done)
          PROVE  RintMeansPacket(done)'
      BY <1>1, <1>f, <2>2 DEF IntrRead, RintMeansPacket
    <2> QED  BY <1>1, <2>1, <2>2, RxKept DEF IntrRead
  <1>2. CASE IntrAck
    <2>1. csr0' \subseteq Csr0Bits
          /\ ("RINT" \in csr0' => "RINT" \in csr0 /\ "RINT" \notin lcsr)
      BY <1>0, <1>2, CsrWriteFacts DEF IntrAck, AckValue
    <2>2. pc' \in {"reset", "rint", "tint", "read"}
          /\ (pc' = "rint" => "RINT" \in lcsr)
      BY <1>2 DEF IntrAck, Dispatch, AfterRint
    <2>3. IntrTypeOK'
      BY <1>0, <1>2, <2>1, <2>2 DEF IntrAck, IntrTypeOK, IntrPCs
    <2>4. ASSUME NEW done, RintMeansPacket(done)
          PROVE  RintMeansPacket(done)'
      BY <1>2, <1>f, <2>1, <2>2, <2>4 DEF IntrAck, RintMeansPacket
    <2> QED  BY <2>2, <2>3, <2>4, RxKept
  <1> QED  BY <1>1, <1>2

\* Whatever the transmit half and the environment do to CSR0 and to the place
\* in the handler outside lnc_rint.
LEMMA OtherInv ==
    ASSUME RxInv, TintEnd \/ TintResets \/ ChipEvent \/ Watchdog \/ UNCHANGED vars
    PROVE  RxInv'
  <1>0. csr0 \in SUBSET Csr0Bits /\ lcsr \in SUBSET Csr0Bits /\ IntrTypeOK
    BY DEF RxInv, RxTypeOK, IntrTypeOK
  <1>1. CASE TintEnd
    <2>1. csr0' \subseteq Csr0Bits /\ ("RINT" \in csr0' => "RINT" \in csr0)
      BY <1>0, <1>1, CsrWriteFacts DEF TintEnd, Csr0Bits, Latched
    <2>2. IntrTypeOK'
      BY <1>0, <1>1, <2>1 DEF TintEnd, IntrTypeOK, IntrPCs
    <2>3. ASSUME NEW done, RintMeansPacket(done)
          PROVE  RintMeansPacket(done)'
      BY <1>1, <2>1, <2>3
         DEF TintEnd, rxVars, RintMeansPacket, FirstComplete, Ends, At
    <2> QED  BY <1>1, <2>2, <2>3, RxKept DEF TintEnd
  <1>2. CASE TintResets
    <2>1. IntrTypeOK'
      BY <1>0, <1>2 DEF TintResets, IntrTypeOK, IntrPCs
    <2>2. ASSUME NEW done, RintMeansPacket(done)
          PROVE  RintMeansPacket(done)'
      BY <1>2, <2>2
         DEF TintResets, rxVars, RintMeansPacket, FirstComplete, Ends, At
    <2> QED  BY <1>2, <2>1, <2>2, RxKept DEF TintResets
  <1>3. CASE ChipEvent
    <2>1. PICK bit \in {"MERR", "TINT"} : ChipRaise(bit)
      BY <1>3 DEF ChipEvent
    <2>2. IntrTypeOK' /\ ("RINT" \in csr0' => "RINT" \in csr0)
      BY <1>0, <2>1, IntrAssumption DEF ChipRaise, IntrTypeOK, Csr0Bits, Latched
    <2>3. ASSUME NEW done, RintMeansPacket(done)
          PROVE  RintMeansPacket(done)'
      BY <1>3, <2>1, <2>2, <2>3
         DEF ChipEvent, ChipRaise, rxVars, RintMeansPacket, FirstComplete, Ends, At
    <2>4. pc' # "rintReset" \/ ~RxWhole
      BY <2>1 DEF ChipRaise, RxInv
    <2>5. RxTypeOK'
      BY <1>3, <2>2 DEF ChipEvent, rxVars, RxInv, RxTypeOK
    <2> QED
      BY <1>3, <2>1, <2>3, <2>4, <2>5, RingKept DEF ChipEvent, ChipRaise, rxVars, RxInv
  <1>4. CASE UNCHANGED vars
    <2>1. RxTypeOK'
      BY <1>4 DEF RxInv, RxTypeOK, IntrTypeOK, vars, intrVars, rxVars
    <2>2. ASSUME NEW done, RintMeansPacket(done)
          PROVE  RintMeansPacket(done)'
      BY <1>4, <2>2
         DEF vars, intrVars, rxVars, RintMeansPacket, FirstComplete, Ends, At
    <2> QED
      BY <1>4, <2>1, <2>2, RingKept DEF vars, intrVars, rxVars, RxInv
  <1> QED  BY <1>1, <1>2, <1>3, <1>4 DEF Watchdog

\* lnc_init makes the ring new, whoever calls it.
LEMMA InitInv ==
    ASSUME RxInv, NEW ok \in InitOutcomes,
           ResetChip(ok) \/ PromiscChip(ok), InitRing
    PROVE  RxInv'
  <1>1. InitChip(ok) /\ pc' \in {"idle", "read", "tint"}
        /\ (pc' = "idle" => pc = "idle")
    BY DEF ResetChip, PromiscChip, ResetReturn, AfterRint
  <1>2. IntrTypeOK'
    BY <1>1, InitChipFacts, IntrAssumption
       DEF ResetChip, PromiscChip, RxInv, RxTypeOK, IntrTypeOK, IntrPCs
  <1>3. recv' \in [Idx -> [status : SUBSET RMDFlags, frame : 0 .. MaxFrames]]
    BY RxAssumption DEF InitRing, FreshRing, Owned, RMDFlags
  <1>4. RxTypeOK'
    <2>1. 0 \in Idx
      BY RxAssumption DEF Idx
    <2> QED  BY <1>2, <1>3, <2>1 DEF InitRing, RxInv, RxTypeOK
  <1>5. "RINT" \notin csr0'
    BY <1>1, InitChipFacts DEF RxInv, RxTypeOK
  <1>6. inputQ' => flushInputQ' /\ pc' # "idle"
    BY <1>1 DEF RxInv, InitRing
  <1>7. recv' = FreshRing'
    BY DEF InitRing, FreshRing, Idx, Owned
  <1>8. FreshState'
    BY <1>1, <1>5, <1>6, <1>7 DEF FreshState, InitRing
  <1>9. (FreshState /\ RxTypeOK => RxInv)'
    BY FreshInStep, PTL
  <1> QED  BY <1>4, <1>8, <1>9

\* lnc_set_multicast: the chip keeps its place and forgets RINT; a frame in
\* progress is cut off, which is why RxWhole excludes it.
LEMMA StopInv ==
    ASSUME RxInv, MulticastChip, StopRing
    PROVE  RxInv'
  <1>1. IntrTypeOK'
    BY IntrAssumption
       DEF MulticastChip, CsrStart, CsrStop, Csr0Bits, Latched, RxInv, RxTypeOK,
           IntrTypeOK
  <1>2. RxTypeOK'
    <2>1. 0 \in Idx
      BY RxAssumption DEF Idx
    <2> QED  BY <1>1, <2>1 DEF StopRing, RxInv, RxTypeOK
  <1>3. FramesKnown'
    BY DEF RxInv, FramesKnown, Has, StopRing
  <1>4. ASSUME RxAligned
        PROVE  \E done \in 0 .. NRx : RingInStep(done)'
    <2>1. PICK done \in 0 .. NRx : RingInStep(done)
      BY <1>4 DEF RxInv
    <2>2. rxd' = rxd
      BY <1>4 DEF StopRing, MulticastChip, RxAligned
    <2>3. Split(done)' /\ Ordered(done)'
      BY <2>1, <2>2 DEF RingInStep, Split, Ordered, At, Starts, StopRing
    <2>4. ~(RxWhole /\ Jabber)
      BY DEF RxWhole, MulticastChip
    <2> QED  BY <2>3, <2>4 DEF RingInStep
  <1>5. ~Jabber => ~midFrame' /\ \A i \in Idx : Has(i, {"STP"})' => Has(i, {"ENP"})'
    BY DEF RxInv, Has, StopRing
  <1>6. (RxWhole => pc' # "rintReset") /\ ~rintDue'
    BY DEF MulticastChip, StopRing
  <1>7. inputQ' => flushInputQ' /\ pc' # "idle"
    BY DEF RxInv, MulticastChip, StopRing
  <1> QED  BY <1>2, <1>3, <1>4, <1>5, <1>6, <1>7 DEF RxInv

----------------------------------------------------------------------------
(* The chip fills the descriptor at its pointer with r.                     *)

\* The place it fills is the first of the chip's.
LEMMA FillPlace ==
    ASSUME RxTypeOK, NEW done \in 0 .. NRx, Split(done),
           Has(rxd, {"OWN"}) \/ midFrame
    PROVE  done < NRx
  <1>1. CASE midFrame
    BY <1>1 DEF Split
  <1>2. CASE Has(rxd, {"OWN"})
    <2>1. SUFFICES ASSUME done = NRx PROVE FALSE
      BY RxAssumption
    <2>2. rxd = recv_next /\ Add(recv_next, 0) = recv_next
      BY <2>1, AddFacts DEF Split, RxTypeOK
    <2>3. "OWN" \notin At(0).status
      BY <2>1, RxAssumption DEF Split
    <2> QED  BY <1>2, <2>2, <2>3 DEF At, Has
  <1> QED  BY <1>1, <1>2

\* With the next descriptor the chip's too there is another place after it.
LEMMA SecondPlace ==
    ASSUME RxTypeOK, NEW done \in 0 .. NRx - 1, Split(done),
           Has(Inc(rxd), {"OWN"})
    PROVE  done + 1 < NRx
  <1>1. SUFFICES ASSUME done + 1 = NRx PROVE FALSE
    BY RxAssumption
  <1>2. Inc(rxd) = recv_next /\ Add(recv_next, 0) = recv_next
    BY <1>1, AddFacts, RxAssumption DEF Split, RxTypeOK
  <1>3. 0 \in 0 .. NRx - 1 /\ 0 < done
    BY <1>1, RxAssumption
  <1>4. "OWN" \notin At(0).status
    BY <1>3 DEF Split
  <1> QED  BY <1>2, <1>4 DEF At, Has

\* One more descriptor is the driver's, and a frame that starts there is
\* later than the others.
LEMMA FillOrdered ==
    ASSUME RxTypeOK, FramesKnown, NEW done \in 0 .. NRx - 1,
           Split(done), Ordered(done),
           NEW r, recv' = [recv EXCEPT ![rxd] = r], recv_next' = recv_next,
           rxd' = Inc(rxd),
           r.status # {}, "OWN" \notin r.status,
           "STP" \in r.status => r.frame = arrived + 1,
           midFrame' => done + 1 < NRx
    PROVE  /\ \A k \in 0 .. NRx - 1 : At(k)' = IF k = done THEN r ELSE At(k)
           /\ Split(done + 1)'
           /\ Ordered(done + 1)'
  <1>1. recv \in Ring /\ recv_next \in Idx /\ rxd = Add(recv_next, done)
    BY DEF RxTypeOK, Ring, Split
  <1>2. \A k \in 0 .. NRx - 1 : At(k)' = IF k = done THEN r ELSE At(k)
    BY <1>1, WriteAt
  <1>3. Split(done + 1)'
    <2>1. rxd' = Add(recv_next', done + 1)
      BY <1>1, AddFacts
    <2>2. ASSUME NEW k \in 0 .. NRx - 1
          PROVE  IF k < done + 1 THEN At(k)'.status # {} /\ "OWN" \notin At(k)'.status
                 ELSE At(k)' = Owned
      BY <1>2, <2>2, RxAssumption DEF Split
    <2> QED  BY <2>1, <2>2 DEF Split, Owned
  <1>4. ASSUME NEW k \in 0 .. done, NEW l \in 0 .. k - 1,
               Starts(k)', Starts(l)'
        PROVE  At(l)'.frame < At(k)'.frame
    <2>1. /\ k \in 0 .. NRx - 1 /\ l \in 0 .. NRx - 1 /\ l # done
          /\ l \in 0 .. done - 1
      BY RxAssumption
    <2>2. At(l)' = At(l) /\ Starts(l)
      BY <1>2, <1>4, <2>1 DEF Starts
    <2>3. CASE k = done
      <3>1. At(k)'.frame = arrived + 1
        BY <1>2, <1>4, <2>1, <2>3 DEF Starts
      <3>2. At(l).frame \in Nat /\ At(l).frame <= arrived /\ arrived \in Nat
        BY <1>1, <2>1, AtType, AddBelow, RxAssumption
           DEF FramesKnown, At, RxTypeOK
      <3> QED  BY <2>2, <3>1, <3>2
    <2>4. CASE k # done
      <3>1. At(k)' = At(k) /\ Starts(k) /\ k \in 0 .. done - 1
        BY <1>2, <1>4, <2>1, <2>4 DEF Starts
      <3> QED  BY <2>2, <3>1 DEF Ordered
    <2> QED  BY <2>3, <2>4
  <1>5. Ordered(done + 1)'
    <2>1. (done + 1) - 1 = done
      BY RxAssumption
    <2> QED  BY <1>4, <2>1 DEF Ordered
  <1> QED  BY <1>2, <1>3, <1>5

\* It is the second buffer of the frame in progress or the first of another.
LEMMA FillWhole ==
    ASSUME RxTypeOK, NEW done \in 0 .. NRx - 1, Whole(done),
           NEW r, \A k \in 0 .. NRx - 1 : At(k)' = IF k = done THEN r ELSE At(k),
           midFrame <=> "STP" \notin r.status,
           midFrame' <=> r.status \cap {"ENP", "ERR"} = {},
           midFrame => ~midFrame'
    PROVE  Whole(done + 1)'
  <1> DEFINE starts(k) == "STP" \in At(k)'.status
             ends(k) == At(k)'.status \cap {"ENP", "ERR"} # {}
  <1>0. /\ (done + 1) - 1 = done /\ done + 1 > 0 /\ done \in Nat
        /\ \A k \in 0 .. done : k \in 0 .. NRx - 1
    BY RxAssumption
  <1>1. /\ \A k \in 0 .. done - 1 : (starts(k) <=> Starts(k)) /\ (ends(k) <=> Ends(k))
        /\ starts(done) <=> ~midFrame
        /\ ends(done) <=> ~midFrame'
    BY <1>0 DEF Starts, Ends
  <1>2. ASSUME NEW k \in 0 .. done, starts(k), ~ends(k), k < done
        PROVE  ~starts(k + 1)
    <2>1. k \in 0 .. done - 1 /\ Starts(k) /\ ~Ends(k)
      BY <1>0, <1>1, <1>2
    <2>2. CASE k < done - 1
      BY <1>0, <1>1, <2>1, <2>2 DEF Whole
    <2>3. CASE k = done - 1
      BY <1>0, <1>1, <2>1, <2>3 DEF Whole
    <2> QED  BY <2>1, <2>2, <2>3
  <1>3. ASSUME NEW k \in 0 .. done, ~starts(k)
        PROVE  k > 0 /\ starts(k - 1) /\ ~ends(k - 1)
    <2>1. CASE k = done
      BY <1>0, <1>1, <1>3, <2>1 DEF Whole
    <2>2. CASE k # done
      <3>1. k \in 0 .. done - 1 /\ ~Starts(k)
        BY <1>0, <1>1, <1>3, <2>2
      <3>2. k > 0 /\ Starts(k - 1) /\ ~Ends(k - 1) /\ k - 1 \in 0 .. done - 1
        BY <3>1 DEF Whole
      <3> QED  BY <1>1, <3>2
    <2> QED  BY <2>1, <2>2
  <1>4. IF midFrame' THEN starts(done) /\ ~ends(done)
        ELSE starts(done) => ends(done)
    BY <1>1
  <1> HIDE DEF starts, ends
  <1>5. \A k : (Starts(k)' <=> starts(k)) /\ (Ends(k)' <=> ends(k))
    BY DEF Starts, Ends, starts, ends
  <1> QED  BY <1>0, <1>2, <1>3, <1>4, <1>5 DEF Whole

\* Filling a descriptor with a frame, or with part of one, preserves RxInv.
LEMMA FillInv ==
    ASSUME RxInv, RxTypeOK', Has(rxd, {"OWN"}) \/ midFrame,
           NEW r, recv' = [recv EXCEPT ![rxd] = r], rxd' = Inc(rxd),
           UNCHANGED <<pc, lcsr, recv_next, rxLookahead, flushInputQ, inputQ>>,
           r.status # {}, "OWN" \notin r.status,
           r.frame <= arrived', arrived <= arrived',
           "STP" \in r.status => r.frame = arrived + 1,
           midFrame <=> "STP" \notin r.status,
           midFrame' <=> r.status \cap {"ENP", "ERR"} = {},
           midFrame => ~midFrame',
           midFrame' => Has(Inc(rxd), {"OWN"}) /\ Jabber,
           ~Jabber /\ "STP" \in r.status => "ENP" \in r.status,
           "RINT" \in csr0' => "RINT" \in csr0 \/ ~midFrame',
           rintDue' => RintDelayed
    PROVE  RxInv'
  <1>0. /\ RxTypeOK /\ FramesKnown /\ recv \in Ring /\ rxd \in Idx
        /\ recv_next \in Idx /\ arrived \in Nat /\ arrived' \in Nat
    BY RxAssumption DEF RxInv, RxTypeOK, Ring
  <1>1. \A i \in Idx : recv'[i] = IF i = rxd THEN r ELSE recv[i]
    BY <1>0 DEF Ring
  <1>2. FramesKnown'
    <2> SUFFICES ASSUME NEW i \in Idx
                 PROVE  /\ recv'[i].status # {}
                        /\ recv'[i].frame <= arrived'
                        /\ "STP" \in recv'[i].status => recv'[i].frame > 0
      BY DEF FramesKnown, Has
    <2>1. CASE i = rxd
      BY <1>0, <1>1, <2>1
    <2>2. CASE i # rxd
      <3>1. recv[i].frame \in Nat
        BY <1>0, RxAssumption DEF Ring
      <3> QED  BY <1>0, <1>1, <2>2, <3>1 DEF FramesKnown, Has
    <2> QED  BY <2>1, <2>2
  <1>3. ASSUME RxAligned
        PROVE  \E done \in 0 .. NRx : RingInStep(done)'
    <2>1. PICK done \in 0 .. NRx : RingInStep(done)
      BY <1>3 DEF RxInv
    <2>2. done \in 0 .. NRx - 1
      <3>1. done < NRx
        BY <1>0, <2>1, FillPlace DEF RingInStep
      <3> QED  BY <3>1, RxAssumption
    <2>3. midFrame' => done + 1 < NRx
      BY <1>0, <2>1, <2>2, SecondPlace DEF RingInStep
    <2>4. /\ \A k \in 0 .. NRx - 1 : At(k)' = IF k = done THEN r ELSE At(k)
          /\ Split(done + 1)'
          /\ Ordered(done + 1)'
      BY <1>0, <2>1, <2>2, <2>3, FillOrdered DEF RingInStep
    <2>5. ASSUME RxWhole, Jabber
          PROVE  Whole(done + 1)' /\ RintMeansPacket(done + 1)'
      <3>1. Whole(done) /\ RintMeansPacket(done)
        BY <2>1, <2>5 DEF RingInStep
      <3>2. Whole(done + 1)'
        BY <1>0, <2>2, <2>4, <3>1, FillWhole
      <3>3. 0 \in 0 .. NRx - 1 /\ done \in Nat
        BY RxAssumption
      <3>4. FirstComplete(done) \/ ~midFrame' => FirstComplete(done + 1)'
        <4>1. CASE done > 0
          BY <3>3, <4>1 DEF FirstComplete
        <4>2. CASE done = 0
          <5>1. At(0)' = r
            BY <2>4, <3>3, <4>2
          <5>2. ~FirstComplete(done) /\ (~midFrame' => Ends(0)')
            BY <4>2, <5>1 DEF FirstComplete, Ends
          <5> QED  BY <4>2, <5>2 DEF FirstComplete
        <4> QED  BY <3>3, <4>1, <4>2
      <3>5. RintMeansPacket(done + 1)'
        BY <3>1, <3>4 DEF RintMeansPacket
      <3> QED  BY <3>2, <3>5
    <2>6. done + 1 \in 0 .. NRx
      BY <2>2, RxAssumption
    <2> QED  BY <2>4, <2>5, <2>6 DEF RingInStep
  <1>4. ASSUME ~Jabber
        PROVE  ~midFrame' /\ \A i \in Idx : Has(i, {"STP"})' => Has(i, {"ENP"})'
    BY <1>0, <1>1, <1>4 DEF RxInv, Has
  <1>5. (RxWhole => pc' # "rintReset") /\ (inputQ' => flushInputQ' /\ pc' # "idle")
    BY DEF RxInv
  <1> QED  BY <1>2, <1>3, <1>4, <1>5 DEF RxInv

\* The chip's writing a descriptor keeps the types.
LEMMA WriteType ==
    ASSUME RxTypeOK, NEW status \in SUBSET RMDFlags, NEW frame \in 0 .. MaxFrames,
           NEW complete \in BOOLEAN, Write(status, frame, complete),
           arrived' \in 0 .. MaxFrames, arrived <= arrived'
    PROVE  RxTypeOK'
  <1>1. IntrTypeOK'
    BY DEF RxTypeOK, IntrTypeOK, Write, Csr0Bits, Latched
  <1>2. recv' \in [Idx -> [status : SUBSET RMDFlags, frame : 0 .. MaxFrames]]
    BY DEF RxTypeOK, Write
  <1>3. rxd' \in Idx
    BY AddFacts DEF RxTypeOK, Write
  <1>4. arrived \in Nat /\ delivered' \in 0 .. arrived' /\ dropped' \subseteq 1 .. arrived'
    BY RxAssumption DEF RxTypeOK, Write
  <1>5. midFrame' \in BOOLEAN /\ rintDue' \in BOOLEAN
    BY RxAssumption DEF Write
  <1> QED  BY <1>1, <1>2, <1>3, <1>4, <1>5 DEF RxTypeOK, Write

LEMMA ChipInv == ASSUME RxInv, ChipStep PROVE RxInv'
  <1>0. RxTypeOK /\ arrived \in Nat /\ MaxFrames \in Nat /\ csr0 \in SUBSET Csr0Bits
    BY RxAssumption DEF RxInv, RxTypeOK, IntrTypeOK
  <1>1. CASE ChipReceive
    <2>1. PICK errs \in SUBSET {"ERR"} :
              Write({"STP", "ENP"} \cup errs, arrived + 1, TRUE)
      BY <1>1 DEF ChipReceive
    <2>2. /\ ~midFrame /\ Has(rxd, {"OWN"})
          /\ arrived' = arrived + 1 /\ arrived + 1 \in 0 .. MaxFrames
      BY <1>0, <1>1 DEF ChipReceive, NewFrame, RxTypeOK
    <2>3. RxTypeOK'
      <3>1. {"STP", "ENP"} \cup errs \in SUBSET RMDFlags
        BY DEF RMDFlags
      <3>2. arrived' \in 0 .. MaxFrames /\ arrived <= arrived'
        BY <1>0, <2>1, <2>2
      <3> QED  BY <1>0, <2>1, <2>2, <3>1, <3>2, WriteType
    <2> DEFINE r == [status |-> {"STP", "ENP"} \cup errs, frame |-> arrived + 1]
    <2>4. /\ recv' = [recv EXCEPT ![rxd] = r] /\ rxd' = Inc(rxd) /\ ~midFrame'
          /\ rintDue' => RintDelayed
          /\ UNCHANGED <<pc, lcsr, recv_next, rxLookahead, flushInputQ, inputQ>>
      BY <2>1 DEF Write
    <2>5. /\ r.frame = arrived + 1 /\ r.status # {} /\ "OWN" \notin r.status
          /\ "STP" \in r.status /\ "ENP" \in r.status
          /\ r.status \cap {"ENP", "ERR"} # {}
      OBVIOUS
    <2> HIDE DEF r
    <2>6. r.frame <= arrived' /\ arrived <= arrived'
      BY <1>0, <2>2, <2>5
    <2> QED  BY <2>2, <2>3, <2>4, <2>5, <2>6, FillInv
  <1>2. CASE ChipOverrun
    <2>1. /\ Jabber /\ ~midFrame /\ Has(rxd, {"OWN"})
          /\ arrived' = arrived + 1 /\ arrived + 1 \in 0 .. MaxFrames
      BY <1>0, <1>2 DEF ChipOverrun, NewFrame, RxTypeOK
    <2>2. CASE Has(Inc(rxd), {"OWN"})
      <3>1. Write({"STP"}, arrived + 1, FALSE)
        BY <1>2, <2>2 DEF ChipOverrun
      <3>2. RxTypeOK'
        <4>1. {"STP"} \in SUBSET RMDFlags
          BY DEF RMDFlags
        <4>2. arrived' \in 0 .. MaxFrames /\ arrived <= arrived'
          BY <1>0, <2>1, <3>1
        <4> QED  BY <1>0, <2>1, <3>1, <4>1, <4>2, WriteType
      <3> DEFINE r == [status |-> {"STP"}, frame |-> arrived + 1]
      <3>3. /\ recv' = [recv EXCEPT ![rxd] = r] /\ rxd' = Inc(rxd)
            /\ midFrame' /\ csr0' = csr0 /\ ~rintDue'
            /\ UNCHANGED <<pc, lcsr, recv_next, rxLookahead, flushInputQ, inputQ>>
        BY <3>1 DEF Write
      <3>4. /\ r.frame = arrived + 1 /\ r.status # {} /\ "OWN" \notin r.status
            /\ "STP" \in r.status /\ r.status \cap {"ENP", "ERR"} = {}
        OBVIOUS
      <3> HIDE DEF r
      <3>5. r.frame <= arrived' /\ arrived <= arrived'
        BY <1>0, <2>1, <3>4
      <3> QED  BY <2>1, <2>2, <3>2, <3>3, <3>4, <3>5, FillInv
    <2>3. CASE ~Has(Inc(rxd), {"OWN"})
      <3>1. Write({"STP", "ERR"}, arrived + 1, TRUE)
        BY <1>2, <2>3 DEF ChipOverrun
      <3>2. RxTypeOK'
        <4>1. {"STP", "ERR"} \in SUBSET RMDFlags
          BY DEF RMDFlags
        <4>2. arrived' \in 0 .. MaxFrames /\ arrived <= arrived'
          BY <1>0, <2>1, <3>1
        <4> QED  BY <1>0, <2>1, <3>1, <4>1, <4>2, WriteType
      <3> DEFINE r == [status |-> {"STP", "ERR"}, frame |-> arrived + 1]
      <3>3. /\ recv' = [recv EXCEPT ![rxd] = r] /\ rxd' = Inc(rxd) /\ ~midFrame'
            /\ rintDue' => RintDelayed
            /\ UNCHANGED <<pc, lcsr, recv_next, rxLookahead, flushInputQ, inputQ>>
        BY <3>1 DEF Write
      <3>4. /\ r.frame = arrived + 1 /\ r.status # {} /\ "OWN" \notin r.status
            /\ "STP" \in r.status /\ r.status \cap {"ENP", "ERR"} # {}
        OBVIOUS
      <3> HIDE DEF r
      <3>5. r.frame <= arrived' /\ arrived <= arrived'
        BY <1>0, <2>1, <3>4
      <3> QED  BY <2>1, <3>2, <3>3, <3>4, <3>5, FillInv
    <2> QED  BY <2>2, <2>3
  <1>3. CASE ChipFinish
    <2>1. PICK errs \in SUBSET {"ERR"} : Write({"ENP"} \cup errs, arrived, TRUE)
      BY <1>3 DEF ChipFinish
    <2>2. midFrame /\ arrived' = arrived /\ arrived \in 0 .. MaxFrames
      BY <1>0, <1>3 DEF ChipFinish, RxTypeOK
    <2>3. RxTypeOK'
      <3>1. {"ENP"} \cup errs \in SUBSET RMDFlags
        BY DEF RMDFlags
      <3>2. arrived' \in 0 .. MaxFrames /\ arrived <= arrived'
        BY <1>0, <2>1, <2>2
      <3> QED  BY <1>0, <2>1, <2>2, <3>1, <3>2, WriteType
    <2> DEFINE r == [status |-> {"ENP"} \cup errs, frame |-> arrived]
    <2>4. /\ recv' = [recv EXCEPT ![rxd] = r] /\ rxd' = Inc(rxd) /\ ~midFrame'
          /\ rintDue' => RintDelayed
          /\ UNCHANGED <<pc, lcsr, recv_next, rxLookahead, flushInputQ, inputQ>>
      BY <2>1 DEF Write
    <2>5. /\ r.frame = arrived /\ r.status # {} /\ "OWN" \notin r.status
          /\ "STP" \notin r.status /\ r.status \cap {"ENP", "ERR"} # {}
      OBVIOUS
    <2> HIDE DEF r
    <2>6. r.frame <= arrived' /\ arrived <= arrived'
      BY <1>0, <2>2, <2>5
    <2> QED  BY <2>2, <2>3, <2>4, <2>5, <2>6, FillInv
  <1>4. CASE ChipMiss
    <2>1. arrived' = arrived + 1 /\ arrived' \in 0 .. MaxFrames
      BY <1>0, <1>4 DEF ChipMiss, NewFrame, RxTypeOK
    <2>2. delivered' \in 0 .. arrived' /\ dropped' \subseteq 1 .. arrived'
      BY <1>0, <1>4, <2>1 DEF ChipMiss, RxTypeOK
    <2>3. IntrTypeOK' /\ ("RINT" \in csr0' => "RINT" \in csr0)
      BY <1>0, <1>4 DEF ChipMiss, RxTypeOK, IntrTypeOK, Csr0Bits, Latched
    <2>4. RxTypeOK'
      BY <1>4, <2>1, <2>2, <2>3 DEF ChipMiss, RxInv, RxTypeOK
    <2>5. FramesKnown'
      <3> SUFFICES ASSUME NEW i \in Idx
                   PROVE  recv[i].frame <= arrived + 1
        BY <1>4, <2>1 DEF ChipMiss, RxInv, FramesKnown, Has
      <3>1. recv[i].frame \in Nat /\ recv[i].frame <= arrived
        BY <1>0 DEF RxInv, FramesKnown, RxTypeOK
      <3> QED  BY <1>0, <3>1
    <2>6. ASSUME RxAligned
          PROVE  \E done \in 0 .. NRx : RingInStep(done)'
      <3>1. PICK done \in 0 .. NRx : RingInStep(done)
        BY <2>6 DEF RxInv
      <3>2. Split(done)' /\ Ordered(done)'
        BY <1>4, <3>1 DEF ChipMiss, RingInStep, Split, Ordered, At, Starts
      <3>3. ASSUME Whole(done) PROVE Whole(done)'
        BY <1>4, <3>3 DEF ChipMiss, Whole, At, Starts, Ends
      <3>4. ASSUME RintMeansPacket(done) PROVE RintMeansPacket(done)'
        BY <1>4, <2>3, <3>4
           DEF ChipMiss, RintMeansPacket, FirstComplete, Ends, At
      <3> QED  BY <3>1, <3>2, <3>3, <3>4 DEF RingInStep
    <2> QED  BY <1>4, <2>4, <2>5, <2>6 DEF ChipMiss, RxInv, Has
  <1>5. CASE ChipRaiseRint
    <2>1. RxTypeOK'
      BY <1>0, <1>5 DEF ChipRaiseRint, RxTypeOK, IntrTypeOK, Csr0Bits, Latched
    <2>2. ~(RxWhole /\ Jabber) /\ ~rintDue'
      BY <1>5 DEF ChipRaiseRint, RxInv, RxWhole
    <2> QED
      BY <1>5, <2>1, <2>2, RingKept DEF ChipRaiseRint, RxInv
  <1> QED  BY <1>1, <1>2, <1>3, <1>4, <1>5 DEF ChipStep

----------------------------------------------------------------------------
(* lnc_rint.                                                                *)

\* A complete packet has one descriptor or two.
PacketSize == IF Has(recv_next, {"ENP", "ERR"}) THEN 1 ELSE 2

LEMMA PacketSizeFacts ==
    ASSUME RxTypeOK, FramesKnown
    PROVE  /\ PacketSize \in 1 .. NRx
           /\ PacketDescs = Span(recv_next, PacketSize)
           /\ Inc(PacketEnd) = Add(recv_next, PacketSize)
  <1>1. recv_next \in Idx
    BY DEF RxTypeOK
  <1>2. CASE Has(recv_next, {"ENP", "ERR"})
    BY <1>1, <1>2, PacketEndFacts, StepsFacts, AddFacts, RxAssumption
       DEF PacketSize, PacketDescs
  <1>3. CASE ~Has(recv_next, {"ENP", "ERR"})
    <2>1. PacketEnd = Inc(recv_next) /\ PacketSize = 2
      BY <1>3, PacketEndFacts DEF PacketSize
    <2>2. 1 \in 0 .. NRx - 1 /\ 2 \in 1 .. NRx /\ 1 + 1 = 2
      BY RxAssumption
    <2>3. Inc(Inc(recv_next)) = Add(recv_next, 2)
      BY <1>1, <2>2, AddFacts
    <2> QED  BY <1>1, <2>1, <2>2, <2>3, StepsFacts DEF PacketDescs
  <1> QED  BY <1>2, <1>3

\* All its descriptors have been given up by the chip.
LEMMA PacketThere ==
    ASSUME RxTypeOK, FramesKnown, NEW done \in 0 .. NRx, Split(done),
           Has(recv_next, {"STP"})
    PROVE  /\ done > 0
           /\ Starts(0)
           /\ Ends(0) <=> Has(recv_next, {"ENP", "ERR"})
           /\ ~Ends(0) => At(1) = recv[PacketEnd]
           /\ PacketComplete => PacketSize <= done
  <1>1. At(0) = recv[recv_next]
    BY AddFacts DEF At, RxTypeOK
  <1>2. Starts(0) /\ (Ends(0) <=> Has(recv_next, {"ENP", "ERR"}))
    BY <1>1 DEF Starts, Ends, Has
  <1>3. 0 \in 0 .. NRx - 1 /\ 1 \in 0 .. NRx - 1
    BY RxAssumption
  <1>4. done > 0
    <2>1. SUFFICES ASSUME done = 0 PROVE FALSE
      BY RxAssumption
    <2>2. At(0) = Owned
      BY <1>3, <2>1 DEF Split
    <2> QED  BY <1>2, <2>2 DEF Starts, Owned
  <1>5. ~Ends(0) => At(1) = recv[PacketEnd]
    BY <1>2, PacketEndFacts, AddFacts DEF At, RxTypeOK
  <1>6. ASSUME PacketComplete, ~Ends(0) PROVE 2 <= done
    <2>1. SUFFICES ASSUME ~(1 < done) PROVE FALSE
      BY RxAssumption
    <2>2. At(1) = Owned
      BY <1>3, <2>1 DEF Split
    <2> QED  BY <1>2, <1>5, <1>6, <2>2 DEF PacketComplete, Has, Owned
  <1>7. PacketComplete => PacketSize <= done
    BY <1>2, <1>4, <1>6, RxAssumption DEF PacketSize
  <1> QED  BY <1>2, <1>4, <1>5, <1>7

\* Giving back the first n descriptors leaves the ring in step.
LEMMA ShiftSplit ==
    ASSUME RxTypeOK, NEW done \in 0 .. NRx, NEW n \in 1 .. NRx, n <= done,
           Split(done), Ordered(done),
           recv' = [i \in Idx |->
                       IF i \in Span(recv_next, n) THEN Owned ELSE recv[i]],
           recv_next' = Add(recv_next, n), UNCHANGED <<rxd, midFrame>>
    PROVE  /\ \A k \in 0 .. NRx - 1 :
                  At(k)' = IF k < NRx - n THEN At(k + n) ELSE Owned
           /\ Split(done - n)'
           /\ Ordered(done - n)'
  <1>1. recv \in Ring /\ recv_next \in Idx
    BY DEF RxTypeOK, Ring
  <1>2. \A k \in 0 .. NRx - 1 : At(k)' = IF k < NRx - n THEN At(k + n) ELSE Owned
    BY <1>1, ConsumeAt
  <1>3. /\ \A k \in 0 .. NRx - 1 : k < NRx - n => k + n \in 0 .. NRx - 1
        /\ \A k \in 0 .. (done - n) - 1 :
               /\ k \in 0 .. NRx - 1 /\ k < NRx - n /\ k + n \in 0 .. done - 1
               /\ \A l \in 0 .. k - 1 :
                      l \in 0 .. (done - n) - 1 /\ l + n \in 0 .. (k + n) - 1
    BY RxAssumption
  <1>4. Split(done - n)'
    <2>1. rxd' = Add(recv_next', done - n)
      <3>1. done - n \in 0 .. NRx /\ n \in 0 .. NRx /\ n + (done - n) = done
            /\ n + (done - n) <= NRx
        BY RxAssumption
      <3>2. Add(Add(recv_next, n), done - n) = Add(recv_next, done)
        BY <1>1, <3>1, AddAdd
      <3> QED  BY <3>2 DEF Split
    <2>2. ASSUME NEW k \in 0 .. NRx - 1
          PROVE  IF k < done - n
                 THEN At(k)'.status # {} /\ "OWN" \notin At(k)'.status
                 ELSE At(k)' = Owned
      <3>1. CASE k < NRx - n
        <4>1. k + n \in 0 .. NRx - 1 /\ (k + n < done <=> k < done - n)
          BY <3>1, RxAssumption
        <4> QED  BY <1>2, <3>1, <4>1 DEF Split
      <3>2. CASE ~(k < NRx - n)
        <4>1. ~(k < done - n)
          BY <3>2, RxAssumption
        <4> QED  BY <1>2, <3>2, <4>1
      <3> QED  BY <3>1, <3>2
    <2>3. midFrame' => done - n < NRx
      BY RxAssumption DEF Split
    <2> QED  BY <2>1, <2>2, <2>3 DEF Split, Owned
  <1>5. Ordered(done - n)'
    BY <1>2, <1>3 DEF Ordered, Starts
  <1> QED  BY <1>2, <1>4, <1>5

\* A packet that is whole leaves whole packets behind.
LEMMA ShiftWhole ==
    ASSUME NEW done \in 0 .. NRx, Whole(done), Starts(0), done > 0,
           NEW n \in {1, 2}, n <= done,
           n = 1 => Ends(0),
           n = 2 => ~Ends(0),
           \A k \in 0 .. NRx - 1 :
               At(k)' = IF k < NRx - n THEN At(k + n) ELSE Owned,
           midFrame' = midFrame
    PROVE  Whole(done - n)'
  <1> DEFINE m == done - n
             starts(k) == "STP" \in At(k)'.status
             ends(k) == At(k)'.status \cap {"ENP", "ERR"} # {}
  <1>1. /\ m \in Nat /\ done = m + n /\ n \in Nat
        /\ \A k \in 0 .. m - 1 : k + n \in 0 .. done - 1 /\ k \in 0 .. NRx - 1
                                 /\ k < NRx - n
    BY RxAssumption
  <1>2. \A k \in 0 .. m - 1 : (starts(k) <=> Starts(k + n)) /\ (ends(k) <=> Ends(k + n))
    BY <1>1 DEF Starts, Ends
  <1> HIDE DEF starts, ends, m
  <1>3. ASSUME NEW k \in 0 .. m - 1, starts(k), ~ends(k), k < m - 1
        PROVE  ~starts(k + 1)
    <2>1. /\ k + n \in 0 .. done - 1 /\ k + n < done - 1
          /\ k + 1 \in 0 .. m - 1 /\ (k + 1) + n = (k + n) + 1
      BY <1>1, <1>3
    <2> QED  BY <1>2, <1>3, <2>1 DEF Whole
  <1>4. ASSUME NEW k \in 0 .. m - 1, ~starts(k)
        PROVE  k > 0 /\ starts(k - 1) /\ ~ends(k - 1)
    <2>1. /\ k + n \in 0 .. done - 1 /\ ~Starts(k + n)
          /\ Starts((k + n) - 1) /\ ~Ends((k + n) - 1)
      BY <1>1, <1>2, <1>4 DEF Whole
    <2>2. k > 0
      <3>1. SUFFICES ASSUME k = 0 PROVE FALSE
        OBVIOUS
      <3>2. CASE n = 1
        BY <2>1, <3>1, <3>2
      <3>3. CASE n = 2
        <4>1. Starts(1) /\ 0 \in 0 .. done - 1 /\ 0 < done - 1 /\ 0 + 1 = 1
          BY <1>1, <2>1, <3>1, <3>3
        <4> QED  BY <3>3, <4>1 DEF Whole
      <3> QED  BY <3>2, <3>3
    <2>3. k - 1 \in 0 .. m - 1 /\ (k - 1) + n = (k + n) - 1
      BY <1>1, <2>2
    <2> QED  BY <1>2, <2>1, <2>2, <2>3
  <1>5. CASE m > 0
    <2>1. /\ m - 1 \in 0 .. m - 1 /\ (m - 1) + n = done - 1
          /\ starts(m - 1) <=> Starts(done - 1)
          /\ ends(m - 1) <=> Ends(done - 1)
      BY <1>1, <1>2, <1>5
    <2>2. IF midFrame' THEN m > 0 /\ starts(m - 1) /\ ~ends(m - 1)
          ELSE m > 0 /\ starts(m - 1) => ends(m - 1)
      BY <1>1, <1>5, <2>1 DEF Whole
    <2> QED  BY <1>1, <1>3, <1>4, <2>2 DEF Whole, starts, ends, Starts, Ends, m
  <1>6. CASE m = 0
    <2>1. ~midFrame
      <3>1. CASE n = 1
        BY <1>1, <1>6, <3>1 DEF Whole
      <3>2. CASE n = 2
        <4>1. SUFFICES ASSUME midFrame PROVE FALSE
          OBVIOUS
        <4>2. done = 2 /\ Starts(1)
          BY <1>1, <1>6, <3>2, <4>1 DEF Whole
        <4>3. 0 \in 0 .. done - 1 /\ 0 < done - 1 /\ 0 + 1 = 1
          BY <4>2
        <4> QED  BY <3>2, <4>2, <4>3 DEF Whole
      <3> QED  BY <3>1, <3>2
    <2>2. done - n = 0
      BY <1>6 DEF m
    <2> QED  BY <2>1, <2>2 DEF Whole
  <1> QED  BY <1>1, <1>5, <1>6

LEMMA ConsumeInv ==
    ASSUME RxInv, pc = "rint", Has(recv_next, {"STP"}), PacketComplete,
           NEW outcome \in Outcomes, Consume(outcome)
    PROVE  RxInv'
  <1>0. /\ RxTypeOK /\ FramesKnown /\ recv \in Ring /\ recv_next \in Idx
        /\ Owned \in [status : SUBSET RMDFlags, frame : 0 .. MaxFrames]
        /\ Inc(PacketEnd) \in Idx
    BY PacketEndFacts, RxAssumption DEF RxInv, RxTypeOK, Ring, Owned, RMDFlags
  <1>1. \A i \in Idx : recv'[i] = recv[i] \/ recv'[i] = Owned
    BY DEF Consume
  <1>2. RxTypeOK'
    <2>1. recv' \in Ring
      BY <1>0 DEF Consume, Ring
    <2>2. IntrTypeOK'
      BY <1>0 DEF Consume, intrVars, RxTypeOK, IntrTypeOK
    <2>3. recv[recv_next].frame \in 1 .. arrived
      BY <1>0, RxAssumption DEF FramesKnown, Ring, RxTypeOK
    <2>4. delivered' \in 0 .. arrived' /\ dropped' \subseteq 1 .. arrived'
      <3>1. /\ arrived' = arrived /\ arrived \in Nat
            /\ delivered' \in {delivered, recv[recv_next].frame}
            /\ dropped' \subseteq dropped \cup {recv[recv_next].frame}
        BY <1>0, RxAssumption DEF Consume, RxTypeOK
      <3> QED  BY <1>0, <2>3, <3>1 DEF RxTypeOK
    <2>5. flushInputQ' \in BOOLEAN /\ inputQ' \in BOOLEAN
      BY <1>0 DEF Consume, Queued, RxTypeOK
    <2> QED
      BY <1>0, <2>1, <2>2, <2>4, <2>5 DEF Consume, RxTypeOK, Ring
  <1>3. FramesKnown'
    <2>1. arrived \in Nat
      BY <1>0, RxAssumption DEF RxTypeOK
    <2> QED  BY <1>0, <1>1, <2>1 DEF Consume, FramesKnown, Has, Owned
  <1>4. inputQ' => flushInputQ' /\ pc' # "idle"
    BY DEF RxInv, Consume, Queued, intrVars
  <1>5. ASSUME RxAligned
        PROVE  \E done \in 0 .. NRx : RingInStep(done)'
    <2>1. PICK done \in 0 .. NRx : RingInStep(done)
      BY <1>5 DEF RxInv
    <2>n. PICK n \in 1 .. NRx : n = PacketSize
      BY <1>0, PacketSizeFacts
    <2>2. /\ n <= done
          /\ done > 0 /\ Starts(0)
          /\ Ends(0) <=> Has(recv_next, {"ENP", "ERR"})
      BY <1>0, <2>1, <2>n, PacketThere DEF RingInStep
    <2>3. GivenBack(outcome) = Span(recv_next, n)
      <3>1. outcome # "nombuf"
        BY <1>5 DEF Outcomes, RxAligned
      <3> QED  BY <1>0, <2>n, <3>1, PacketSizeFacts DEF GivenBack
    <2>4. /\ recv' = [i \in Idx |-> IF i \in Span(recv_next, n)
                                    THEN Owned ELSE recv[i]]
          /\ recv_next' = Add(recv_next, n)
          /\ UNCHANGED <<rxd, midFrame>>
      BY <1>0, <2>n, <2>3, PacketSizeFacts DEF Consume
    <2>5. /\ \A k \in 0 .. NRx - 1 :
                 At(k)' = IF k < NRx - n THEN At(k + n) ELSE Owned
          /\ Split(done - n)'
          /\ Ordered(done - n)'
      BY <1>0, <2>1, <2>2, <2>4, ShiftSplit DEF RingInStep
    <2>6. ASSUME RxWhole, Jabber
          PROVE  Whole(done - n)' /\ RintMeansPacket(done - n)'
      <3>1. Whole(done)
        BY <2>1, <2>6 DEF RingInStep
      <3>2. /\ n \in {1, 2}
            /\ n = 1 => Ends(0)
            /\ n = 2 => ~Ends(0)
        BY <2>2, <2>n DEF PacketSize
      <3>3. Whole(done - n)'
        BY <2>2, <2>4, <2>5, <3>1, <3>2, ShiftWhole
      <3>4. pc' = "rint" /\ rxLookahead'
        BY DEF Consume, intrVars
      <3> QED  BY <3>3, <3>4 DEF RintMeansPacket
    <2>7. done - n \in 0 .. NRx
      BY <2>2, RxAssumption
    <2> QED  BY <2>5, <2>6, <2>7 DEF RingInStep
  <1>6. ~Jabber => ~midFrame' /\ \A i \in Idx : Has(i, {"STP"})' => Has(i, {"ENP"})'
    BY <1>1 DEF RxInv, Has, Consume, Owned
  <1>7. pc' = pc /\ rintDue' = rintDue
    BY DEF Consume, intrVars
  <1> QED  BY <1>2, <1>3, <1>4, <1>5, <1>6, <1>7 DEF RxInv

\* A packet that is not complete is one the chip is still filling, and
\* lnc_rint has seen another before it.
LEMMA IncompleteMeansFilling ==
    ASSUME RxInv, RxWhole, pc = "rint", Has(recv_next, {"STP"}), ~PacketComplete
    PROVE  StillReceiving
  <1>0. RxTypeOK /\ FramesKnown /\ recv_next \in Idx
    BY DEF RxInv, RxTypeOK
  <1>1. ~Has(recv_next, {"ENP", "ERR"})
    BY DEF PacketComplete
  <1>2. Jabber
    BY <1>0, <1>1 DEF RxInv, Has
  <1>3. RxAligned
    BY <1>2 DEF RxWhole
  <1>4. PICK done \in 0 .. NRx : RingInStep(done)
    BY <1>3 DEF RxInv
  <1>5. Whole(done) /\ RintMeansPacket(done) /\ Split(done)
    BY <1>2, <1>4 DEF RingInStep
  <1>6. done > 0 /\ Starts(0) /\ ~Ends(0) /\ At(1) = recv[PacketEnd]
    BY <1>0, <1>1, <1>5, PacketThere
  <1>7. CASE done = 1
    <2>1. rxLookahead
      BY <1>5, <1>6, <1>7 DEF RintMeansPacket, FirstComplete
    <2>2. At(1) = Owned
      BY <1>5, <1>7, RxAssumption DEF Split
    <2> QED  BY <1>6, <2>1, <2>2 DEF StillReceiving, Has, Owned
  <1>8. CASE done > 1
    <2>1. ~Starts(1)
      <3>1. 0 \in 0 .. done - 1 /\ 0 < done - 1 /\ 0 + 1 = 1
        BY <1>8
      <3> QED  BY <1>5, <1>6, <3>1 DEF Whole
    <2>2. "OWN" \notin At(1).status
      BY <1>5, <1>8, RxAssumption DEF Split
    <2>3. Has(PacketEnd, {"STP", "OWN"})
      BY <1>1 DEF PacketComplete
    <2> QED  BY <1>6, <2>1, <2>2, <2>3 DEF Has, Starts
  <1> QED  BY <1>6, <1>7, <1>8

LEMMA RintInv == ASSUME RxInv, RintPacket \/ RintDone \/ RintEnd PROVE RxInv'
  <1>0. RxTypeOK /\ csr0 \in SUBSET Csr0Bits /\ pc \in IntrPCs
    BY DEF RxInv, RxTypeOK, IntrTypeOK
  <1>1. CASE RintPacket /\ PacketComplete
    BY <1>1, ConsumeInv DEF RintPacket
  <1>2. CASE (RintPacket /\ ~PacketComplete) \/ RintDone
    <2>1. /\ pc = "rint"
          /\ pc' \in {"rintEnd", "rintReset"}
          /\ RxWhole => pc' = "rintEnd"
          /\ UNCHANGED <<csr0, lcsr, initDone, resets, events, rxVars>>
      BY <1>2, IncompleteMeansFilling DEF RintPacket, RintDone
    <2>2. RxTypeOK'
      BY <1>0, <2>1 DEF RxTypeOK, IntrTypeOK, IntrPCs, rxVars
    <2>3. ASSUME NEW done, RxWhole, RintMeansPacket(done)
          PROVE  RintMeansPacket(done)'
      BY <2>1, <2>3 DEF RintMeansPacket
    <2> QED  BY <2>1, <2>2, <2>3, RingKept DEF RxInv, rxVars
  <1>3. CASE RintEnd
    <2>1. csr0' \subseteq Csr0Bits /\ "RINT" \notin csr0'
      BY <1>0, <1>3, CsrWriteFacts DEF RintEnd, RintEndWrite, Csr0Bits, Latched
    <2>2. pc' \in {"tint", "read"}
      BY <1>3 DEF RintEnd, AfterRint
    <2>3. RxTypeOK'
      BY <1>0, <1>3, <2>1, <2>2 DEF RintEnd, RxTypeOK, IntrTypeOK, IntrPCs
    <2>4. ASSUME NEW done, RintMeansPacket(done)
          PROVE  RintMeansPacket(done)'
      BY <2>1, <2>2 DEF RintMeansPacket
    <2> QED  BY <1>3, <2>2, <2>3, <2>4, RingKept DEF RintEnd, RxInv
  <1> QED  BY <1>1, <1>2, <1>3

LEMMA RxInvNext == ASSUME RxInv, [RxNext]_vars PROVE RxInv'
  <1>1. CASE LncReset \/ SetPromiscuousMode
    BY <1>1, InitInv DEF LncReset, SetPromiscuousMode
  <1>2. CASE SetMulticastList
    BY <1>2, StopInv DEF SetMulticastList
  <1>3. CASE RxIntrEnter \/ RxIntrReturn
    BY <1>3, EnterReturnInv DEF RxIntrEnter, RxIntrReturn
  <1>4. CASE RxIntrRead \/ RxIntrAck
    BY <1>4, ReadAckInv DEF RxIntrRead, RxIntrAck
  <1> QED
    BY <1>1, <1>2, <1>3, <1>4, RintInv, OtherInv, ChipInv DEF RxNext, HandlerStep

\* PCNet_lnc.cpp:380-545 and the chip, in one invariant: whatever the ring
\* size, the frames and the settings, no step of either leaves RxInv.
THEOREM RxInvariant == RxSpec => []RxInv
  <1>1. RxInit => RxInv
    BY RxInvInit
  <1>2. RxInv /\ [RxNext]_vars => RxInv'
    BY RxInvNext
  <1> QED  BY <1>1, <1>2, PTL DEF RxSpec

\* Every variable of the receive half keeps its type; in particular the frame
\* passed up last and the dropped ones are frames that have arrived.
THEOREM RxTypeCorrect == RxSpec => []RxTypeOK
  <1>1. RxInv => RxTypeOK
    BY DEF RxInv
  <1> QED  BY <1>1, RxInvariant, PTL

\* No order of interrupts, frames and resets lets the work loop's gate go with
\* a packet left in inputPacket's queue.
THEOREM InputAlwaysFlushed == RxSpec => []InputFlushed
  <1>1. RxInv => InputFlushed
    BY DEF RxInv, InputFlushed
  <1> QED  BY <1>1, RxInvariant, PTL

\* The diagnostic check of lnc_rint (PCNet_lnc.cpp:367-372) never resets the
\* adapter, unless long frames are cut off by STOP, RINT comes late or a
\* dropped packet keeps its descriptors.
THEOREM RintInSync == ASSUME RxWhole PROVE RxSpec => []RintSync
  <1>1. RxInv => RintSync
    BY DEF RxInv, RintSync
  <1> QED  BY <1>1, RxInvariant, PTL

\* Every descriptor is either the driver's to look at or the chip's to fill:
\* the receive ring never shrinks.
THEOREM RingKeepsDescriptors == ASSUME RxAligned PROVE RxSpec => []NoDescriptorLost
  <1>1. ASSUME RxInv PROVE NoDescriptorLost
    <2>1. PICK done \in 0 .. NRx : Split(done)
      BY <1>1 DEF RxInv, RingInStep
    <2>2. ASSUME NEW k \in 0 .. NRx - 1
          PROVE  Has(Add(recv_next, k), {"OWN"}) <=> k >= done
      <3>1. Has(Add(recv_next, k), {"OWN"}) <=> "OWN" \in At(k).status
        BY DEF Has, At
      <3> QED  BY <2>1, <3>1, RxAssumption DEF Split, Owned
    <2> QED  BY <2>1, <2>2 DEF NoDescriptorLost, Split
  <1> QED  BY <1>1, RxInvariant, PTL

----------------------------------------------------------------------------
(* The ring implements RxPath.                                              *)

\* Only buffers the driver has hold frames, each of them another one.
LEMMA WaitingFacts ==
    ASSUME RxInv, RxAligned
    PROVE  \E done \in 0 .. NRx :
               /\ Split(done)
               /\ \A i \in Idx : Has(i, {"STP"}) =>
                      \E k \in 0 .. done - 1 :
                          i = Add(recv_next, k) /\ Starts(k)
               /\ \A k, l \in 0 .. done - 1 :
                      Starts(k) /\ Starts(l) /\ l < k => At(l).frame < At(k).frame
  <1>1. PICK done \in 0 .. NRx : RingInStep(done)
    BY DEF RxInv
  <1>2. ASSUME NEW i \in Idx, Has(i, {"STP"})
        PROVE  \E k \in 0 .. done - 1 : i = Add(recv_next, k) /\ Starts(k)
    <2>1. PICK k \in 0 .. NRx - 1 : i = Add(recv_next, k)
      BY AddOnto DEF RxInv, RxTypeOK
    <2>2. Starts(k)
      BY <1>2, <2>1 DEF Starts, At, Has
    <2>3. k < done
      BY <1>1, <2>2 DEF RingInStep, Split, Starts, Owned
    <2>4. k \in 0 .. done - 1
      BY <2>3, RxAssumption
    <2> QED  BY <2>1, <2>2, <2>4
  <1>3. ASSUME NEW k \in 0 .. done - 1, NEW l \in 0 .. done - 1,
               Starts(k), Starts(l), l < k
        PROVE  At(l).frame < At(k).frame
    <2>1. l \in 0 .. k - 1
      BY <1>3
    <2> QED  BY <1>1, <1>3, <2>1 DEF RingInStep, Ordered
  <1> QED  BY <1>1, <1>2, <1>3 DEF RingInStep

\* The descriptor at recv_next holds the oldest frame, and no other has it.
LEMMA OldestFirst ==
    ASSUME RxInv, RxAligned, Has(recv_next, {"STP"}), NEW i \in Idx,
           Has(i, {"STP"}), i # recv_next
    PROVE  recv[recv_next].frame < recv[i].frame
  <1>1. PICK done \in 0 .. NRx :
               /\ \A j \in Idx : Has(j, {"STP"}) =>
                      \E k \in 0 .. done - 1 :
                          j = Add(recv_next, k) /\ Starts(k)
               /\ \A k, l \in 0 .. done - 1 :
                      Starts(k) /\ Starts(l) /\ l < k => At(l).frame < At(k).frame
    BY WaitingFacts
  <1>2. PICK k \in 0 .. done - 1 : i = Add(recv_next, k) /\ Starts(k)
    BY <1>1
  <1>3. recv_next \in Idx /\ Add(recv_next, 0) = recv_next
    BY AddFacts DEF RxInv, RxTypeOK
  <1>4. k # 0 /\ 0 \in 0 .. done - 1 /\ 0 < k
    BY <1>2, <1>3
  <1>5. Starts(0) /\ At(0) = recv[recv_next] /\ At(k) = recv[i]
    BY <1>2, <1>3 DEF Starts, At, Has
  <1> QED  BY <1>1, <1>2, <1>4, <1>5

\* A new frame in the chip's descriptor joins the ones that wait.
LEMMA FillWaiting ==
    ASSUME RxInv, RxAligned, Has(rxd, {"OWN"}) \/ midFrame,
           NEW r, recv' = [recv EXCEPT ![rxd] = r]
    PROVE  Waiting' = Waiting \cup (IF "STP" \in r.status THEN {r.frame} ELSE {})
  <1>0. recv \in Ring /\ rxd \in Idx
    BY DEF RxInv, RxTypeOK, Ring
  <1>1. recv[rxd] = Owned
    <2>1. PICK done \in 0 .. NRx : Split(done)
      BY DEF RxInv, RingInStep
    <2>2. done < NRx
      BY <2>1, FillPlace DEF RxInv
    <2>3. done \in 0 .. NRx - 1 /\ At(done) = Owned
      BY <2>1, <2>2, RxAssumption DEF Split
    <2> QED  BY <2>1, <2>3 DEF At, Split
  <1>2. \A i \in Idx : recv'[i] = IF i = rxd THEN r ELSE recv[i]
    BY <1>0 DEF Ring
  <1>3. \A i \in Idx : Has(i, {"STP"})' <=> "STP" \in recv'[i].status
    BY DEF Has
  <1>4. ~Has(rxd, {"STP"})
    BY <1>1 DEF Has, Owned
  <1> QED  BY <1>0, <1>2, <1>3, <1>4 DEF Waiting, Has

\* Handling a packet takes the oldest frame out.
LEMMA ConsumeWaiting ==
    ASSUME RxInv, RxAligned, Has(recv_next, {"STP"}), PacketComplete,
           NEW outcome \in Outcomes, Consume(outcome)
    PROVE  Waiting' = Waiting \ {recv[recv_next].frame}
  <1>0. /\ RxTypeOK /\ FramesKnown /\ recv_next \in Idx
        /\ PacketEnd \in Idx
    BY PacketEndFacts DEF RxInv, RxTypeOK
  <1>1. PICK n \in 1 .. NRx : n = PacketSize
    BY <1>0, PacketSizeFacts
  <1>2. outcome # "nombuf"
    BY DEF Outcomes, RxAligned
  <1>3. \A i \in Idx : recv'[i] = IF i \in Span(recv_next, n) THEN Owned ELSE recv[i]
    BY <1>0, <1>1, <1>2, PacketSizeFacts DEF Consume, GivenBack
  <1>4. recv_next \in Span(recv_next, n)
    BY <1>0, AddFacts DEF Span
  <1>5. ASSUME NEW i \in Span(recv_next, n), i # recv_next
        PROVE  i \in Idx /\ ~Has(i, {"STP"})
    <2>1. PICK k \in 0 .. n - 1 : i = Add(recv_next, k)
      BY DEF Span
    <2>2. k # 0
      BY <1>0, <1>5, <2>1, AddFacts
    <2>3. ~Has(recv_next, {"ENP", "ERR"}) /\ k = 1
      BY <1>1, <2>2, RxAssumption DEF PacketSize
    <2>4. i = PacketEnd
      BY <1>0, <2>1, <2>3, PacketEndFacts, AddFacts
    <2> QED  BY <1>0, <2>3, <2>4 DEF PacketComplete, Has
  <1>6. \A i \in Idx : Has(i, {"STP"})' <=> Has(i, {"STP"}) /\ i # recv_next
    <2> SUFFICES ASSUME NEW i \in Idx
                 PROVE  Has(i, {"STP"})' <=> Has(i, {"STP"}) /\ i # recv_next
      OBVIOUS
    <2>1. Has(i, {"STP"})' <=> "STP" \in recv'[i].status
      BY DEF Has
    <2>2. CASE i \in Span(recv_next, n)
      BY <1>3, <1>5, <2>1, <2>2 DEF Owned
    <2>3. CASE i \notin Span(recv_next, n)
      BY <1>3, <1>4, <2>1, <2>3 DEF Has
    <2> QED  BY <2>2, <2>3
  <1>7. ASSUME NEW i \in Idx, Has(i, {"STP"}), i # recv_next
        PROVE  recv'[i] = recv[i] /\ recv[i].frame # recv[recv_next].frame
    <2>1. i \notin Span(recv_next, n)
      BY <1>5, <1>7
    <2>2. recv[recv_next].frame < recv[i].frame
      BY <1>7, OldestFirst
    <2>3. recv[recv_next].frame \in Nat /\ recv[i].frame \in Nat
      BY <1>0, RxAssumption DEF RxTypeOK
    <2> QED  BY <1>3, <2>1, <2>2, <2>3
  <1> QED  BY <1>0, <1>6, <1>7 DEF Waiting

\* Each step of the ring is a step of the path or stutters.
LEMMA RxPathStep ==
    ASSUME RxInv, RxAligned, [RxNext]_vars
    PROVE  [Path!Next]_(Path!vars)
  <1>0. /\ RxTypeOK /\ recv_next \in Idx /\ rxd \in Idx
        /\ recv \in Ring /\ arrived \in Nat
    BY RxAssumption DEF RxInv, RxTypeOK, Ring
  <1>s. ASSUME UNCHANGED <<recv, arrived, delivered, resets>>
        PROVE  UNCHANGED Path!vars
    BY <1>s DEF Path!vars, Waiting, Has
  <1>1. CASE \E ok \in InitOutcomes :
                 (ResetChip(ok) \/ PromiscChip(ok)) /\ InitRing
    <2>1. Waiting' = {}
      <3>1. \A i \in Idx : recv'[i] = Owned
        BY <1>1 DEF InitRing, FreshRing
      <3>2. \A i \in Idx : ~Has(i, {"STP"})'
        BY <3>1 DEF Has, Owned
      <3> QED  BY <3>2 DEF Waiting
    <2> QED
      BY <1>1, <2>1
         DEF ResetChip, PromiscChip, InitChip, InitRing, Path!Next, Path!Flush
  <1>2. CASE ChipReceive
    <2>1. PICK errs \in SUBSET {"ERR"} :
              Write({"STP", "ENP"} \cup errs, arrived + 1, TRUE)
      BY <1>2 DEF ChipReceive
    <2>2. Waiting' = Waiting \cup {arrived + 1}
      <3> DEFINE r == [status |-> {"STP", "ENP"} \cup errs, frame |-> arrived + 1]
      <3>1. recv' = [recv EXCEPT ![rxd] = r] /\ Has(rxd, {"OWN"})
        BY <1>2, <2>1 DEF Write, ChipReceive
      <3>2. "STP" \in r.status /\ r.frame = arrived + 1
        OBVIOUS
      <3> HIDE DEF r
      <3> QED  BY <3>1, <3>2, FillWaiting
    <2> QED
      BY <1>2, <2>1, <2>2 DEF ChipReceive, Write, Path!Next, Path!Arrive
  <1>3. CASE ChipOverrun
    <2>1. PICK s \in {{"STP"}, {"STP", "ERR"}}, b \in BOOLEAN :
              Write(s, arrived + 1, b)
      BY <1>3 DEF ChipOverrun
    <2>2. Waiting' = Waiting \cup {arrived + 1}
      <3> DEFINE r == [status |-> s, frame |-> arrived + 1]
      <3>1. recv' = [recv EXCEPT ![rxd] = r] /\ Has(rxd, {"OWN"})
        BY <1>3, <2>1 DEF Write, ChipOverrun
      <3>2. "STP" \in r.status /\ r.frame = arrived + 1
        OBVIOUS
      <3> HIDE DEF r
      <3> QED  BY <3>1, <3>2, FillWaiting
    <2> QED
      BY <1>3, <2>1, <2>2 DEF ChipOverrun, Write, Path!Next, Path!Arrive
  <1>4. CASE ChipFinish
    <2>1. PICK errs \in SUBSET {"ERR"} : Write({"ENP"} \cup errs, arrived, TRUE)
      BY <1>4 DEF ChipFinish
    <2>2. Waiting' = Waiting
      <3> DEFINE r == [status |-> {"ENP"} \cup errs, frame |-> arrived]
      <3>1. recv' = [recv EXCEPT ![rxd] = r] /\ midFrame
        BY <1>4, <2>1 DEF Write, ChipFinish
      <3>2. "STP" \notin r.status
        OBVIOUS
      <3> HIDE DEF r
      <3> QED  BY <3>1, <3>2, FillWaiting
    <2> QED
      BY <1>4, <2>1, <2>2 DEF ChipFinish, Write, Path!vars
  <1>5. CASE ChipMiss
    <2>1. Waiting' = Waiting
      BY <1>5 DEF ChipMiss, Waiting, Has
    <2> QED  BY <1>5, <2>1 DEF ChipMiss, Path!Next, Path!Miss
  <1>6. CASE RintPacket /\ PacketComplete
    <2>1. PICK outcome \in Outcomes : Consume(outcome)
      BY <1>6 DEF RintPacket
    <2>2. Waiting' = Waiting \ {recv[recv_next].frame}
      BY <1>6, <2>1, ConsumeWaiting DEF RintPacket
    <2>3. recv[recv_next].frame \in Waiting
      BY <1>0, <1>6 DEF RintPacket, Waiting
    <2>4. ASSUME NEW g \in Waiting PROVE recv[recv_next].frame <= g
      <3>1. PICK i \in Idx : Has(i, {"STP"}) /\ g = recv[i].frame
        BY DEF Waiting
      <3>2. recv[recv_next].frame \in Nat /\ g \in Nat
        BY <1>0, <3>1, RxAssumption DEF Ring
      <3>3. i # recv_next => recv[recv_next].frame < g
        BY <1>6, <3>1, OldestFirst DEF RintPacket
      <3> QED  BY <3>1, <3>2, <3>3
    <2> QED
      BY <2>1, <2>2, <2>3, <2>4 DEF Consume, intrVars, Path!Next, Path!Consume
  <1>7. CASE (RintPacket /\ ~PacketComplete) \/ RintDone \/ RintEnd
    BY <1>7, <1>s DEF RintPacket, RintDone, RintEnd, rxVars
  <1>8. CASE SetMulticastList
    BY <1>8, <1>s DEF SetMulticastList, MulticastChip, StopRing
  <1>9. CASE RxIntrEnter \/ RxIntrRead \/ RxIntrAck \/ RxIntrReturn
    BY <1>9, <1>s
       DEF RxIntrEnter, RxIntrRead, RxIntrAck, RxIntrReturn, IntrEnter, IntrRead,
           IntrAck, IntrReturn, EnterRing, ReturnRing, rxVars
  <1>10. CASE TintEnd \/ TintResets \/ ChipEvent \/ ChipRaiseRint
              \/ Watchdog \/ UNCHANGED vars
    BY <1>10, <1>s
       DEF TintEnd, TintResets, ChipEvent, ChipRaise, ChipRaiseRint, Watchdog,
           vars, intrVars, rxVars
  <1> QED
    BY <1>1, <1>2, <1>3, <1>4, <1>5, <1>6, <1>7, <1>8, <1>9, <1>10
       DEF RxNext, HandlerStep, ChipStep, LncReset, SetPromiscuousMode

\* Frames are consumed in the order in which they arrived, none of them twice,
\* and only lnc_init throws away the ones that wait: the receive ring
\* implements RxPath whatever its size and the traffic.
THEOREM RxImplementsPath == ASSUME RxAligned PROVE RxSpec => RxInOrder
  <1>1. RxInit => Path!Init
    <2> SUFFICES ASSUME RxInit PROVE Path!Init
      OBVIOUS
    <2>1. \A i \in Idx : ~Has(i, {"STP"})
      BY DEF RxInit, Has, Owned
    <2> QED  BY <2>1 DEF RxInit, IntrInit, Waiting, Path!Init
  <1>2. RxInv /\ [RxNext]_vars => [Path!Next]_(Path!vars)
    BY RxPathStep
  <1>3. RxSpec => []RxInv
    BY RxInvariant
  <1> QED  BY <1>1, <1>2, <1>3, PTL DEF RxSpec, RxInOrder, Path!Spec
=============================================================================
