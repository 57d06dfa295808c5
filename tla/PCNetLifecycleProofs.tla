------------------------ MODULE PCNetLifecycleProofs ------------------------
(* A driver instance only ever does what PCNetActivation describes, so that *)
(* module's theorems hold of it, and it uses nothing that it does not hold: *)
(* for every set of groups, place of the ring memory, ring size and outcome. *)
EXTENDS PCNetLifecycle, PCNetActivationProofs

\* lnc_init's layout stays within what lnc_pci_attach has asked for, and the
\* descriptors are aligned to sixteen bytes, for every base and ring size.
THEOREM LayoutFits ==
    \A b \in Nat : /\ LayoutEnd(b) <= b + MemSize
                   /\ DescsAt(b) % 16 = 0
<1> SUFFICES ASSUME NEW b \in Nat
             PROVE  /\ LayoutEnd(b) <= b + MemSize
                    /\ DescsAt(b) % 16 = 0
  OBVIOUS
<1> DEFINE i == InitBlockAt(b)
<1>1. Descs \in Nat
  BY MemoryAssumption DEF Descs
<1>2. i \in Nat /\ i <= b + Descs * 8 + 1
  BY <1>1 DEF InitBlockAt, Align, HostRingEntry
<1>3. DescsAt(b) \in Nat /\ DescsAt(b) <= i + 28 + 15 /\ DescsAt(b) % 16 = 0
  <2> HIDE DEF i
  <2> QED
    BY <1>2 DEF DescsAt, i, Align, InitBlockSize
<1> QED
  BY <1>1, <1>2, <1>3, MemoryAssumption
  DEF LayoutEnd, BuffersAt, MemSize, Descs, HostRingEntry, InitBlockSize,
      MdsSize, MemSlew, BufSize

----------------------------------------------------------------------------
(* Refinement.                                                              *)

\* Before start the chip is stopped, so that start's reset changes nothing.
NewIsOff == phase = "new" => csr0 = CsrStop

\* Every step of the instance is one of the activation layer or leaves that
\* alone.
LEMMA StepImplements == NewIsOff /\ [LifeNext]_allVars => [ActNext]_vars
<1> SUFFICES ASSUME NewIsOff, [LifeNext]_allVars
             PROVE  [ActNext]_vars
  OBVIOUS
<1>1. CASE Start
  BY <1>1 DEF Start, StartReset, NewIsOff, vars
<1>2. CASE AttachInterface \/ Free
  BY <1>2 DEF AttachInterface, Free, vars
<1>3. CASE DriverStep
  <2>1. \/ Enable \/ Disable \/ UserSelects
        \/ CallStep \/ HandleInterrupt \/ HandleTimeout
        \/ SetPromiscuousMode \/ SetMulticast
    BY <1>3 DEF DriverStep, CallProceeds, HandlerRuns, TimerFires,
                PromiscuousStep, MulticastStep, Plain, Inits, CallStep,
                HandleInterrupt
  <2> QED
    BY <2>1 DEF ActNext
<1>4. CASE ChipStep
  BY <1>4 DEF ChipStep, Plain, ActNext
<1>5. CASE UNCHANGED allVars
  BY <1>5 DEF allVars
<1> QED
  BY <1>1, <1>2, <1>3, <1>4, <1>5 DEF LifeNext

\* phase leaves "new" for good, and with it goes the only use of NewIsOff.
LEMMA NewIsOffKept == NewIsOff /\ [LifeNext]_allVars => NewIsOff'
<1> SUFFICES ASSUME NewIsOff, [LifeNext]_allVars
             PROVE  NewIsOff'
  OBVIOUS
<1>1. CASE phase = "new"
  <2>1. CASE Start
    BY <2>1 DEF Start, NewIsOff
  <2>2. CASE ChipStep
    BY <1>1, <2>2 DEF ChipStep, Plain, ChipInterrupt, LinkChange, NewIsOff,
                      CsrStop, lifeVars
  <2>3. CASE UNCHANGED allVars
    BY <2>3 DEF allVars, vars, lifeVars, NewIsOff
  <2> QED
    BY <1>1, <2>1, <2>2, <2>3 DEF LifeNext, AttachInterface, Free
<1>2. CASE phase # "new"
  BY <1>2 DEF NewIsOff, LifeNext, Start, AttachInterface, Free, DriverStep,
              ChipStep, CallProceeds, HandlerRuns, TimerFires,
              PromiscuousStep, MulticastStep, Plain, Inits, LncInit,
              lifeVars, allVars
<1> QED
  BY <1>1, <1>2

\* The instance implements the activation layer, so all that is proved of
\* that holds of the instance.
THEOREM LifeImplements == LifeSpec => ImplementsActivation
<1>1. LifeInit => NewIsOff /\ ActInit
  BY DEF LifeInit, ActInit, NewIsOff
<1> QED
  BY <1>1, StepImplements, NewIsOffKept, PTL
  DEF LifeSpec, ActSpec, ImplementsActivation

----------------------------------------------------------------------------
(* What is held and how the chip is spoken to.                              *)

\* Only an instance that is up has left level 0, and it holds everything.
HeldInv ==
    /\ held \subseteq Resources
    /\ phase = "started" => held \cup {"netif"} = Resources
    /\ phase = "up" => held = Resources
    /\ phase # "up" => currentLevel = 0 /\ goal = NoCall
    /\ phase = "freed" => held = {}

\* lnc_init finds the chip's access mode each time it runs.
ModeInv ==
    /\ base \in Bases
    /\ dwio \in BOOLEAN /\ chipDwio \in BOOLEAN
    /\ csr0 # {} \/ currentLevel # 0 => dwio = chipDwio

LifeInv == NewIsOff /\ LevelInv /\ HeldInv /\ ModeInv

LEMMA LifeInvInit == LifeInit => LifeInv
<1> SUFFICES ASSUME LifeInit PROVE LifeInv
  OBVIOUS
<1>1. LevelInv
  BY LevelInvInit DEF LifeInit
<1>2. NewIsOff /\ HeldInv /\ ModeInv
  BY DEF LifeInit, ActInit, NewIsOff, HeldInv, ModeInv, NoCall, CsrStop
<1> QED
  BY <1>1, <1>2 DEF LifeInv

\* What start gets is among what free releases, and at its end only the
\* interface is missing.
LEMMA StartHolds ==
    \A n \in 0 .. Len(Acquired) :
        LET got == {Acquired[i] : i \in 1 .. n} IN
        /\ got \subseteq Resources
        /\ n = Len(Acquired) => got \cup {"netif"} = Resources
<1>1. Len(Acquired) = 8
  BY DEF Acquired
<1>2. \A i \in 1 .. 8 : Acquired[i] \in Resources
  BY DEF Acquired, Resources, ToSet
<1>3. Resources = {Acquired[i] : i \in 1 .. 8} \cup {"netif"}
  <2>1. DOMAIN Acquired = 1 .. 8
    BY DEF Acquired
  <2> QED
    BY <2>1 DEF Resources, ToSet
<1> QED
  BY <1>1, <1>2, <1>3

LEMMA HeldInvNext == LifeInv /\ [LifeNext]_allVars => HeldInv'
<1> SUFFICES ASSUME LifeInv, [LifeNext]_allVars PROVE HeldInv'
  OBVIOUS
<1>1. CASE Start
  <2>1. /\ held' \subseteq Resources
        /\ phase' = "started" => held' \cup {"netif"} = Resources
        /\ phase' \in {"started", "failed"}
    BY <1>1, StartHolds DEF Start
  <2> QED
    BY <1>1, <2>1 DEF Start, LifeInv, HeldInv, levelVars
<1>2. CASE AttachInterface
  BY <1>2 DEF AttachInterface, LifeInv, HeldInv, vars, levelVars, Resources
<1>3. CASE Free
  BY <1>3 DEF Free, Idle, Released, LifeInv, HeldInv, vars, levelVars
<1>4. CASE phase = "up" /\ DriverStep
  BY <1>4 DEF DriverStep, CallProceeds, HandlerRuns, TimerFires,
              PromiscuousStep, MulticastStep, Plain, Inits, LncInit,
              LifeInv, HeldInv, lifeVars
<1>5. CASE ChipStep
  BY <1>5 DEF ChipStep, Plain, ChipInterrupt, LinkChange, LifeInv, HeldInv,
              lifeVars, levelVars
<1>6. CASE UNCHANGED allVars
  BY <1>6 DEF allVars, vars, lifeVars, levelVars, LifeInv, HeldInv
<1> QED
  BY <1>1, <1>2, <1>3, <1>4, <1>5, <1>6 DEF LifeNext

LEMMA ModeInvNext == LifeInv /\ [LifeNext]_allVars => ModeInv'
<1> SUFFICES ASSUME LifeInv, [LifeNext]_allVars PROVE ModeInv'
  OBVIOUS
<1> USE DEF LifeInv, ModeInv, lifeVars, levelVars
<1>1. CASE Start \/ AttachInterface \/ Free
  BY <1>1 DEF Start, StartReset, CsrStop, AttachInterface, Free, vars
<1>2. ASSUME NEW prom, LncInit(prom) PROVE ModeInv'
  BY <1>2 DEF LncInit, ProbeAccess
<1>3. CASE Inits(EnableLevel1 \/ MediumRefused) \/ Inits(IntrResets)
           \/ PromiscuousStep
  BY <1>2, <1>3 DEF Inits, PromiscuousStep
<1>4. CASE MulticastStep
  BY <1>4 DEF MulticastStep, SetMulticast
<1>5. CASE Plain(\/ Enable \/ Disable \/ UserSelects \/ CallEnds
                 \/ OpenRefused \/ EnableLevel2 \/ DisableLevel2
                 \/ DisableLevel1)
  BY <1>5
  DEF Plain, Enable, Disable, UserSelects, CallEnds, OpenRefused, EnableFails,
      EnableLevel2, DisableLevel2, DisableLevel1, ResetChip, CsrStop
<1>6. CASE Plain(IntrServed \/ HandleTimeout \/ ChipInterrupt \/ LinkChange)
  BY <1>6 DEF Plain, IntrServed, HandlerStep, HandleTimeout, ChipInterrupt,
              LinkChange
<1>7. CASE UNCHANGED allVars
  BY <1>7 DEF allVars, vars
<1> QED
  BY <1>1, <1>3, <1>4, <1>5, <1>6, <1>7
  DEF LifeNext, DriverStep, ChipStep, CallProceeds, HandlerRuns, TimerFires,
      Plain

LEMMA LifeInvNext == LifeInv /\ [LifeNext]_allVars => LifeInv'
<1> SUFFICES ASSUME LifeInv, [LifeNext]_allVars PROVE LifeInv'
  OBVIOUS
<1>1. LevelInv'
  BY StepImplements, LevelInvNext DEF LifeInv
<1> QED
  BY <1>1, NewIsOffKept, HeldInvNext, ModeInvNext DEF LifeInv

\* Nothing works without what it works with, and an instance that is gone
\* holds nothing.
THEOREM UsesWhatItHolds == LifeSpec => []HeldWhileUsed
<1>1. LifeInv => HeldWhileUsed
  <2>1. "memDescr" \in Resources
    BY DEF Resources, Acquired, ToSet
  <2> QED
    BY <2>1 DEF LifeInv, HeldInv, LevelInv, AtLevel0, BelowLevel2,
                HeldWhileUsed
<1> QED
  BY <1>1, LifeInvInit, LifeInvNext, PTL DEF LifeSpec

\* The memory is large enough and aligned, and the chip is spoken to in its
\* own mode from its first initialisation on.
THEOREM MemoryAndModeRight == LifeSpec => []MemoryAndMode
<1>1. LifeInv => MemoryAndMode
  BY LayoutFits, LifecycleAssumption DEF LifeInv, ModeInv, MemoryAndMode
<1> QED
  BY <1>1, LifeInvInit, LifeInvNext, PTL DEF LifeSpec

----------------------------------------------------------------------------
(* Types and the multicast filter.                                          *)

\* The driver's hash of an address is the chip's.  That a CRC computed four
\* bits at a time is the one computed bit by bit is a fact about folds over
\* the bytes of an address, which is left to TLC (MCLifecycle).
HashAgrees == \A a \in Groups : IndexOf[a] = ChipHash[a]

LEMMA IndexType == \A a \in Groups : IndexOf[a] \in 0 .. 63
<1>1. ASSUME NEW crc PROVE HighSix(crc) \in 0 .. 63
  BY DEF HighSix
<1> QED
  BY <1>1 DEF IndexOf, Index

\* The filter the driver remembers is made from the list it was given, the
\* chip's is that one once it came from the initialization block, and the
\* promiscuous mode goes the same way.
FilterInv ==
    /\ FilterTypeOK
    /\ ladrb = Ladrf(listed)
    /\ fromBlock => chipFilter = ladrb
    /\ nicProm = promWanted
    /\ "RXON" \in csr0 => chipProm = promWanted

LEMMA FilterInvInit == LifeInit => FilterInv
  BY DEF LifeInit, FilterInit, ActInit, CsrStop, FilterInv, FilterTypeOK, Ladrf

\* lnc_init gives the chip what the driver remembers.
LEMMA LncInitKeeps ==
    ASSUME FilterInv, NEW prom \in BOOLEAN, LncInit(prom), promWanted' = prom
    PROVE  FilterInv'
<1>1. LncInitFilter(prom, "RXON" \in csr0')
  BY DEF LncInit
<1>2. FilterTypeOK'
  BY <1>1 DEF LncInitFilter, BlockFilter, FilterInv, FilterTypeOK
<1>3. UNCHANGED <<ladrb, listed>> /\ nicProm' = promWanted'
  BY <1>1 DEF LncInitFilter
<1>4. CASE "RXON" \in csr0'
  BY <1>1, <1>2, <1>3, <1>4 DEF LncInitFilter, BlockFilter, FilterInv, Ladrf
<1>5. CASE "RXON" \notin csr0'
  BY <1>1, <1>2, <1>3, <1>5 DEF LncInitFilter, BlockFilter, FilterInv, Ladrf
<1> QED
  BY <1>4, <1>5

\* lnc_set_multicast changes list and filter at once, and gives the chip
\* something else.
LEMMA MulticastKeeps ==
    ASSUME FilterInv, MulticastStep
    PROVE  FilterInv'
<1>1. PICK addrs \in SUBSET Groups : LncSetMulticast(addrs)
  BY DEF MulticastStep
<1>2. Ladrf(addrs) \subseteq 0 .. 63 /\ LafWritten \subseteq 0 .. 63
  BY IndexType DEF Ladrf, LafWritten
<1>3. FilterTypeOK'
  BY <1>1, <1>2 DEF LncSetMulticast, FilterInv, FilterTypeOK
<1>4. ladrb' = Ladrf(listed') /\ fromBlock' = FALSE
      /\ UNCHANGED <<nicProm, promWanted, chipProm>>
  BY <1>1 DEF LncSetMulticast, Ladrf
<1>5. "RXON" \in csr0' => "RXON" \in csr0
  BY DEF MulticastStep, SetMulticast, CsrStart, CsrStop
<1> QED
  BY <1>3, <1>4, <1>5 DEF FilterInv, Ladrf

\* Only an initialization turns the receiver on.
LEMMA PlainKeeps ==
    ASSUME FilterInv, UNCHANGED filterVars, "RXON" \in csr0' => "RXON" \in csr0
    PROVE  FilterInv'
  BY DEF FilterInv, filterVars, FilterTypeOK, Ladrf

LEMMA FilterInvNext == FilterInv /\ [LifeNext]_allVars => FilterInv'
<1> SUFFICES ASSUME FilterInv, [LifeNext]_allVars PROVE FilterInv'
  OBVIOUS
<1>1. CASE Start \/ AttachInterface \/ Free
  BY <1>1, PlainKeeps DEF Start, StartReset, CsrStop, AttachInterface, Free, vars
<1>2. CASE Inits(EnableLevel1 \/ MediumRefused) \/ Inits(IntrResets)
  BY <1>2, LncInitKeeps DEF Inits, FilterInv, FilterTypeOK
<1>3. CASE PromiscuousStep
  BY <1>3, LncInitKeeps DEF PromiscuousStep
<1>4. CASE MulticastStep
  BY <1>4, MulticastKeeps
<1>5. CASE Plain(\/ Enable \/ Disable \/ UserSelects \/ CallEnds
                 \/ OpenRefused \/ EnableLevel2 \/ DisableLevel2
                 \/ DisableLevel1)
  BY <1>5, PlainKeeps
  DEF Plain, Enable, Disable, UserSelects, CallEnds, OpenRefused, EnableFails,
      EnableLevel2, DisableLevel2, DisableLevel1, ResetChip, CsrStop
<1>6. CASE Plain(IntrServed \/ HandleTimeout \/ ChipInterrupt \/ LinkChange)
  BY <1>6, PlainKeeps DEF Plain, IntrServed, HandleTimeout, ChipInterrupt, LinkChange
<1>7. CASE UNCHANGED allVars
  BY <1>7, PlainKeeps DEF allVars, vars
<1> QED
  BY <1>1, <1>2, <1>3, <1>4, <1>5, <1>6, <1>7
  DEF LifeNext, DriverStep, ChipStep, CallProceeds, HandlerRuns, TimerFires,
      Plain

Phases == {"new", "started", "up", "failed", "freed", "trap"}
PhaseOK == phase \in Phases

\* Every variable of an instance keeps its type.
THEOREM LifeTypeCorrect == LifeSpec => []LifeTypeOK
<1>1. PhaseOK /\ [LifeNext]_allVars => PhaseOK'
  BY DEF Phases, PhaseOK, LifeNext, allVars, lifeVars, Start, AttachInterface,
         Free, DriverStep, ChipStep, CallProceeds, HandlerRuns, TimerFires,
         PromiscuousStep, MulticastStep, Plain, Inits, LncInit
<1>2. LifeInit => PhaseOK
  BY DEF LifeInit, PhaseOK, Phases
<1>3. LifeInv /\ FilterInv /\ PhaseOK => LifeTypeOK
  BY DEF LifeInv, LevelInv, HeldInv, ModeInv, FilterInv, PhaseOK, Phases, LifeTypeOK
<1> QED
  BY <1>1, <1>2, <1>3, LifeInvInit, LifeInvNext, FilterInvInit, FilterInvNext, PTL
  DEF LifeSpec

\* A running chip whose filter came with its initialization passes every group
\* the client has listed, and is in the promiscuous mode the client wants, for
\* every set of groups, through disable, enable and resets.
THEOREM ListedGroupsPass ==
    ASSUME HashAgrees
    PROVE  LifeSpec => []FilterAfterInit
<1>1. FilterInv => FilterAfterInit
  BY DEF HashAgrees, FilterInv, FilterTypeOK, FilterAfterInit, Ladrf
<1> QED
  BY <1>1, FilterInvInit, FilterInvNext, PTL DEF LifeSpec
=============================================================================
