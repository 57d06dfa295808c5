----------------------- MODULE PCNetActivationProofs -----------------------
(* What PCNetActivation promises of levels, proved for every outcome of      *)
(* lnc_init, every media table and every order of calls, interrupts and      *)
(* timeouts.                                                                 *)
EXTENDS PCNetActivation, TLAPS

(* The invariant.  Each part says what a level means, in the middle of a    *)
(* call too: what enableAdapter has turned on by then and disableAdapter    *)
(* not yet off.                                                             *)

\* Level 0: the timer and the queue are off, and without a failed selectMedium
\* the provider is closed and the chip stopped.
AtLevel0 ==
    /\ ~timerSet
    /\ ~queueCapacity
    /\ "FD" \in mediumTable => ~nubOpen /\ csr0 = {}

\* Level 1 and above: provider and timer.
FromLevel1 == nubOpen /\ timerSet

BelowLevel2 == ~interruptEnabled /\ ~queueRunning

AtLevel2 == interruptEnabled /\ queueRunning /\ queueCapacity

LevelInv ==
    /\ ActTypeOK
    /\ currentLevel = 0 => AtLevel0
    /\ currentLevel # 0 => FromLevel1
    /\ currentLevel # 2 => BelowLevel2
    /\ currentLevel = 2 => AtLevel2
    /\ goal = NoCall /\ enabledByBSD => currentLevel = 2
    /\ goal = NoCall /\ ~enabledByBSD => currentLevel = 0

----------------------------------------------------------------------------
(* Types.                                                                   *)

\* CSR0 keeps to its bits through lnc_init.
LEMMA CsrInitType == \A ok \in BOOLEAN : CsrInit(ok) \subseteq Csr0Bits
BY DEF CsrInit, CsrStart, CsrStop, Csr0Bits, Latched

\* A selection leaves the media variables in their types.
LEMMA SelectType ==
    ASSUME MediaTypeOK, NEW m \in Media, NEW fd \in BOOLEAN,
           SelectMedium(m, fd),
           UNCHANGED <<mediumTable, linkUp>>, selected' \in Media \cup {"NONE"}
    PROVE  MediaTypeOK'
<1>1. PhySetMedium(m, fd) \in BOOLEAN
  BY DEF PhySetMedium, LncSetMedium
<1> QED
  BY <1>1 DEF MediaTypeOK, Media, SelectMedium, SelectReport,
              PhyReportLinkStatus, Told, LncGetMedium

\* So does a report.
LEMMA ReportType ==
    ASSUME MediaTypeOK, PhyReportLinkStatus(FALSE, fden, linkStatus),
           UNCHANGED <<mediumTable, currentMediumIndex, selected, fden, linkUp>>
    PROVE  MediaTypeOK'
BY DEF MediaTypeOK, Media, PhyReportLinkStatus, Told, LncGetMedium

\* What selectMedium works with is a medium, or nothing if there is no default.
LEMMA WantedType ==
    ASSUME MediaTypeOK
    PROVE  /\ Wanted(selected) \in Media \cup {"NONE"}
           /\ "FD" \in mediumTable => Wanted(selected) # "NONE"
BY DEF MediaTypeOK, Media, Wanted

----------------------------------------------------------------------------
(* The invariant holds at first and is kept by every action.                *)

LEMMA LevelInvInit == ActInit => LevelInv
<1> SUFFICES ASSUME ActInit PROVE LevelInv
  OBVIOUS
<1>1. MediaTypeOK
  BY DEF ActInit, MediaInit, MediaTypeOK, Media
<1>2. /\ ~enabledByBSD /\ enabledByBSD \in BOOLEAN
      /\ ~interruptEnabled /\ interruptEnabled \in BOOLEAN
      /\ ~nubOpen /\ nubOpen \in BOOLEAN
      /\ ~timerSet /\ timerSet \in BOOLEAN
      /\ ~queueRunning /\ queueRunning \in BOOLEAN
      /\ ~queueCapacity /\ queueCapacity \in BOOLEAN
  BY DEF ActInit
<1> QED
  BY <1>1, <1>2 DEF ActInit, LevelInv, ActTypeOK, NoCall, AtLevel0, BelowLevel2,
                    CsrStop, Csr0Bits

\* The beginning and the end of a call turn nothing on or off.
LEMMA CallKeepsLevels ==
    ASSUME LevelInv, Enable \/ Disable \/ CallEnds \/ OpenRefused
    PROVE  LevelInv'
<1>1. CASE Enable
  BY <1>1 DEF Enable, LevelInv, ActTypeOK, MediaTypeOK, NoCall, mediaVars,
              statusVars, queueVars, AtLevel0, FromLevel1, BelowLevel2, AtLevel2
<1>2. CASE Disable
  <2>1. ~enabledByBSD' /\ enabledByBSD' \in BOOLEAN
    BY <1>2 DEF Disable
  <2> QED
    BY <1>2, <2>1
    DEF Disable, LevelInv, ActTypeOK, MediaTypeOK, NoCall, mediaVars, statusVars,
        queueVars, AtLevel0, FromLevel1, BelowLevel2, AtLevel2
<1>3. CASE CallEnds
  BY <1>3 DEF CallEnds, LevelInv, ActTypeOK, MediaTypeOK, NoCall, mediaVars,
              statusVars, queueVars, AtLevel0, FromLevel1, BelowLevel2, AtLevel2
<1>4. CASE OpenRefused
  BY <1>4 DEF OpenRefused, EnableFails, LevelInv, ActTypeOK, MediaTypeOK,
              NoCall, mediaVars, statusVars, queueVars, AtLevel0, FromLevel1,
              BelowLevel2, AtLevel2
<1> QED
  BY <1>1, <1>2, <1>3, <1>4

\* Reaching level 1.
LEMMA EnableLevel1Keeps ==
    ASSUME LevelInv, EnableLevel1
    PROVE  LevelInv'
<1>1. MediaTypeOK'
  <2>1. Wanted(selected) \in Media
    BY WantedType DEF LevelInv, ActTypeOK, EnableLevel1
  <2> QED
    BY <2>1, SelectType DEF LevelInv, ActTypeOK, MediaTypeOK, EnableLevel1
<1>2. csr0' \subseteq Csr0Bits
  BY CsrInitType, ActivationAssumption DEF EnableLevel1, FullInit
<1>3. ~interruptEnabled' /\ interruptEnabled' \in BOOLEAN
  BY DEF EnableLevel1, FullInit
<1> QED
  BY <1>1, <1>2, <1>3 DEF EnableLevel1, LevelInv, ActTypeOK, NoCall, queueVars,
                    AtLevel0, FromLevel1, BelowLevel2, AtLevel2

\* A refused medium leaves the provider open and the chip running, but only
\* where there is no default medium.
LEMMA MediumRefusedKeeps ==
    ASSUME LevelInv, MediumRefused
    PROVE  LevelInv'
<1>1. "FD" \notin mediumTable
  BY WantedType DEF LevelInv, ActTypeOK, MediumRefused
<1>2. csr0' \subseteq Csr0Bits /\ interruptEnabled' = FALSE
  BY CsrInitType, ActivationAssumption DEF MediumRefused, FullInit
<1> QED
  BY <1>1, <1>2 DEF MediumRefused, EnableFails, LevelInv, ActTypeOK,
                    MediaTypeOK, NoCall, queueVars, AtLevel0, FromLevel1,
                    BelowLevel2, AtLevel2

\* The other steps of enableAdapter and disableAdapter.
LEMMA LevelStepKeeps ==
    ASSUME LevelInv, EnableLevel2 \/ DisableLevel2 \/ DisableLevel1
    PROVE  LevelInv'
<1>1. CASE EnableLevel2
  BY <1>1 DEF EnableLevel2, Level2Interrupts, LevelInv, ActTypeOK, MediaTypeOK,
              NoCall, mediaVars, statusVars, AtLevel0, FromLevel1, BelowLevel2,
              AtLevel2
<1>2. CASE DisableLevel2
  <2>1. /\ ~interruptEnabled' /\ interruptEnabled' \in BOOLEAN
        /\ ~queueRunning' /\ queueRunning' \in BOOLEAN
    BY <1>2 DEF DisableLevel2
  <2> QED
    BY <1>2, <2>1
    DEF DisableLevel2, LevelInv, ActTypeOK, MediaTypeOK, NoCall, mediaVars,
        statusVars, AtLevel0, FromLevel1, BelowLevel2, AtLevel2
<1>3. CASE DisableLevel1
  <2>1. MediaTypeOK'
    <3>1. PhySetMedium("NONE", fden) \in BOOLEAN
      BY DEF PhySetMedium, LncSetMedium, LevelInv, ActTypeOK, MediaTypeOK
    <3> QED
      BY <1>3, <3>1 DEF DisableLevel1, LevelInv, ActTypeOK, MediaTypeOK, Media
  <2>2. /\ ~timerSet' /\ timerSet' \in BOOLEAN
        /\ ~interruptEnabled' /\ interruptEnabled' \in BOOLEAN
        /\ ~queueCapacity' /\ queueCapacity' \in BOOLEAN
        /\ ~nubOpen' /\ nubOpen' \in BOOLEAN
    BY <1>3 DEF DisableLevel1
  <2> QED
    BY <1>3, <2>1, <2>2
    DEF DisableLevel1, ResetChip, CsrStop, LevelInv, ActTypeOK, NoCall,
        AtLevel0, FromLevel1, BelowLevel2, AtLevel2
<1> QED
  BY <1>1, <1>2, <1>3

\* The handler and the promiscuous mode run at level 2 only; the timer and the
\* user leave the chip alone.
LEMMA DriverStepKeeps ==
    ASSUME LevelInv,
           HandleInterrupt \/ SetPromiscuousMode \/ SetMulticast \/ HandleTimeout
           \/ UserSelects
    PROVE  LevelInv'
<1>1. CASE HandleInterrupt
  <2>1. currentLevel = 2
    BY <1>1 DEF HandleInterrupt, IntrServed, IntrResets, HandlerStep, LevelInv,
                BelowLevel2
  <2>2. csr0' \subseteq Csr0Bits
    BY <1>1, CsrInitType, ActivationAssumption
    DEF HandleInterrupt, IntrServed, IntrResets, HandlerStep, LevelInv,
        ActTypeOK
  <2>3. fden' \in BOOLEAN
    BY <1>1 DEF HandleInterrupt, IntrServed, IntrResets, HandlerStep, LevelInv,
                ActTypeOK, MediaTypeOK
  <2> QED
    BY <1>1, <2>1, <2>2, <2>3
    DEF HandleInterrupt, IntrServed, IntrResets, HandlerStep, LevelInv, ActTypeOK, MediaTypeOK, NoCall, levelVars,
        queueVars, statusVars, AtLevel0, FromLevel1, BelowLevel2, AtLevel2
<1>2. CASE SetPromiscuousMode
  <2>1. csr0' \subseteq Csr0Bits
    BY <1>2, CsrInitType, ActivationAssumption DEF SetPromiscuousMode
  <2> QED
    BY <1>2, <2>1
    DEF SetPromiscuousMode, LevelInv, ActTypeOK, MediaTypeOK, NoCall, levelVars,
        queueVars, statusVars, AtLevel0, FromLevel1, BelowLevel2, AtLevel2
<1>3. CASE HandleTimeout
  <2>1. MediaTypeOK'
    BY <1>3, ReportType DEF HandleTimeout, LevelInv, ActTypeOK
  <2> QED
    BY <1>3, <2>1
    DEF HandleTimeout, LevelInv, ActTypeOK, NoCall, levelVars, queueVars,
        AtLevel0, FromLevel1, BelowLevel2, AtLevel2
<1>4. CASE UserSelects
  <2>1. PICK m \in mediumTable : SelectMedium(m, fden) /\ selected' = m
    BY <1>4 DEF UserSelects
  <2>2. MediaTypeOK'
    BY <1>4, <2>1, SelectType DEF UserSelects, LevelInv, ActTypeOK, MediaTypeOK
  <2> QED
    BY <1>4, <2>2
    DEF UserSelects, LevelInv, ActTypeOK, NoCall, levelVars, queueVars,
        AtLevel0, FromLevel1, BelowLevel2, AtLevel2
<1>5. CASE SetMulticast
  <2>1. csr0' \subseteq Csr0Bits
    BY <1>5 DEF SetMulticast, CsrStart, CsrStop, Csr0Bits
  <2> QED
    BY <1>5, <2>1
    DEF SetMulticast, LevelInv, ActTypeOK, MediaTypeOK, NoCall, levelVars,
        queueVars, mediaVars, statusVars, AtLevel0, FromLevel1, BelowLevel2,
        AtLevel2
<1> QED
  BY <1>1, <1>2, <1>3, <1>4, <1>5

\* A stopped chip raises nothing, and the cable is no business of a level.
LEMMA ChipStepKeeps ==
    ASSUME LevelInv, ChipInterrupt \/ LinkChange
    PROVE  LevelInv'
<1>1. CASE ChipInterrupt
  <2>1. csr0 # {} /\ csr0' \subseteq Csr0Bits
    BY <1>1 DEF ChipInterrupt, LevelInv, ActTypeOK, Csr0Bits, Latched
  <2> QED
    BY <1>1, <2>1
    DEF ChipInterrupt, LevelInv, ActTypeOK, MediaTypeOK, NoCall, levelVars,
        queueVars, mediaVars, statusVars, AtLevel0, FromLevel1, BelowLevel2,
        AtLevel2
<1>2. CASE LinkChange
  BY <1>2
  DEF LinkChange, LevelInv, ActTypeOK, MediaTypeOK, NoCall, levelVars,
      queueVars, statusVars, AtLevel0, FromLevel1, BelowLevel2, AtLevel2
<1> QED
  BY <1>1, <1>2

\* Every step.
LEMMA LevelInvNext == LevelInv /\ [ActNext]_vars => LevelInv'
<1> SUFFICES ASSUME LevelInv, [ActNext]_vars PROVE LevelInv'
  OBVIOUS
<1>1. CASE ActNext
  BY <1>1, CallKeepsLevels, EnableLevel1Keeps, MediumRefusedKeeps,
     LevelStepKeeps, DriverStepKeeps, ChipStepKeeps DEF ActNext, CallStep
<1>2. CASE UNCHANGED vars
  BY <1>2
  DEF vars, LevelInv, ActTypeOK, MediaTypeOK, NoCall, levelVars, queueVars,
      mediaVars, statusVars, AtLevel0, FromLevel1, BelowLevel2, AtLevel2
<1> QED
  BY <1>1, <1>2

----------------------------------------------------------------------------
(* The theorems.                                                            *)

\* What each level means holds at every step of every call.
THEOREM LevelInvariant == ActSpec => []LevelInv
BY LevelInvInit, LevelInvNext, PTL DEF ActSpec

\* Every variable of the activation layer keeps its type.
THEOREM ActTypeCorrect == ActSpec => []ActTypeOK
<1>1. LevelInv => ActTypeOK
  BY DEF LevelInv
<1> QED
  BY <1>1, LevelInvariant, PTL

\* PCNet.cpp:443: level 0 leaves nothing on, after failed calls too, wherever
\* there is a default medium.
THEOREM DisabledIsOff == ActSpec => []Level0Off
<1>1. LevelInv => Level0Off
  BY DEF LevelInv, Level0Off, AtLevel0, BelowLevel2
<1> QED
  BY <1>1, LevelInvariant, PTL

\* enable and disable: between calls the client's view is the level reached,
\* and an enabled interface has all of it.
THEOREM EnabledIsUp == ActSpec => []EnabledMeansUp
<1>1. LevelInv => EnabledMeansUp
  BY DEF LevelInv, EnabledMeansUp, FromLevel1, AtLevel2
<1> QED
  BY <1>1, LevelInvariant, PTL

\* A full duplex selection survives every reset: lnc_init sets what
\* phySetMedium remembers.
THEOREM FullDuplexRemembered == ActSpec => []FullDuplexKept
<1>1. ActInit => FullDuplexKept
  BY DEF ActInit, MediaInit, FullDuplexKept
<1>2. FullDuplexKept /\ [ActNext]_vars => FullDuplexKept'
  <2> SUFFICES ASSUME FullDuplexKept, [ActNext]_vars PROVE FullDuplexKept'
    OBVIOUS
  <2>1. ASSUME NEW m, NEW fd, SelectMedium(m, fd),
               currentMediumIndex = "FD" => fd = TRUE
        PROVE  FullDuplexKept'
    BY <2>1 DEF SelectMedium, PhySetMedium, LncSetMedium, FullDuplexKept
  <2>2. CASE EnableLevel1
    BY <2>1, <2>2 DEF EnableLevel1
  <2>3. CASE UserSelects
    <3>1. PICK m : SelectMedium(m, fden)
      BY <2>3 DEF UserSelects
    <3>2. CASE m = currentMediumIndex
      BY <3>1, <3>2 DEF SelectMedium, PhySetMedium, FullDuplexKept
    <3>3. CASE m # currentMediumIndex
      BY <3>1, <3>3 DEF SelectMedium, PhySetMedium, LncSetMedium,
                        FullDuplexKept
    <3> QED
      BY <3>2, <3>3
  <2>4. CASE \/ IntrResets \/ SetPromiscuousMode \/ MediumRefused
    BY <2>4 DEF IntrResets, SetPromiscuousMode, MediumRefused, FullDuplexKept
  <2>5. CASE DisableLevel1
    BY <2>5 DEF DisableLevel1, FullDuplexKept
  <2>6. CASE \/ UNCHANGED vars \/ Enable \/ Disable \/ CallEnds
             \/ OpenRefused \/ EnableLevel2 \/ DisableLevel2
             \/ IntrServed \/ SetMulticast \/ HandleTimeout
             \/ ChipInterrupt \/ LinkChange
    BY <2>6
    DEF vars, Enable, Disable, CallEnds, OpenRefused, EnableLevel2,
        DisableLevel2, IntrServed, HandlerStep, SetMulticast, HandleTimeout,
        ChipInterrupt, LinkChange, mediaVars, FullDuplexKept
  <2> QED
    BY <2>2, <2>3, <2>4, <2>5, <2>6 DEF ActNext, CallStep, HandleInterrupt
<1> QED
  BY <1>1, <1>2, PTL DEF ActSpec
=============================================================================
