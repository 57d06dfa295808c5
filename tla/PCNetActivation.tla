-------------------------- MODULE PCNetActivation --------------------------
(* Activation levels: enable and disable, setActivationLevel with            *)
(* enableAdapter and disableAdapter, and what goes on at level 2 that        *)
(* matters to them.  A call holds the work loop's gate from its first step   *)
(* to its last; only the chip and the network act in between.  The kernel    *)
(* debugger is not compiled, so enabledByKDP is false and level 1 is only    *)
(* passed through.                                                          *)
EXTENDS PCNetCsr0, PCNetMedia, Naturals

CONSTANTS
    InitOutcomes,   \* whether lnc_init may see IDON / may not see it
    OpenFails       \* the provider may refuse to be opened

ASSUME ActivationAssumption ==
    /\ InitOutcomes \subseteq BOOLEAN
    /\ OpenFails \in BOOLEAN

VARIABLES
    currentLevel,       \* the level reached
    goal,               \* the level a call is going to, 3 without a call
    enabledByBSD,
    interruptEnabled,
    nubOpen,            \* the provider is open
    timerSet,           \* the watchdog timer is running
    queueRunning,       \* the output queue is started
    queueCapacity,      \* and accepts packets
    csr0                \* the chip's CSR0

levelVars == <<currentLevel, goal, enabledByBSD>>
queueVars == <<queueRunning, queueCapacity>>
vars == <<levelVars, interruptEnabled, nubOpen, timerSet, queueVars, csr0,
          mediaVars>>

NoCall == 3

ActTypeOK ==
    /\ MediaTypeOK
    /\ currentLevel \in 0 .. 2
    /\ goal \in {0, 2, NoCall}
    /\ enabledByBSD \in BOOLEAN
    /\ interruptEnabled \in BOOLEAN
    /\ nubOpen \in BOOLEAN
    /\ timerSet \in BOOLEAN
    /\ queueRunning \in BOOLEAN
    /\ queueCapacity \in BOOLEAN
    /\ csr0 \subseteq Csr0Bits

----------------------------------------------------------------------------
(* enable and disable.                                                      *)

Enable ==
    /\ goal = NoCall
    /\ ~enabledByBSD
    /\ goal' = 2
    /\ UNCHANGED <<currentLevel, enabledByBSD, interruptEnabled, nubOpen,
                   timerSet, queueVars, csr0, mediaVars>>

Disable ==
    /\ goal = NoCall
    /\ enabledByBSD' = FALSE
    /\ goal' = 0
    /\ UNCHANGED <<currentLevel, interruptEnabled, nubOpen, timerSet,
                   queueVars, csr0, mediaVars>>

\* The call returns, with the level reached or because a step has failed.
CallEnds ==
    /\ goal = currentLevel
    /\ enabledByBSD' = (goal = 2)
    /\ goal' = NoCall
    /\ UNCHANGED <<currentLevel, interruptEnabled, nubOpen, timerSet,
                   queueVars, csr0, mediaVars>>

EnableFails ==
    /\ enabledByBSD' = FALSE
    /\ goal' = NoCall
    /\ UNCHANGED <<currentLevel, timerSet, queueVars>>

----------------------------------------------------------------------------
(* enableAdapter.                                                           *)

\* The provider is refused.
OpenRefused ==
    /\ goal = 2 /\ currentLevel = 0
    /\ nubOpen \/ OpenFails
    /\ EnableFails
    /\ UNCHANGED <<interruptEnabled, nubOpen, csr0, mediaVars>>

\* initAdapter(kFullInitialization): success is not looked at.
FullInit ==
    /\ interruptEnabled' = FALSE
    /\ \E ok \in InitOutcomes : csr0' = CsrInit(ok)

\* Level 1 is reached: provider, chip, medium, timer.  lnc_init has set full
\* duplex before the medium is selected.
EnableLevel1 ==
    /\ goal = 2 /\ currentLevel = 0
    /\ ~nubOpen
    /\ nubOpen' = TRUE
    /\ FullInit
    /\ Wanted(selected) # "NONE"
    /\ SelectMedium(Wanted(selected), TRUE)
    /\ timerSet' = TRUE
    /\ currentLevel' = 1
    /\ UNCHANGED <<goal, enabledByBSD, queueVars, mediumTable, selected,
                   linkUp>>

\* There is no medium to select.
MediumRefused ==
    /\ goal = 2 /\ currentLevel = 0
    /\ ~nubOpen
    /\ nubOpen' = TRUE
    /\ FullInit
    /\ Wanted(selected) = "NONE"
    /\ fden' = TRUE
    /\ mediumIndexLastReported' = "UNDEF"
    /\ EnableFails
    /\ UNCHANGED <<mediumTable, currentMediumIndex, linkStatus, selected,
                   linkUp>>

\* Mutant of Level2Interrupts: the flag is forgotten.
InterruptsStay == interruptEnabled

\* enableHardwareInterrupts.
Level2Interrupts == TRUE

EnableLevel2 ==
    /\ goal = 2 /\ currentLevel = 1
    /\ queueCapacity' = TRUE
    /\ queueRunning' = TRUE
    /\ interruptEnabled' = Level2Interrupts
    /\ currentLevel' = 2
    /\ UNCHANGED <<goal, enabledByBSD, nubOpen, timerSet, csr0, mediaVars>>

----------------------------------------------------------------------------
(* disableAdapter.                                                          *)

DisableLevel2 ==
    /\ goal = 0 /\ currentLevel = 2
    /\ interruptEnabled' = FALSE
    /\ queueRunning' = FALSE
    /\ currentLevel' = 1
    /\ UNCHANGED <<goal, enabledByBSD, nubOpen, timerSet, queueCapacity, csr0,
                   mediaVars>>

\* Mutant of ResetChip: the chip is left running.
ChipRunsOn == csr0

\* initAdapter(kResetChip) and lnc_down stop the chip.
ResetChip == CsrStop

DisableLevel1 ==
    /\ goal = 0 /\ currentLevel = 1
    /\ timerSet' = FALSE
    /\ interruptEnabled' = FALSE
    /\ csr0' = ResetChip
    /\ fden' = PhySetMedium("NONE", fden)
    /\ currentMediumIndex' = "NONE"
    /\ mediumIndexLastReported' = "UNDEF"
    /\ linkStatus' = "unknown"
    /\ queueCapacity' = FALSE
    /\ nubOpen' = FALSE
    /\ currentLevel' = 0
    /\ UNCHANGED <<goal, enabledByBSD, queueRunning, mediumTable, selected,
                   linkUp>>

----------------------------------------------------------------------------
(* Between the calls.                                                       *)

\* handleInterrupt: lnc_intr leaves no cause, unless it had to reset the
\* adapter and the chip did not come back.
HandlerStep ==
    /\ goal = NoCall
    /\ interruptEnabled
    /\ INTA(csr0)
    /\ UNCHANGED <<levelVars, interruptEnabled, nubOpen, timerSet, queueVars,
                   mediumTable, currentMediumIndex, statusVars, selected,
                   linkUp>>

IntrServed ==
    /\ HandlerStep
    /\ csr0' = csr0 \ Latched
    /\ UNCHANGED fden

IntrResets ==
    /\ HandlerStep
    /\ \E ok \in InitOutcomes : csr0' = CsrInit(ok) \ Latched
    /\ fden' = TRUE

HandleInterrupt == IntrServed \/ IntrResets

\* setPromiscuousMode runs lnc_init on the enabled interface.
SetPromiscuousMode ==
    /\ goal = NoCall
    /\ currentLevel = 2
    /\ \E ok \in InitOutcomes : csr0' = CsrInit(ok)
    /\ fden' = TRUE
    /\ UNCHANGED <<levelVars, interruptEnabled, nubOpen, timerSet, queueVars,
                   mediumTable, currentMediumIndex, statusVars, selected,
                   linkUp>>

\* setMulticastMode and setMulticastList stop the chip and start it again.
SetMulticast ==
    /\ goal = NoCall
    /\ currentLevel = 2
    /\ csr0' = CsrStart(CsrStop, "RXON" \in csr0)
    /\ UNCHANGED <<levelVars, interruptEnabled, nubOpen, timerSet, queueVars,
                   mediaVars>>

\* handleTimeout: the link is looked at and the timer set again.
HandleTimeout ==
    /\ goal = NoCall
    /\ timerSet
    /\ PhyReportLinkStatus(FALSE, fden, linkStatus)
    /\ UNCHANGED <<levelVars, interruptEnabled, nubOpen, timerSet, queueVars,
                   csr0, mediumTable, currentMediumIndex, selected, fden,
                   linkUp>>

\* The user selects a medium, at any level.
UserSelects ==
    /\ goal = NoCall
    /\ \E m \in mediumTable : SelectMedium(m, fden) /\ selected' = m
    /\ UNCHANGED <<levelVars, interruptEnabled, nubOpen, timerSet, queueVars,
                   csr0, mediumTable, linkUp>>

\* The chip raises an interrupt; the cable is plugged in or out.
ChipInterrupt ==
    /\ {"TXON", "RXON"} \cap csr0 # {}
    /\ \E bit \in {"RINT", "TINT", "MERR"} : csr0' = csr0 \cup {bit}
    /\ UNCHANGED <<levelVars, interruptEnabled, nubOpen, timerSet, queueVars,
                   mediaVars>>

LinkChange ==
    /\ linkUp' = ~linkUp
    /\ UNCHANGED <<levelVars, interruptEnabled, nubOpen, timerSet, queueVars,
                   csr0, mediumTable, currentMediumIndex, statusVars, selected,
                   fden>>

----------------------------------------------------------------------------
\* After start(): the chip reset, the media published, nothing enabled.
ActInit ==
    /\ currentLevel = 0
    /\ goal = NoCall
    /\ enabledByBSD = FALSE
    /\ interruptEnabled = FALSE
    /\ nubOpen = FALSE
    /\ timerSet = FALSE
    /\ queueRunning = FALSE
    /\ queueCapacity = FALSE
    /\ csr0 = CsrStop
    /\ MediaInit

CallStep ==
    \/ CallEnds \/ OpenRefused \/ EnableLevel1 \/ MediumRefused \/ EnableLevel2
    \/ DisableLevel2 \/ DisableLevel1

ActNext ==
    \/ Enable \/ Disable \/ CallStep
    \/ HandleInterrupt \/ SetPromiscuousMode \/ SetMulticast \/ HandleTimeout
    \/ UserSelects \/ ChipInterrupt \/ LinkChange

ActSpec == ActInit /\ [][ActNext]_vars

----------------------------------------------------------------------------
(* Properties.                                                              *)

\* PCNet.cpp:443, "kActivationLevel0 : Adapter disabled": nothing is left
\* running that only a higher level can stop, failed calls included, if there
\* is a default medium to select.
Level0Off ==
    currentLevel = 0 /\ "FD" \in mediumTable =>
        /\ ~nubOpen /\ ~timerSet /\ ~interruptEnabled
        /\ ~queueRunning /\ ~queueCapacity
        /\ csr0 = {}

\* Between calls the client's view and the level agree, and at level 2 the
\* provider, the timer, the queue and the interrupts are all on.
EnabledMeansUp ==
    goal = NoCall =>
        /\ currentLevel = IF enabledByBSD THEN 2 ELSE 0
        /\ enabledByBSD => /\ nubOpen /\ timerSet /\ interruptEnabled
                           /\ queueRunning /\ queueCapacity

\* PCNet_PHY.cpp:78, "no change": the medium phySetMedium remembers is the
\* one the chip is set to, as far as it is full duplex: lnc_init brings that
\* back behind phySetMedium's back, and only a half duplex setting is lost.
FullDuplexKept == currentMediumIndex = "FD" => fden

\* An asserted interrupt pin is always released: none is left to a handler
\* that returns at once because interrupts are not enabled.  Without a default
\* medium a failed enable does leave one so.
InterruptsServed == INTA(csr0) /\ "FD" \in mediumTable ~> ~INTA(csr0)

\* While the interface stays up with the cable plugged in, the stack comes to
\* know the duplex mode the chip is really in, again and again: a reset, which
\* forces full duplex and reports nothing, is noticed by the timer.
LinkReported ==
    <>[](currentLevel = 2 /\ linkUp /\ mediumTable = Media)
        => []<>(linkStatus = LncGetMedium(fden))
=============================================================================
