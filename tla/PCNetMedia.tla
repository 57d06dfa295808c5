----------------------------- MODULE PCNetMedia -----------------------------
(* Media selection and the link report: PCNet_PHY.cpp, selectMedium and the *)
(* registers behind them.  A library of operators and actions; the calls    *)
(* that use them are in PCNetActivation.                                    *)

VARIABLES
    mediumTable,                \* the media phyProbeMediaCapability has added
    currentMediumIndex,         \* the medium phySetMedium has set last
    mediumIndexLastReported,    \* the one phyReportLinkStatus has seen last
    linkStatus,                 \* what setLinkStatus has told the stack
    selected,                   \* IOKit's selected medium
    fden,                       \* full duplex enable, BCR9
    linkUp                      \* link pass, the LED bit of BCR4

statusVars == <<mediumIndexLastReported, linkStatus>>
mediaVars == <<mediumTable, currentMediumIndex, statusVars, selected, fden,
               linkUp>>

Media == {"HD", "FD"}

MediaTypeOK ==
    /\ mediumTable \subseteq Media
    /\ currentMediumIndex \in Media \cup {"NONE"}
    /\ mediumIndexLastReported \in Media \cup {"NONE", "UNDEF"}
    /\ linkStatus \in Media \cup {"down", "unknown", "unlisted"}
    /\ selected \in Media \cup {"NONE"}
    /\ fden \in BOOLEAN
    /\ linkUp \in BOOLEAN

\* The duplex bit after lnc_set_medium(m) when it was fd.
LncSetMedium(m, fd) == m = "FD" \/ (fd /\ m # "HD")

LncGetMedium(fd) == IF fd THEN "FD" ELSE "HD"

\* Mutant of PhySetMedium: the chip is given the medium of the call before.
PhySetMediumLate(m, fd) ==
    IF m = currentMediumIndex THEN fd ELSE LncSetMedium(currentMediumIndex, fd)

\* The duplex bit after phySetMedium(m): nothing is written for the medium
\* that is current already.
PhySetMedium(m, fd) ==
    IF m = currentMediumIndex THEN fd ELSE LncSetMedium(m, fd)

\* The medium selectMedium works with; "NONE" is its null pointer.
Wanted(medium) ==
    IF medium = "NONE" /\ "FD" \in mediumTable THEN "FD" ELSE medium

\* phyProbeMediaCapability, which goes on when a medium cannot be added, and
\* the media state after init() and start().
MediaInit ==
    /\ mediumTable \in SUBSET Media
    /\ currentMediumIndex = "NONE"
    /\ mediumIndexLastReported = "UNDEF"
    /\ linkStatus = "unknown"
    /\ selected = "NONE"
    /\ fden = FALSE
    /\ linkUp \in BOOLEAN

\* Mutant of Told: the index goes to the stack as it is.
ToldIndex(active) == active

\* What setLinkStatus is told of the active medium: an active link has none
\* when the medium is not in the table.
Told(active) ==
    IF active = "NONE" THEN "down"
    ELSE IF active \in mediumTable THEN active ELSE "unlisted"

\* phyReportLinkStatus with the duplex bit at fd and setLinkStatus at status:
\* a report is made when it is forced or tells something new.
PhyReportLinkStatus(forced, fd, status) ==
    LET active == IF linkUp THEN LncGetMedium(fd) ELSE "NONE"
    IN  /\ mediumIndexLastReported' = active
        /\ linkStatus' = IF forced \/ active # mediumIndexLastReported
                         THEN Told(active) ELSE status

\* Mutant of SelectReport: the report is left to the timer's rules.
SelectReportIfNew(fd) == PhyReportLinkStatus(FALSE, fd, "down")

\* selectMedium marks the link as valid only, then forces a report.
SelectReport(fd) == PhyReportLinkStatus(TRUE, fd, "down")

\* selectMedium(m) for a medium there is, with the duplex bit at fd.
SelectMedium(m, fd) ==
    /\ fden' = PhySetMedium(m, fd)
    /\ currentMediumIndex' = m
    /\ SelectReport(PhySetMedium(m, fd))
=============================================================================
