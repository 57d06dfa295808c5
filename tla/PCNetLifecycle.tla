--------------------------- MODULE PCNetLifecycle ---------------------------
(* A driver instance from start() to free(): what start acquires and where  *)
(* it may fail, what goes on while it is up (PCNetActivation, with the      *)
(* multicast filter and the access mode that lnc_init sets with each run),  *)
(* and what free releases.  start and free run with nothing beside them     *)
(* that could see their middle: the interrupt source is enabled, but the    *)
(* handler returns at once.                                                 *)
EXTENDS PCNetActivation, PCNetFilter, PCNetMemory

CONSTANTS Bases     \* where the ring memory may lie

ASSUME LifecycleAssumption == Bases \subseteq Nat

VARIABLES
    phase,      \* of the instance
    held,       \* the objects and mappings it holds
    base,       \* the address of the ring memory
    dwio,       \* sc.dwio, the width of the driver's accesses
    chipDwio    \* the width the chip answers to

lifeVars == <<phase, held, base, dwio, chipDwio>>
allVars == <<vars, filterVars, lifeVars>>

\* What start acquires, in order.  super::start makes the first two by way of
\* createWorkLoop and createOutputQueue, initEventSources the next three.
Acquired == <<"workLoop", "transmitQueue", "pciNub", "interruptSrc",
              "timerSrc", "mediumDict", "memDescr", "csrMap">>

Resources == ToSet(Acquired) \cup {"netif"}

LifeTypeOK ==
    /\ ActTypeOK
    /\ FilterTypeOK
    /\ phase \in {"new", "started", "up", "failed", "freed", "trap"}
    /\ held \subseteq Resources
    /\ base \in Bases
    /\ dwio \in BOOLEAN /\ chipDwio \in BOOLEAN

----------------------------------------------------------------------------
(* start.                                                                   *)

\* Mutant of StartReset: start initialises the chip instead.
StartInit == CsrInit(TRUE)

\* initAdapter(kResetChip), once the registers are mapped.
StartReset == CsrStop

\* start() to the point where it closes the provider: it gets the first n
\* things and fails at the next, or at opening the provider, or has them all
\* and publishes the media, if that works.
Start ==
    /\ phase = "new"
    /\ \E n \in 0 .. Len(Acquired) :
        LET all == n = Len(Acquired) IN
        /\ held' = {Acquired[i] : i \in 1 .. n}
        /\ phase' \in IF all THEN {"started", "failed"} ELSE {"failed"}
        /\ csr0' = IF all THEN StartReset ELSE csr0
    /\ UNCHANGED <<levelVars, interruptEnabled, nubOpen, timerSet, queueVars,
                   mediaVars, filterVars, base, dwio, chipDwio>>

\* attachInterface with configureInterface, and registerService.
AttachInterface ==
    /\ phase = "started"
    /\ \/ phase' = "up" /\ held' = held \cup {"netif"}
       \/ phase' = "failed" /\ UNCHANGED held
    /\ UNCHANGED <<vars, filterVars, base, dwio, chipDwio>>

----------------------------------------------------------------------------
(* While it is up.                                                          *)

\* Mutant of ProbeAccess: word access unless the double word probe answers.
ProbeWordFirst(stopped) == FALSE

\* The access mode lnc_init finds: word access if CSR0 reads as stopped that
\* way and the address register can be read back, otherwise double word.
ProbeAccess(stopped) == ~(stopped /\ ~chipDwio)

\* What any lnc_init does beside CSR0 and BCR9, with MODE_PROM as prom.  The
\* stop before the probe reaches the chip in the right mode only, but then
\* start or disable has stopped it already.
LncInit(prom) ==
    /\ LncInitFilter(prom, "RXON" \in csr0')
    /\ dwio' = ProbeAccess(dwio = chipDwio \/ csr0 = {})
    /\ UNCHANGED <<phase, held, base, chipDwio>>

\* Steps that do not initialise the chip, and those that do.
Plain(step) == step /\ UNCHANGED <<filterVars, lifeVars>>
Inits(step) == step /\ LncInit(nicProm) /\ UNCHANGED promWanted

CallProceeds ==
    \/ Plain(\/ CallEnds \/ OpenRefused \/ EnableLevel2
             \/ DisableLevel2 \/ DisableLevel1)
    \/ Inits(EnableLevel1 \/ MediumRefused)

HandlerRuns == Plain(IntrServed) \/ Inits(IntrResets)

TimerFires == Plain(HandleTimeout)

\* Switching off what is not on does nothing.
PromiscuousStep ==
    \E on \in BOOLEAN :
        /\ on \/ nicProm
        /\ SetPromiscuousMode
        /\ LncInit(on)
        /\ promWanted' = on

\* setMulticastList; setMulticastMode passes no list.
MulticastStep ==
    /\ SetMulticast
    /\ \E addrs \in SUBSET Groups : LncSetMulticast(addrs)
    /\ UNCHANGED lifeVars

DriverStep ==
    \/ Plain(Enable \/ Disable \/ UserSelects)
    \/ CallProceeds \/ HandlerRuns \/ TimerFires
    \/ PromiscuousStep \/ MulticastStep

\* The chip and the cable do not wait for the driver.
ChipStep == Plain(ChipInterrupt \/ LinkChange)

----------------------------------------------------------------------------
(* stop and free.                                                           *)

\* Mutant of Released: the timer is forgotten.
ReleasedButTimer == Resources \ {"timerSrc"}

\* What free, lnc_release_resources and super::free release.
Released == Resources

\* IOKit detaches the clients, and with them disables the interface, before
\* it stops the driver.
Idle == goal = NoCall /\ currentLevel = 0

\* free, after stop or a failed start.  lnc_release_resources does not look
\* whether there is a memDescr to complete.
Free ==
    /\ phase = "failed" \/ (phase = "up" /\ Idle)
    /\ phase' = IF "memDescr" \in held THEN "freed" ELSE "trap"
    /\ held' = held \ Released
    /\ UNCHANGED <<vars, filterVars, base, dwio, chipDwio>>

----------------------------------------------------------------------------
LifeInit ==
    /\ ActInit
    /\ FilterInit
    /\ phase = "new"
    /\ held = {}
    /\ base \in Bases
    /\ dwio = FALSE
    /\ chipDwio \in BOOLEAN

LifeNext ==
    \/ Start \/ AttachInterface \/ Free
    \/ phase = "up" /\ DriverStep
    \/ ChipStep

LifeSpec == LifeInit /\ [][LifeNext]_allVars

\* As in PCNetActivation: calls run on, the handler is called while the pin
\* is asserted, the timer fires.
LifeFairSpec ==
    /\ LifeSpec
    /\ WF_allVars(phase = "up" /\ CallProceeds)
    /\ WF_allVars(phase = "up" /\ HandlerRuns)
    /\ WF_allVars(phase = "up" /\ TimerFires)

----------------------------------------------------------------------------
(* Properties.                                                              *)

\* What works needs what it works with: the interrupt handler the interface
\* (PCNet_Private.cpp:107, "so netif must be valid"), the registers and the
\* rings, the timer its source, a running chip the memory it writes to.
\* Nothing is held by an instance that is gone.
HeldWhileUsed ==
    /\ phase = "freed" => held = {}
    /\ interruptEnabled \/ queueRunning \/ timerSet => held = Resources
    /\ csr0 # {} /\ "FD" \in mediumTable => "memDescr" \in held

\* After an initialisation the chip passes every multicast address the client
\* has listed, by the chip's own hash, through disable and enable and
\* changes of the promiscuous mode; and the modes agree.
FilterAfterInit ==
    "RXON" \in csr0 =>
        /\ fromBlock => \A a \in listed : ChipHash[a] \in chipFilter
        /\ chipProm = promWanted

\* PCNet_lnc.cpp:871, "For each multicast address, calculate a crc for that
\* address": the filter of a running chip passes the listed addresses.
ListedPass ==
    "RXON" \in csr0 => \A a \in listed : ChipHash[a] \in chipFilter

\* The rings and buffers lie within the memory asked for, the descriptors
\* where the chip can find them, and a chip that was initialised is spoken to
\* in its own mode.
MemoryAndMode ==
    /\ LayoutEnd(base) <= base + MemSize
    /\ DescsAt(base) % 16 = 0
    /\ currentLevel # 0 => dwio = chipDwio

\* Whatever is held of the activation layer alone holds of it here.
ImplementsActivation == ActSpec
=============================================================================
