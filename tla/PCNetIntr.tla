----------------------------- MODULE PCNetIntr -----------------------------
(* lnc_intr and the chip state it shares with both rings.                   *)
(*                                                                          *)
(* Driver code runs under the gate of one work loop, so it is one process;  *)
(* pc says where in the interrupt handler it is and "idle" that the gate is *)
(* free.  The chip is the other process: it may set latched bits of CSR0    *)
(* and turn descriptors over between any two steps of the handler.          *)
(*                                                                          *)
(* The interface is at activation level 2 (interruptEnabled is true), and   *)
(* a handler of one ring treats what the other ring's handler does as an    *)
(* environment step; PCNetDriver puts both halves together.                 *)
EXTENDS PCNetCsr0, Naturals

CONSTANTS
    MaxEvents,      \* bound on what the environment does unasked: memory
                    \* errors, filter changes, missed frames
    InitOutcomes,   \* whether IDON may be seen / may not be seen in 1000 polls
    Multicast,      \* the multicast list may change
    ReloadOnStart   \* STRT without INIT takes the chip's descriptor pointers
                    \* back to the ring bases (Am79C970A) or not (C-LANCE)

ASSUME IntrAssumption ==
    /\ MaxEvents \in Nat
    /\ InitOutcomes \subseteq BOOLEAN
    /\ Multicast \in BOOLEAN
    /\ ReloadOnStart \in BOOLEAN

VARIABLES
    csr0,       \* the register
    pc,         \* the driver's place in the interrupt handler
    lcsr,       \* lnc_intr's local csr0, the value last read
    initDone,   \* the chip has read the initialization block
    resets,     \* number of times lnc_init has run
    events      \* environment events so far, see MaxEvents

intrVars == <<csr0, pc, lcsr, initDone, resets, events>>

\* "tint" and its continuations belong to lnc_tint, "rint" to lnc_rint;
\* "reset" is lnc_reset called from lnc_intr or lnc_tint, "rintReset" the one
\* called from lnc_rint; "hang" is a scan loop that never ends.
IntrPCs == {"idle", "read", "ack", "reset", "rintReset", "rint", "rintEnd",
            "tint", "tintTest", "tintEnd", "hang"}

IntrTypeOK ==
    /\ csr0 \subseteq Csr0Bits
    /\ pc \in IntrPCs
    /\ lcsr \subseteq Csr0Bits
    /\ initDone \in BOOLEAN
    /\ resets \in Nat
    /\ events \in 0..MaxEvents

----------------------------------------------------------------------------
\* What lnc_intr does once lnc_rint has returned: it tests TINT in the value
\* it read before, whatever lnc_rint did to the chip in between.
AfterRint(c) == IF "TINT" \in c THEN "tint" ELSE "read"

\* What it does after acknowledging c.
Dispatch(c) == IF "MERR" \in c THEN "reset"
               ELSE IF "RINT" \in c THEN "rint"
               ELSE AfterRint(c)

\* The work loop calls handleInterrupt.
IntrEnter ==
    /\ pc = "idle"
    /\ INTA(csr0)
    /\ pc' = "read"
    /\ UNCHANGED <<csr0, lcsr, initDone, resets, events>>

\* The loop test reads CSR0 with INTR set.
IntrRead ==
    /\ pc = "read"
    /\ INTR(csr0)
    /\ lcsr' = csr0
    /\ pc' = "ack"
    /\ UNCHANGED <<csr0, initDone, resets, events>>

\* The loop test reads CSR0 with INTR clear: lnc_intr returns.
IntrReturn ==
    /\ pc = "read"
    /\ ~INTR(csr0)
    /\ lcsr' = {}
    /\ pc' = "idle"
    /\ UNCHANGED <<csr0, initDone, resets, events>>

\* Mutant of AckValue: only the causes with a handler are cleared.
AckHandled(c) == c \cap {"RINT", "TINT", "IENA"}

\* The value lnc_intr writes back, which clears the causes it holds.
AckValue(c) == c

\* The causes are cleared, then handled in order.
IntrAck ==
    /\ pc = "ack"
    /\ csr0' = CsrWrite(csr0, AckValue(lcsr))
    /\ pc' = Dispatch(lcsr)
    /\ UNCHANGED <<lcsr, initDone, resets, events>>

----------------------------------------------------------------------------
\* lnc_init as the chip sees it: stopped, reset, initialized and started, or
\* left alone after "Initialisation failed".
InitChip(ok) ==
    /\ csr0' = CsrInit(ok)
    /\ initDone' = ok
    /\ resets' = resets + 1

\* Where lnc_reset returns to.
ResetReturn == IF pc = "reset" THEN "read" ELSE AfterRint(lcsr)

\* lnc_reset called from the interrupt handler.
ResetChip(ok) ==
    /\ pc \in {"reset", "rintReset"}
    /\ InitChip(ok)
    /\ pc' = ResetReturn
    /\ UNCHANGED <<lcsr, events>>

\* lnc_set_promiscuous_mode re-runs lnc_init from outside the handler.
PromiscChip(ok) ==
    /\ pc = "idle"
    /\ events < MaxEvents
    /\ events' = events + 1
    /\ InitChip(ok)
    /\ UNCHANGED <<pc, lcsr>>

\* lnc_set_multicast stops the chip, writes the filter and starts it again.
MulticastChip ==
    /\ Multicast
    /\ pc = "idle"
    /\ events < MaxEvents
    /\ events' = events + 1
    /\ csr0' = CsrStart(CsrStop, initDone)
    /\ UNCHANGED <<pc, lcsr, initDone, resets>>

\* A bus error, or a frame that found no descriptor.
ChipRaise(bit) ==
    /\ {"TXON", "RXON"} \cap csr0 # {}
    /\ events < MaxEvents
    /\ events' = events + 1
    /\ csr0' = csr0 \cup {bit}
    /\ UNCHANGED <<pc, lcsr, initDone, resets>>

\* The interface has just been enabled: lnc_init ran, interrupts are on.
IntrInit ==
    /\ csr0 = CsrInit(TRUE)
    /\ pc = "idle"
    /\ lcsr = {}
    /\ initDone = TRUE
    /\ resets = 0
    /\ events = 0
=============================================================================
