--------------------------- MODULE PCNetLinuxProbe ---------------------------
(* The bus side of pcnet32-linux.c, the Linux driver the kext's authors keep *)
(* for reference: what a probe acquires, which label of probe1 a failure     *)
(* jumps to, and what removal gives back.  A probe runs in one thread, so a  *)
(* step here is one acquisition and its check.                               *)
EXTENDS Naturals

VARIABLES
    bus,      \* what the driver holds for the card
    probe,    \* the next acquisition, "idle" outside a probe
    kind      \* "pci" or "vlb": the bus the card sits on

probeVars == <<bus, probe, kind>>

Things == {"enabled", "region", "netdev", "consistent", "registered"}
Points == {"idle", "region", "chip", "netdev", "consistent", "irq", "register"}

ProbeTypeOK ==
    /\ bus \subseteq Things
    /\ probe \in Points
    /\ kind \in {"pci", "vlb"}

(* The labels at the end of probe1, each falling into the next. *)
ErrReleaseRegion == {"region"}
ErrNetdevOnly == {"netdev"}
ErrFreeNetdev == {"netdev"} \cup ErrReleaseRegion
ErrFreeConsistent == {"consistent"} \cup ErrFreeNetdev

(* A failure inside probe1: the label gives back its things, and probe_pci,  *)
(* which gets the error, disables the device.                                *)
Fail(label) ==
    /\ bus' = bus \ (label \cup {"enabled"})
    /\ probe' = "idle"
    /\ UNCHANGED kind

Got(things, next) ==
    /\ bus' = bus \cup things
    /\ probe' = next
    /\ UNCHANGED kind

(* pci_module_init finds the card, or the VESA bus search comes to its port. *)
(* A device that cannot be enabled ends the probe with nothing held.         *)
ProbePci ==
    /\ probe = "idle"
    /\ kind = "pci"
    /\ "registered" \notin bus
    /\ \/ Got({"enabled"}, "region")
       \/ UNCHANGED probeVars

ProbeVlbus ==
    /\ probe = "idle"
    /\ kind = "vlb"
    /\ "registered" \notin bus
    /\ Got({}, "region")

(* No I/O resource, no 32-bit DMA, or the ports are taken: probe_pci returns *)
(* without disabling the device, and the VESA search goes on.                *)
ProbeRegion ==
    /\ probe = "region"
    /\ \/ Got({"region"}, "chip")
       \/ Got({}, "idle")

(* The chip answers in neither access mode or has another version; on the    *)
(* VESA bus the search has looked at the PROM's signature first and gives    *)
(* the ports back itself.                                                    *)
ProbeChip ==
    /\ probe = "chip"
    /\ \/ Got({}, "netdev")
       \/ Fail(ErrReleaseRegion)

ProbeNetdev ==
    /\ probe = "netdev"
    /\ \/ Got({"netdev"}, "consistent")
       \/ Fail(ErrReleaseRegion)

ProbeConsistent ==
    /\ probe = "consistent"
    /\ \/ Got({"consistent"}, IF kind = "vlb" THEN "irq" ELSE "register")
       \/ Fail(ErrFreeNetdev)

(* A VESA card is initialised only to see which interrupt line it raises. *)
ProbeIrq ==
    /\ probe = "irq"
    /\ \/ Got({}, "register")
       \/ Fail(ErrFreeConsistent)

ProbeRegister ==
    /\ probe = "register"
    /\ \/ Got({"registered"}, "idle")
       \/ Fail(ErrFreeConsistent)

(* remove_one for a PCI card, cleanup_module's own loop for a VESA one. *)
RemoveOne ==
    /\ probe = "idle"
    /\ "registered" \in bus
    /\ bus' = {}
    /\ UNCHANGED <<probe, kind>>

ProbeInit ==
    /\ bus = {}
    /\ probe = "idle"
    /\ kind \in {"pci", "vlb"}

ProbeNext ==
    \/ ProbePci
    \/ ProbeVlbus
    \/ ProbeRegion
    \/ ProbeChip
    \/ ProbeNetdev
    \/ ProbeConsistent
    \/ ProbeIrq
    \/ ProbeRegister
=============================================================================
