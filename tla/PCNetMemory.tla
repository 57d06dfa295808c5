---------------------------- MODULE PCNetMemory ----------------------------
(* The one contiguous buffer lnc_pci_attach asks for and the places lnc_init *)
(* gives the rings, the initialization block and the packet buffers in it,   *)
(* as addresses from the buffer's own, base.  Sizes are those of the i386.   *)
EXTENDS Integers

CONSTANTS RecvDescs, TransDescs     \* LNC_NDESC(sc.nrdre), LNC_NDESC(sc.ntdre)

ASSUME MemoryAssumption == RecvDescs \in Nat /\ TransDescs \in Nat

Descs == RecvDescs + TransDescs
HostRingEntry == 8
InitBlockSize == 28
MdsSize == 16
MemSlew == 16
BufSize == 1518

\* lnc_mem_size.
MemSize ==
    Descs * HostRingEntry + InitBlockSize + MdsSize * Descs + MemSlew + 32
    + RecvDescs * BufSize + TransDescs * BufSize

\* The next multiple of n.
Align(address, n) == ((address + n - 1) \div n) * n

InitBlockAt(base) == Align(base + Descs * HostRingEntry, 2)

DescsAt(base) == Align(InitBlockAt(base) + InitBlockSize, 16)

\* The buffers follow the descriptors, the transmit ring's the receive ring's.
BuffersAt(base) == DescsAt(base) + Descs * MdsSize

LayoutEnd(base) == BuffersAt(base) + RecvDescs * BufSize + TransDescs * BufSize
=============================================================================
