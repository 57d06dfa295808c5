---------------------------- MODULE PCNetFilter ----------------------------
(* The multicast filter and promiscuous mode: lnc_setladrf and its CRC,     *)
(* what lnc_init and lnc_set_multicast give the chip.  A library like       *)
(* PCNetMedia; the calls are in PCNetLifecycle.  A CRC, a mode word or a    *)
(* filter is the set of the positions of its one bits.                      *)
EXTENDS Integers, SequencesExt

CONSTANT Groups     \* the multicast addresses the client may ask for

ASSUME FilterAssumption ==
    \A a \in Groups : Len(a) = 6 /\ \A i \in 1 .. 6 : a[i] \in 0 .. 255

VARIABLES
    ladrb,          \* the filter the driver remembers
    nicProm,        \* MODE_PROM is set in nic_mode
    drvRunning,     \* LNC_IFF_DRV_RUNNING is set in if_drv_flags
    chipFilter,     \* the chip's filter, CSR8 to CSR11
    chipProm,       \* the chip's promiscuous mode, CSR15
    fromBlock,      \* the chip's filter came from the initialization block
    listed,         \* the addresses the client wants, by its last call
    promWanted      \* the promiscuous mode the client wants

filterVars == <<ladrb, nicProm, drvRunning, chipFilter, chipProm, fromBlock,
                listed, promWanted>>

FilterTypeOK ==
    /\ ladrb \subseteq 0 .. 63
    /\ chipFilter \subseteq 0 .. 63
    /\ nicProm \in BOOLEAN /\ drvRunning \in BOOLEAN /\ chipProm \in BOOLEAN
    /\ fromBlock \in BOOLEAN /\ promWanted \in BOOLEAN
    /\ listed \subseteq Groups

----------------------------------------------------------------------------
(* The hash.                                                                *)

BitsOf(n, shift) == {b + shift : b \in {i \in 0 .. 15 : (n \div 2^i) % 2 = 1}}

Xor(a, b) == (a \ b) \cup (b \ a)

Right(a, n) == {b - n : b \in {i \in a : i >= n}}

\* The table of ether_crc32_le in halves of 16 bits.
crctab ==
    << <<\h0000, \h0000>>, <<\h1db7, \h1064>>, <<\h3b6e, \h20c8>>,
       <<\h26d9, \h30ac>>, <<\h76dc, \h4190>>, <<\h6b6b, \h51f4>>,
       <<\h4db2, \h6158>>, <<\h5005, \h713c>>, <<\hedb8, \h8320>>,
       <<\hf00f, \h9344>>, <<\hd6d6, \ha3e8>>, <<\hcb61, \hb38c>>,
       <<\h9b64, \hc2b0>>, <<\h86d3, \hd2d4>>, <<\ha00a, \he278>>,
       <<\hbdbd, \hf21c>> >>

\* One step of the CRC over four bits.
Nibble(crc) ==
    LET index == FoldSet(LAMBDA b, n : n + 2^b, 0, crc \cap 0 .. 3)
        entry == crctab[index + 1]
    IN  Xor(Right(crc, 4), BitsOf(entry[1], 16) \cup BitsOf(entry[2], 0))

EtherByte(crc, byte) == Nibble(Nibble(Xor(crc, BitsOf(byte, 0))))

\* The high six bits of a CRC as a number.
HighSix(crc) ==
    LET bit(b, weight) == IF b \in crc THEN weight ELSE 0
    IN  bit(26, 1) + bit(27, 2) + bit(28, 4) + bit(29, 8) + bit(30, 16) + bit(31, 32)

\* What lnc_setladrf makes of an address with ether_crc32_le.
Index(address) == HighSix(FoldLeft(EtherByte, 0 .. 31, address))

\* The chip's own hash, bit by bit with the polynomial of IEEE 802.3.
Polynomial == BitsOf(\hedb8, 16) \cup BitsOf(\h8320, 0)

ChipBit(crc, bit) ==
    IF (0 \in crc) # bit THEN Xor(Right(crc, 1), Polynomial) ELSE Right(crc, 1)

ChipByte(crc, byte) ==
    FoldLeft(LAMBDA c, i : ChipBit(c, (byte \div 2^(i - 1)) % 2 = 1), crc,
             [i \in 1 .. 8 |-> i])

ChipIndex(address) == HighSix(FoldLeft(ChipByte, 0 .. 31, address))

ChipHash == [a \in Groups |-> ChipIndex(a)]

\* lnc_setladrf.  LNC_IFF_ALLMULTI is looked for in sc.flags, where no one
\* sets it, so the filter always comes from the list.
IndexOf == [a \in Groups |-> Index(a)]
Ladrf(addrs) == {IndexOf[a] : a \in addrs}

----------------------------------------------------------------------------
(* What the chip is given.                                                  *)

\* The words lnc_set_multicast writes to CSR8 to CSR11.  It indexes ladrb
\* with the register's number, 8 to 11, and so reads sixteen bytes further
\* on: nic_mode (MODE_NORMAL is bit 7, MODE_PROM bit 15) and if_drv_flags
\* (LNC_IFF_DRV_RUNNING is bit 1, OACTIVE is never set).
LafWritten ==
    {7} \cup (IF nicProm THEN {15} ELSE {})
        \cup (IF drvRunning THEN {33} ELSE {})

\* lnc_set_multicast(addrs).
LncSetMulticast(addrs) ==
    /\ ladrb' = Ladrf(addrs)
    /\ listed' = addrs
    /\ chipFilter' = LafWritten
    /\ fromBlock' = FALSE
    /\ UNCHANGED <<nicProm, drvRunning, chipProm, promWanted>>

\* Mutant of BlockFilter: the list is not carried over an initialization.
BlockFilterClear == {}

\* The filter in the initialization block.
BlockFilter == ladrb

\* lnc_init with MODE_PROM as prom: the chip reads mode and filter from the
\* initialization block when it works.
LncInitFilter(prom, works) ==
    /\ nicProm' = prom
    /\ drvRunning' = (drvRunning \/ works)
    /\ chipFilter' = IF works THEN BlockFilter ELSE chipFilter
    /\ chipProm' = IF works THEN prom ELSE chipProm
    /\ fromBlock' = (works \/ fromBlock)
    /\ UNCHANGED <<ladrb, listed>>

\* lnc_attach_common; the chip's registers are as the reset left them.
FilterInit ==
    /\ ladrb = {} /\ chipFilter = {} /\ listed = {}
    /\ nicProm = FALSE /\ drvRunning = FALSE /\ chipProm = FALSE
    /\ fromBlock = FALSE /\ promWanted = FALSE
=============================================================================
