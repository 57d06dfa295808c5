----------------------------- MODULE PCNetCsr0 -----------------------------
(* CSR0, the control and status register of the Am79C970A, as the set of   *)
(* its bits that are one.  The latched bits are set by the chip and cleared *)
(* by writing a one; IENA takes the written value; STOP clears everything.  *)
(* STOP, STRT and INIT are represented by their effect on TXON and RXON.    *)
(* BABL and CERR only reach counters and log lines and are left out.       *)
EXTENDS FiniteSets

Latched == {"MISS", "MERR", "RINT", "TINT", "IDON"}

Csr0Bits == Latched \cup {"IENA", "TXON", "RXON"}

\* The INTR bit, recomputed by the chip from the latched bits.
INTR(c) == c \cap Latched # {}

\* The interrupt pin, which is level triggered.
INTA(c) == INTR(c) /\ "IENA" \in c

\* write_csr(CSR, v) for a v without STOP, STRT and INIT.
CsrWrite(c, v) == (c \ ((v \cap Latched) \cup {"IENA"})) \cup (v \cap {"IENA"})

\* pcnet32_stop: every bit but STOP itself reads as zero afterwards.
CsrStop == {}

\* pcnet32_start: STRT and IENA are written.  Only a chip that has read its
\* initialization block has rings to run.
CsrStart(c, initialized) ==
    c \cup {"IENA"} \cup (IF initialized THEN {"TXON", "RXON"} ELSE {})

\* CSR0 when lnc_init returns: IDON seen and the chip started, or neither.
CsrInit(ok) == IF ok THEN CsrStart({"IDON"}, TRUE) ELSE CsrStop
=============================================================================
