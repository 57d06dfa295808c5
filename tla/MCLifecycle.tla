---------------------------- MODULE MCLifecycle ----------------------------
(* PCNetLifecycle on two multicast groups, all hosts and multicast DNS, and  *)
(* ring memory that begins on a page.                                        *)
(*                                                                           *)
(* The driver's table of the CRC and the chip's polynomial agree on every    *)
(* address with at most one bit set.  Both hashes only shift and take        *)
(* exclusive ors, so they are affine in the bits of the address, and with    *)
(* that agree on all addresses.                                              *)
EXTENDS PCNetLifecycle

MCGroups == {<<1, 0, 94, 0, 0, 1>>, <<1, 0, 94, 0, 0, 251>>}
MCBases == {8192}

OneBit ==
    {[i \in 1 .. 6 |-> IF i = at THEN 2^bit ELSE 0] : at \in 0 .. 6, bit \in 0 .. 7}

ASSUME HashesAgree == \A a \in OneBit : Index(a) = ChipIndex(a)
=============================================================================
