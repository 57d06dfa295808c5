------------------------------- MODULE TxPath -------------------------------
(* What the transmit path promises.  Packets are numbered in the order in   *)
(* which outputPacket took them.  The chip finishes them one by one in that *)
(* order, whether they reach the wire or fail there; only lnc_init may      *)
(* throw away the ones still waiting.                                       *)
EXTENDS Naturals

VARIABLES
    waiting,    \* packets taken from the stack the chip has not finished
    accepted,   \* number of packets taken so far
    handled,    \* the packet the chip finished last
    resets      \* number of times everything waiting was thrown away

vars == <<waiting, accepted, handled, resets>>

Init ==
    /\ waiting = {}
    /\ accepted = 0
    /\ handled = 0
    /\ resets = 0

Accept ==
    /\ accepted' = accepted + 1
    /\ waiting' = waiting \cup {accepted'}
    /\ UNCHANGED <<handled, resets>>

Handle ==
    /\ \E p \in waiting :
           /\ \A q \in waiting : p <= q
           /\ waiting' = waiting \ {p}
           /\ handled' = p
    /\ UNCHANGED <<accepted, resets>>

Flush ==
    /\ resets' = resets + 1
    /\ waiting' = {}
    /\ UNCHANGED <<accepted, handled>>

Next == Accept \/ Handle \/ Flush

Spec == Init /\ [][Next]_vars
=============================================================================
