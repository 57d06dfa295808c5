------------------------------- MODULE RxPath -------------------------------
(* What the receive path promises.  Frames are numbered in the order of     *)
(* their arrival.  A frame that found room waits until the driver consumes  *)
(* it; frames are consumed in the order of their arrival and once; each one *)
(* consumed is either passed up or not; only lnc_init throws away the ones  *)
(* still waiting.                                                           *)
EXTENDS Naturals

VARIABLES
    waiting,    \* frames in the ring the driver has not consumed
    arrived,    \* number of frames that have arrived
    delivered,  \* the frame passed up last
    resets      \* number of times everything waiting was thrown away

vars == <<waiting, arrived, delivered, resets>>

Init ==
    /\ waiting = {}
    /\ arrived = 0
    /\ delivered = 0
    /\ resets = 0

Arrive ==
    /\ arrived' = arrived + 1
    /\ waiting' = waiting \cup {arrived'}
    /\ UNCHANGED <<delivered, resets>>

\* No room, or the chip was stopped in the middle of the frame.
Miss ==
    /\ arrived' = arrived + 1
    /\ UNCHANGED <<waiting, delivered, resets>>

Consume ==
    /\ \E f \in waiting :
           /\ \A g \in waiting : f <= g
           /\ waiting' = waiting \ {f}
           /\ delivered' \in {delivered, f}
    /\ UNCHANGED <<arrived, resets>>

Flush ==
    /\ resets' = resets + 1
    /\ waiting' = {}
    /\ UNCHANGED <<arrived, delivered>>

Next == Arrive \/ Miss \/ Consume \/ Flush

Spec == Init /\ [][Next]_vars
=============================================================================
