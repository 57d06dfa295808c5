----------------------------- MODULE PCNetRing -----------------------------
(* Positions in a descriptor ring and the loops that walk it.               *)
EXTENDS Integers, FiniteSetsExt

CONSTANT NDesc      \* number of descriptors, LNC_NDESC

Idx == 0 .. NDesc - 1

\* The ring position k places after i, for k at most NDesc.
Add(i, k) == IF i + k < NDesc THEN i + k ELSE i + k - NDesc

\* Mutant of Inc: the pointer does not wrap.
IncNoWrap(i) == i + 1

\* LNC_INC_MD_PTR.
Inc(i) == Add(i, 1)

\* Turns of a do-while that starts at i and ends on reaching j.
Steps(i, j) == IF j > i THEN j - i ELSE j - i + NDesc

\* The n positions from i on.
Span(i, n) == {Add(i, k) : k \in 0 .. n - 1}
=============================================================================
