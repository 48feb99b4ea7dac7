--------------------------- MODULE MCAsyncLogging ---------------------------
(* Instance of AsyncLogging for TLC.                                       *)
EXTENDS AsyncLogging

CONSTANTS l1, l2, l3, l4, l5

FiveLines == {l1, l2, l3, l4, l5}
ThreeFillABuffer == [l \in FiveLines |-> IF l \in {l1, l2} THEN 1 ELSE 3]
=============================================================================
