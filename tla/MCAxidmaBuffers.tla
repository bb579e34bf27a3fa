--------------------------- MODULE MCAxidmaBuffers ---------------------------
(* Small instances of AxidmaBuffers for TLC.                               *)
EXTENDS AxidmaBuffers

CONSTANTS p1, b1, b2

OneProc  == {p1}
TwoBufs  == {b1, b2}
Sizes    == [b \in Bufs |-> IF b = b1 THEN 2 ELSE 1]

=============================================================================
