----------------------------- MODULE MCAxidmaUse -----------------------------
(* Small instances of AxidmaUse for TLC.                                   *)
EXTENDS AxidmaUse, TLC

CONSTANTS p1, b1, c1, c2

OneProc  == {p1}
OneBuf   == {b1}
Sizes    == [b \in Bufs |-> 1]
TwoChans == {c1, c2}
Either   == Permutations(TwoChans)

(* No action reads rc.                                                     *)
ExceptRc == <<opened, vmas, imports, ownVars, importVars, queue>>

=============================================================================
