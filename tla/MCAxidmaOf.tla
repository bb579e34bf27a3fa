----------------------------- MODULE MCAxidmaOf -----------------------------
(* Small instances of AxidmaOf for TLC.                                    *)
EXTENDS AxidmaOf

TwoIds == {0, 3}

=============================================================================
