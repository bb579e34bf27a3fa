------------------------------ MODULE MCBringUp ------------------------------
(* The two parts of the driver's bring-up, each in a small instance: the   *)
(* parsing of a device tree node, and the probe of one with clients and an *)
(* administrator at work.                                                  *)
EXTENDS AxidmaUnbind, Integers, Sequences

CONSTANTS n1, Ids, MaxChans

ASSUME BringUpConstants == MaxChans \in Nat

VARIABLES part,     \* which of the two: "parse" or "probe"
          o_dma_names, o_dmas, o_tree, o_pc, o_rc, o_num_chans, o_channels, o_counts

Of == INSTANCE AxidmaOf WITH
    dma_names <- o_dma_names, dmas <- o_dmas, tree <- o_tree, pc <- o_pc, rc <- o_rc,
    num_chans <- o_num_chans, channels <- o_channels, counts <- o_counts

OneNodeSet == {n1}
TwoIds     == {0, 3}

ofVars == <<o_dma_names, o_dmas, o_tree, o_pc, o_rc, o_num_chans, o_channels, o_counts>>

(* The part that is not looked at does nothing.                            *)
Nothing == [present |-> FALSE, len |-> -1]

BringUpInit ==
    /\ part \in {"parse", "probe"}
    /\ UnbindInit
    /\ Of!Init
    /\ part = "probe" => o_dma_names = Nothing /\ o_dmas = Nothing

BringUpNext ==
    /\ UNCHANGED part
    /\ \/ part = "probe" /\ UnbindNext /\ UNCHANGED ofVars
       \/ part = "parse" /\ Of!Next /\ UNCHANGED unbindVars
       \/ part = "parse" /\ o_pc = "done" /\ UNCHANGED <<ofVars, unbindVars>>

BringUpSpec == BringUpInit /\ [][BringUpNext]_<<part, ofVars, unbindVars>>

BringUpTypeOK == UnbindTypeOK /\ Of!TypeOK

(* See AxidmaOf: the driver accepts well-formed trees and makes the tree's *)
(* channels of them (axidma_of.c:98-216).                                  *)
AcceptsGoodTrees == Of!AcceptsGoodTrees

(* See AxidmaOf: the four counts handed to the library (axidma_of.c:24-61).*)
CountsAreTheChannels == Of!CountsAreTheChannels

=============================================================================
