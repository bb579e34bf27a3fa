----------------------------- MODULE MCLibAxidma -----------------------------
(* Small instances of LibAxidma for TLC.                                   *)
EXTENDS LibAxidma

(* Two receive channels and a transmit channel, whose ids are not their    *)
(* positions.                                                              *)
ThreeChans == << [channel_id |-> 1, kind |-> "dma_tx"],
                 [channel_id |-> 2, kind |-> "dma_rx"],
                 [channel_id |-> 0, kind |-> "dma_rx"] >>

=============================================================================
