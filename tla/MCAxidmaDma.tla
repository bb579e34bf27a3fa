----------------------------- MODULE MCAxidmaDma -----------------------------
(***************************************************************************)
(* Small instances of AxidmaDma.  A client is named after what it does, a  *)
(* channel after its direction.                                            *)
(***************************************************************************)
EXTENDS AxidmaDmaInv

(* One process with a transmit and a receive channel, as axidma_transfer.c *)
(* and axidma_benchmark.c use them: transmit legs are never waited for,    *)
(* receive legs always are.                                                *)
TxRxDir   == [c \in Chans |-> IF c = "tx" THEN "WRITE" ELSE "READ"]
TxRxType  == [c \in Chans |-> "DMA"]
TxRxUses  == [t \in Threads |-> Chans]
TxRxWaits == [c \in Chans |-> {c # "tx"}]

(* The same channels, with blocking and asynchronous calls mixed on both.  *)
MixedWaits == [c \in Chans |-> BOOLEAN]

(* A VDMA transmit channel.                                                *)
VideoType == [c \in Chans |-> "VDMA"]
=============================================================================
