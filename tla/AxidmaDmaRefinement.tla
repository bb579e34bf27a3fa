------------------------- MODULE AxidmaDmaRefinement -------------------------
(***************************************************************************)
(* The transfer path implements TransferService: the completion, the       *)
(* timeout, the cookie comparison, the callback and its shared record are  *)
(* steps a client cannot see.                                              *)
(***************************************************************************)
EXTENDS MCAxidmaDma

InACall(t) == pc[t] # "idle"
Final(t)   == tfr[t][LastLeg(t)]

(* What a client sees of its call, and what the hardware may still do.     *)
Answered == [t \in Threads |-> IF InACall(t) THEN "busy"
                               ELSE IF rc[t] = "OK" THEN "OK" ELSE "failed"]
Using    == [t \in Threads |-> IF InACall(t) THEN {tfr[t][i].chan : i \in Leg} ELSE {}]
Awaiting == [t \in Threads |-> IF InACall(t) /\ Final(t).wait
                               THEN Final(t).chan ELSE NULL]
Mine     == [t \in Threads |-> {<<tfr[t][i].chan, tfr[t][i].cookie>> :
                                  i \in {j \in Leg : tfr[t][j].cookie # 0}}]
Live     == [c \in Chans |-> {n \in Cookies : stage[c][n] \in {"pending", "active"}}]

Service == INSTANCE TransferService WITH
    Clients <- Threads, Channels <- Chans, NoChannel <- NULL, MaxTransfers <- MaxCookie,
    answer  <- Answered, using <- Using, awaited <- Awaiting, mine <- Mine,
    accepted <- lastUsed, live <- Live

(* Every behaviour of the transfer path of axidma_dma.c is one of the      *)
(* service: a call that waits answers 0 only for a transfer carried out,   *)
(* never leaves the hardware with its buffer, and always answers.          *)
ImplementsService == Service!Spec
=============================================================================
