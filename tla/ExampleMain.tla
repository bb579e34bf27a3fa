---------------------------- MODULE ExampleMain ----------------------------
(***************************************************************************)
(* What the main functions of examples/axidma_test.c, dma_uart.c,          *)
(* test_axidma.c and interdma.c have in common: they take the device and   *)
(* two buffers, look for a transmit and a receive channel, and give back   *)
(* what they hold at labels that run into each other.  The modules that    *)
(* extend this one add the options and what the program does with the      *)
(* buffers.  The assertions of the library on channel ids are left out     *)
(* (the ids given exist), as are -h and what is printed.                   *)
(*                                                                         *)
(* Operators named Bug... are faulty versions of the operator that follows *)
(* them; no action uses them.                                              *)
(***************************************************************************)
EXTENDS Integers, Sequences

VARIABLES
    pc,              \* where main is
    held,            \* the resources it holds
    rc,              \* the value it returns
    tx_size, rx_size \* of the two buffers

main == <<pc, held, rc, tx_size, rx_size>>

Go(l)  == pc' = l
Ret(v) == rc' = v
Sizes2 == UNCHANGED <<tx_size, rx_size>>

MainInit == pc = "start" /\ held = {} /\ rc = 0 /\ tx_size = 0 /\ rx_size = 0

Refused ==
    /\ pc = "start" /\ Go("exit") /\ Ret(1)
    /\ UNCHANGED held /\ Sizes2

(* The steps that take something: what, where they lead, where they go     *)
(* when they fail, and the value returned then.                            *)
Step(gets, next, fail, value) == [gets |-> gets, next |-> next, fail |-> fail, rc |-> value]
BugSteps ==
    [init      |-> Step("device", "malloc_tx", "exit", 1),
     malloc_tx |-> Step("tx_buf", "malloc_rx", "destroy", -1),
     malloc_rx |-> Step("rx_buf", "channels", "free_rx", -1)]
Steps ==
    [init      |-> Step("device", "malloc_tx", "exit", 1),
     malloc_tx |-> Step("tx_buf", "malloc_rx", "destroy", -1),
     malloc_rx |-> Step("rx_buf", "channels", "free_tx", -1)]

(* The driver maps no buffer of 0 bytes.                                   *)
Room(l) ==
    CASE l = "malloc_tx" -> tx_size > 0 [] l = "malloc_rx" -> rx_size > 0 [] OTHER -> TRUE

Take ==
    /\ pc \in DOMAIN Steps
    /\ \/ /\ Room(pc)
          /\ held' = held \cup {Steps[pc].gets} /\ Go(Steps[pc].next) /\ UNCHANGED rc
       \/ Go(Steps[pc].fail) /\ Ret(Steps[pc].rc) /\ UNCHANGED held
    /\ Sizes2

FindChannels(next) ==
    /\ pc = "channels"
    /\ \/ Go(next) /\ UNCHANGED rc
       \/ Go("free_rx") /\ Ret(-19)
    /\ UNCHANGED held /\ Sizes2

Giving == [free_rx |-> "rx_buf", free_tx |-> "tx_buf", destroy |-> "device"]
AfterGiving == [free_rx |-> "free_tx", free_tx |-> "destroy", destroy |-> "exit"]

Give ==
    /\ pc \in DOMAIN Giving
    /\ held' = held \ {Giving[pc]} /\ Go(AfterGiving[pc])
    /\ UNCHANGED rc /\ Sizes2

-----------------------------------------------------------------------------
(* parse_args of axidma_test.c and dma_uart.c as one choice: it refuses a  *)
(* command line, or comes up with the default sizes or two others.         *)
Accepted(sizes, default) ==
    {<<default, default>>} \cup ((sizes \ {default}) \X (sizes \ {default}))

SizesGiven(pairs) ==
    /\ pc = "start" /\ Go("init")
    /\ \E s \in pairs : tx_size' = s[1] /\ rx_size' = s[2]
    /\ UNCHANGED <<held, rc>>

-----------------------------------------------------------------------------
MainTypeOK ==
    /\ held \subseteq {"device", "tx_buf", "rx_buf"}
    /\ tx_size \in Nat /\ rx_size \in Nat /\ rc \in Int

(* main gives back exactly what it holds, whichever step failed, and holds *)
(* nothing when it returns.                                                *)
GivesBackAll ==
    /\ pc \in DOMAIN Giving => Giving[pc] \in held
    /\ pc = "exit" => held = {}

-----------------------------------------------------------------------------
(* What main holds where it is.                                            *)
HeldAt(l) ==
    CASE l \in {"start", "init", "exit", "dead"} -> {}
      [] l \in {"malloc_tx", "destroy"} -> {"device"}
      [] l \in {"malloc_rx", "free_tx"} -> {"device", "tx_buf"}
      [] OTHER -> {"device", "tx_buf", "rx_buf"}

(* The points of the program are those of main and of udp_send.            *)
LadderInv ==
    /\ held = HeldAt(pc)
    /\ MainTypeOK
=============================================================================
