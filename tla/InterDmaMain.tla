---------------------------- MODULE InterDmaMain ----------------------------
(***************************************************************************)
(* The start of main in examples/interdma.c, up to the moment its two      *)
(* threads run (module InterDma).  The result of axidma_set_callback is    *)
(* ignored; it always succeeds for the channels found.                     *)
(***************************************************************************)
EXTENDS ExampleMain

CONSTANT MAX_SIZE

VARIABLE callback \* the channels that have a callback

vars == <<main, callback>>

Init == MainInit /\ callback = {}

init_args == SizesGiven({<<MAX_SIZE, MAX_SIZE>>})

SetCallbacks ==
    /\ pc = "callbacks" /\ callback' = {"mm2s", "s2mm"} /\ Go("create")
    /\ UNCHANGED <<held, rc>> /\ Sizes2

(* When the thread cannot be created, main returns a value it never set.   *)
Create ==
    /\ pc = "create"
    /\ \/ Go("loop") /\ UNCHANGED rc
       \/ Go("free_rx") /\ rc' \in {0, 1}
    /\ UNCHANGED <<held, callback>> /\ Sizes2

Startup == (init_args \/ Take \/ FindChannels("callbacks") \/ Give) /\ UNCHANGED callback

Next == Startup \/ SetCallbacks \/ Create

Spec == Init /\ [][Next]_vars

-----------------------------------------------------------------------------
TypeOK == MainTypeOK /\ callback \subseteq {"mm2s", "s2mm"}

(* When the loops begin, whoever they wait for has been told what to call, *)
(* and what they use is there.                                             *)
ReadyForLoops == pc = "loop" => callback = {"mm2s", "s2mm"} /\ held = {"device", "tx_buf", "rx_buf"}

(* The inductive form of the above.                                        *)
StartupInv ==
    /\ LadderInv /\ TypeOK
    /\ pc \in {"create", "loop"} => callback = {"mm2s", "s2mm"}
=============================================================================
