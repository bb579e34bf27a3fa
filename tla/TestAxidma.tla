----------------------------- MODULE TestAxidma -----------------------------
(***************************************************************************)
(* The program examples/test_axidma.c: it sends the string given with -s   *)
(* through the hardware once and prints what comes back.  What the         *)
(* transfer does to the buffers is left out, and with it what lies beyond  *)
(* them: -i or -b after -s make tx_size larger or smaller than the string, *)
(* and a larger one has Transfer copy from behind the string (112) and     *)
(* print from behind the receive buffer (124).                             *)
(***************************************************************************)
EXTENDS ExampleMain

CONSTANTS
    Strings,     \* sizes of the strings given with -s, with their final zero
    SizeOptions  \* sizes given with -i or -b

VARIABLES
    send_buf,    \* the size of the copy of the string, 0 if there is none
    sent         \* did the transfer succeed?

vars == <<main, send_buf, sent>>

Init == MainInit /\ send_buf = 0 /\ sent = FALSE

(* parse_args, an option at a time: -s sets both sizes, -i and -b one.     *)
Option ==
    /\ pc = "start"
    /\ \/ \E n \in Strings : send_buf' = n /\ tx_size' = n /\ rx_size' = n
       \/ \E n \in SizeOptions : tx_size' = n /\ UNCHANGED <<send_buf, rx_size>>
    /\ UNCHANGED <<pc, held, rc, sent>>

ParseEnd ==
    /\ pc = "start" /\ tx_size # 0 /\ rx_size # 0 /\ Go("init")
    /\ UNCHANGED <<held, rc, send_buf, sent>> /\ Sizes2

(* single_transfer_test copies tx_size bytes from the string.              *)
Transfer ==
    /\ pc = "transfer" /\ Go("free_rx")
    /\ \/ sent' = TRUE /\ Ret(0)
       \/ sent' = FALSE /\ Ret(-1)
    /\ UNCHANGED <<held, send_buf>> /\ Sizes2

Startup == (Refused \/ Take \/ FindChannels("transfer") \/ Give) /\ UNCHANGED <<send_buf, sent>>

Next == Option \/ ParseEnd \/ Startup \/ Transfer

Spec == Init /\ [][Next]_vars

-----------------------------------------------------------------------------
TypeOK == MainTypeOK /\ send_buf \in Nat /\ sent \in BOOLEAN

(* The program exits with 0 only if a string was given, the receive buffer *)
(* has its size, and the transfer succeeded.                               *)
ZeroIsEarned == pc = "exit" /\ rc = 0 => send_buf > 0 /\ rx_size = send_buf /\ sent

(* The inductive form of the above.                                        *)
EarnedInv ==
    /\ LadderInv /\ TypeOK
    /\ rx_size = send_buf
    /\ pc # "start" /\ (pc = "exit" => rc = 0) => send_buf > 0
    /\ pc \in {"free_rx", "free_tx", "destroy", "exit"} /\ rc = 0 => sent
=============================================================================
