------------------------------ MODULE DmaUart ------------------------------
(***************************************************************************)
(* The program examples/dma_uart.c.  Its main thread receives from the     *)
(* hardware for ever and sends a datagram whenever it has received a word  *)
(* of ones; the thread udp_recv waits for datagrams and has the hardware   *)
(* transmit a buffer of ones for each.  Both threads use the same UDP      *)
(* port: udp_send binds it for each datagram (CLIENT_PORT), udp_recv once  *)
(* and for good (LOCAL_PORT).  Either of them ends the whole program when  *)
(* a call fails.  Blocking transfers are one step, and their failure is    *)
(* only counted.  The zero written behind the received bytes, and the      *)
(* functions nothing calls (init_data, verify_data, single_transfer_test,  *)
(* time_dma), are left out.                                                *)
(***************************************************************************)
EXTENDS UdpClient

CONSTANTS
    SizeOptions,       \* the sizes the options can give
    DEFAULT_TRANS_SIZE

VARIABLE thread        \* where udp_recv is

vars == <<main, udp, thread>>

Init == MainInit /\ UdpInit /\ thread = "none"

ParseArgs == SizesGiven(Accepted(SizeOptions, DEFAULT_TRANS_SIZE))

Hello == [j \in 0..3 |-> IF j < 3 THEN 49 ELSE 0]   \* "111"
Flag  == [j \in 0..7 |-> 255]

(* The failure of pthread_create is only printed; a first datagram is sent *)
(* in any case.                                                            *)
Create ==
    /\ pc = "create"
    /\ thread' \in {"socket", "none"}
    /\ Send(<<Hello>>)
    /\ UNCHANGED <<held, rc, port, wire>> /\ Sizes2

(* One round of the endless loop of main.                                  *)
S2mm ==
    /\ pc = "loop" /\ wire' = <<>>
    /\ \/ Send(<<Flag>>)
       \/ UNCHANGED <<pc, todo>>
    /\ UNCHANGED <<held, rc, port, thread>> /\ Sizes2

Startup ==
    /\ ParseArgs \/ Refused \/ Take \/ FindChannels("create") \/ Give
    /\ UNCHANGED <<udp, thread>>

(* The end of the program is the end of its threads.                       *)
Main ==
    \/ Startup \/ Create \/ S2mm
    \/ UdpNext /\ thread' = IF pc' = "dead" THEN "none" ELSE thread

-----------------------------------------------------------------------------
(* udp_recv                                                                *)
ThreadDies == Die /\ thread' = "none" /\ Sizes2 /\ UNCHANGED <<todo, wire>>

ThreadGoes(l) == thread' = l /\ UNCHANGED <<main, todo, wire>>

RecvSocket ==
    /\ thread = "socket"
    /\ \/ ThreadGoes("bind") /\ UNCHANGED port
       \/ ThreadDies

RecvBind ==
    /\ thread = "bind"
    /\ \/ port = "free" /\ port' = "thread" /\ ThreadGoes("recvfrom")
       \/ ThreadDies

(* An empty datagram is not answered.                                      *)
RecvFrom ==
    /\ thread = "recvfrom"
    /\ \/ ThreadGoes("mm2s") /\ UNCHANGED port
       \/ ThreadDies

(* init_tx_data and a blocking transfer, good or bad.                      *)
Mm2s == thread = "mm2s" /\ ThreadGoes("recvfrom") /\ UNCHANGED port

Thread == RecvSocket \/ RecvBind \/ RecvFrom \/ Mm2s

Next == Main \/ Thread

Spec == Init /\ [][Next]_vars /\ WF_vars(Main)

-----------------------------------------------------------------------------
TypeOK ==
    /\ MainTypeOK /\ UdpTypeOK
    /\ thread \in {"none", "socket", "bind", "recvfrom", "mm2s"}
    /\ (thread \in {"recvfrom", "mm2s"}) = (port = "thread")

(* Once the receiving thread has its port, no datagram can leave: the next *)
(* word of ones received, or even the first datagram, ends the program.    *)
SendingEndsTheProgram == (port = "thread" /\ pc = "socket") ~> pc = "dead"

(* The loop goes on for ever, unless the program ends.                     *)
LoopGoesOn == []<>(pc \in {"loop", "exit", "dead"})

(* The inductive form of TypeOK: before the loop there is one thread.      *)
UartInv ==
    /\ LadderInv /\ TypeOK
    /\ pc \notin {"loop", "socket", "bind", "sendto", "close", "dead"} => thread = "none"
=============================================================================
